-------------------------------- MODULE MCParts --------------------------------
(***************************************************************************)
(* The parts of the Base that share no state with each other or with the   *)
(* other modules, checked in one run.  Since nothing one of them does can  *)
(* be seen by another, it is enough to let one part move in a behaviour.   *)
(***************************************************************************)
EXTENDS Notifications, ServiceInfo, BaseInfo, FanControl, Confgen

VARIABLE part    \* the part that moves

\* The arguments in bbbfancontrol.service with the defaults of the others; a kickstart and a
\* slope that is rounded; equal temperatures; a range that is refused.
MCFlags == {[tmin |-> 60, tmax |-> 75, cooldown |-> 55, fmin |-> 120, fmax |-> 255, kickstart |-> 0],
            [tmin |-> 45, tmax |-> 60, cooldown |-> 40, fmin |-> 120, fmax |-> 200, kickstart |-> 5],
            [tmin |-> 60, tmax |-> 60, cooldown |-> 60, fmin |-> 120, fmax |-> 255, kickstart |-> 0],
            [tmin |-> 60, tmax |-> 75, cooldown |-> 65, fmin |-> 120, fmax |-> 255, kickstart |-> 0]}
MCReadings == {39999, 40000, 44999, 45000, 54999, 55000, 59999, 60000, 66500, 74999, 75000, 90000}

partVars == <<notifVars, infoVars, baseVars, fanVars, genVars, part>>

\* The parts that do not move start in one state each.
OthersStandStill ==
    /\ part # "fan" => flags.tmin = flags.cooldown /\ reading = 40000
    /\ part # "confgen" => /\ template[1] = OutputLine /\ outputArg
                           /\ template[2][1].option = "#rm" /\ template[2][2].option = "#rmLineTrue"
                           /\ keys = [k \in KeyNames |-> ""]

Init ==
    /\ part \in {"notifications", "info", "base", "fan", "confgen"}
    /\ NotifInit /\ InfoInit /\ BaseInit /\ FanInit /\ GenInit
    /\ OthersStandStill

Next ==
    \/ part = "notifications" /\ NotifNext /\ UNCHANGED <<infoVars, baseVars, fanVars, genVars, part>>
    \/ part = "info" /\ InfoNext /\ UNCHANGED <<notifVars, baseVars, fanVars, genVars, part>>
    \/ part = "base" /\ BaseNext /\ UNCHANGED <<notifVars, infoVars, fanVars, genVars, part>>
    \/ part = "fan" /\ FanNext /\ UNCHANGED <<notifVars, infoVars, baseVars, genVars, part>>
    \/ part = "confgen" /\ GenNext /\ UNCHANGED <<notifVars, infoVars, baseVars, fanVars, part>>

\* The goroutines, the app and the fan control keep going; so does the reader of the pipe.
Fairness ==
    /\ WF_notifVars(part = "notifications" /\ Scan)
    /\ WF_notifVars(part = "notifications" /\ ReceiveNotification)
    /\ WF_notifVars(part = "notifications" /\ EmitOutcome)
    /\ WF_infoVars(part = "info" /\ RpcLoop)
    /\ WF_infoVars(part = "info" /\ UpdateCheckLoop)
    /\ WF_infoVars(part = "info" /\ GetServiceInfo)
    /\ WF_infoVars(part = "info" /\ IsBaseUpdateAvailable)
    /\ WF_fanVars(part = "fan" /\ Fan)

FairSpec == Init /\ [][Next]_partVars /\ Fairness

\* Every part's variables have their types.
TypeOK == NotifTypeOK /\ InfoTypeOK /\ BaseTypeOK /\ FanTypeOK /\ GenTypeOK
================================================================================
