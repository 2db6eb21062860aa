---------------------------------- MODULE Hsm ----------------------------------
(***************************************************************************)
(* middleware/src/hsm: WaitForFirmware, which main runs before anything    *)
(* else, and the HSM on the other end of the serial port.  A probe has a   *)
(* read timeout of 200 ms; the exchanges that follow it have none, so one  *)
(* with an HSM that fell silent after the probe blocks for good.           *)
(***************************************************************************)
EXTENDS Naturals

CONSTANTS BootTimeout,   \* bootTimeoutSeconds: the number of probes
          MaxFaults      \* bound on failing calls, resets and restarts

ASSUME HsmAssumption == BootTimeout \in Nat \ {0} /\ MaxFaults \in Nat

VARIABLES hsm,      \* what answers on the serial port
          boot,     \* position in WaitForFirmware
          second,   \* its loop counter
          fell,     \* history: the HSM fell silent between a probe and its use
          faults

hsmVars == <<hsm, boot, second, fell, faults>>

\* Connected and absent: main has gone on, with and without a firmware instance.
Decided == {"connected", "absent"}

Modes == {"silent", "bootloader", "firmware"}

HsmTypeOK ==
    /\ hsm \in Modes
    /\ boot \in Decided \cup {"probe", "init", "reboot", "blocked"}
    /\ second \in 0..(BootTimeout - 1)
    /\ fell \in BOOLEAN
    /\ faults \in 0..MaxFaults

BootInit == boot = "probe" /\ second = 0 /\ fell = FALSE

Fault == faults < MaxFaults /\ faults' = faults + 1

\* Mutant of NextAttempt: second starts anew at every attempt.
NextAttemptAfresh == boot' = "probe" /\ second' = 0

NextAttempt ==
    IF second + 1 = BootTimeout
    THEN boot' = "absent" /\ second' = 0
    ELSE boot' = "probe" /\ second' = second + 1

\* isFirmware.  No answer is io.EOF: the next attempt follows at once.
Probe ==
    /\ boot = "probe"
    /\ IF hsm = "silent"
       THEN NextAttempt
       ELSE boot' = (IF hsm = "firmware" THEN "init" ELSE "reboot") /\ UNCHANGED second
    /\ UNCHANGED <<hsm, fell, faults>>

\* getFirmware: blocking port, Init, Status, ChannelHashVerify.
GetFirmware ==
    /\ boot = "init"
    /\ boot' = CASE hsm = "firmware" -> "connected"
                 [] hsm = "bootloader" -> "absent"
                 [] hsm = "silent" -> "blocked"
    /\ second' = 0
    /\ UNCHANGED <<hsm, fell, faults>>

\* getBootloader(nil) and Reboot: the HSM goes down and is probed again.
RebootHsm ==
    /\ boot = "reboot"
    /\ IF hsm = "silent"
       THEN boot' = "blocked" /\ second' = 0 /\ UNCHANGED hsm
       ELSE hsm' = "silent" /\ NextAttempt
    /\ UNCHANGED <<fell, faults>>

\* Any other error, or an unexpected status: main continues without the HSM.
ExchangeFails ==
    /\ boot \in {"probe", "init", "reboot"} /\ Fault
    /\ boot' = "absent" /\ second' = 0
    /\ UNCHANGED <<hsm, fell>>

\* Nobody looks at an HSM that main has given up.
HsmAnswers(mode) ==
    /\ boot # "absent" /\ hsm = "silent" /\ hsm' = mode
    /\ UNCHANGED <<boot, second, fell, faults>>

HsmFalls ==
    /\ boot # "absent" /\ hsm # "silent" /\ hsm' = "silent" /\ Fault
    /\ fell' = (fell \/ boot \in {"init", "reboot"})
    /\ UNCHANGED <<boot, second>>

WaitForFirmware == Probe \/ GetFirmware \/ RebootHsm

HsmStep ==
    \/ WaitForFirmware \/ ExchangeFails \/ HsmFalls
    \/ \E mode \in {"bootloader", "firmware"} : HsmAnswers(mode)
================================================================================
