------------------------------- MODULE FanControl -------------------------------
(***************************************************************************)
(* bbbfancontrol: every cycle it reads the temperature in thousandths of a *)
(* degree and sets the fan, on from tmin, faster up to tmax, and off again *)
(* only below the cooldown temperature.  systemd starts it again when it   *)
(* has ended; the fan keeps its last value meanwhile.                      *)
(***************************************************************************)
EXTENDS Integers

CONSTANTS Flags,         \* sets of command-line arguments
          Readings,      \* contents of the temperature file
          MaxStops       \* bound on ends of the process

ASSUME FanControlAssumption ==
    /\ Flags \subseteq [tmin : Int, tmax : Int, cooldown : Int, fmin : Int, fmax : Int,
                        kickstart : Int]
    /\ \A f \in Flags : f.fmin > 0 /\ f.fmin <= f.fmax
    /\ Readings \subseteq Nat /\ MaxStops \in Nat

VARIABLES flags,
          reading,          \* the temperature file
          fan,              \* the fan control file
          fanState,         \* "exit" after the sanity check or a panic
          cooldown,         \* the local variable of main
          nextPWM,          \* value to write after the kickstart
          stops,
          measured,         \* history: last temperature this process used, or -1
          warm              \* history: it saw tmin and nothing below cooldown since

fanVars == <<flags, reading, fan, fanState, cooldown, nextPWM, stops, measured, warm>>

FanTypeOK ==
    /\ flags \in Flags /\ reading \in Readings
    /\ fan \in {0} \cup flags.fmin..flags.fmax
    /\ fanState \in {"start", "cycle", "kickstart", "exit"}
    /\ cooldown \in BOOLEAN /\ nextPWM \in {0} \cup flags.fmin..flags.fmax
    /\ stops \in 0..MaxStops /\ measured \in Nat \cup {-1} /\ warm \in BOOLEAN

FanInit ==
    /\ flags \in Flags /\ reading \in Readings /\ fan = 0
    /\ fanState = "start" /\ cooldown = FALSE /\ nextPWM = 0
    /\ stops = 0 /\ measured = -1 /\ warm = FALSE

\* The sanity check lets tmin = tmax pass.
SanityCheck ==
    /\ fanState = "start"
    /\ fanState' = IF flags.cooldown > flags.tmin \/ flags.tmin > flags.tmax THEN "exit" ELSE "cycle"
    /\ UNCHANGED <<flags, reading, fan, cooldown, nextPWM, stops, measured, warm>>

\* Mutant of LinearPWM: the slope is applied from tmax downwards.
LinearPWMFromMax(t) ==
    flags.fmin + ((flags.fmax - flags.fmin) \div (flags.tmax - flags.tmin)) * (t - flags.tmax)

\* Linear increase between tmin and tmax, with the slope rounded down.
LinearPWM(t) ==
    flags.fmin + ((flags.fmax - flags.fmin) \div (flags.tmax - flags.tmin)) * (t - flags.tmin)

Capped(t) == IF LinearPWM(t) > flags.fmax THEN flags.fmax ELSE LinearPWM(t)

\* Mutant of FanPWM: the fan stops below tmin.
FanPWMNoHysteresis(t) == IF t < flags.tmin THEN 0 ELSE Capped(t)

\* The value after the three branches.
FanPWM(t) ==
    IF cooldown
    THEN IF t < flags.cooldown THEN 0
         ELSE IF Capped(t) < flags.fmin THEN flags.fmin ELSE Capped(t)
    ELSE IF t >= flags.tmin THEN Capped(t) ELSE 0

Cooldown(t) == IF cooldown THEN t >= flags.cooldown ELSE t >= flags.tmin

\* One cycle, up to the end of the kickstart if there is one.
Cycle == LET t == reading \div 1000 IN
    /\ fanState = "cycle" /\ flags.tmin # flags.tmax
    /\ cooldown' = Cooldown(t)
    /\ nextPWM' = FanPWM(t)
    /\ IF ~cooldown /\ t >= flags.tmin /\ flags.kickstart > 0
       THEN fan' = flags.fmax /\ fanState' = "kickstart"
       ELSE fan' = nextPWM' /\ UNCHANGED fanState
    /\ measured' = t
    /\ warm' = (t >= flags.tmin \/ (warm /\ t >= flags.cooldown))
    /\ UNCHANGED <<flags, reading, stops>>

\* The value was computed before the kickstart.
KickstartEnds ==
    /\ fanState = "kickstart" /\ fanState' = "cycle"
    /\ fan' = nextPWM
    /\ UNCHANGED <<flags, reading, cooldown, nextPWM, stops, measured, warm>>

\* tmax - tmin is the divisor.
DividesByZero ==
    /\ fanState = "cycle" /\ flags.tmin = flags.tmax
    /\ fanState' = "exit"
    /\ UNCHANGED <<flags, reading, fan, cooldown, nextPWM, stops, measured, warm>>

\* log.Fatal when a file cannot be read or written, or a signal.
FanStops ==
    /\ fanState \in {"cycle", "kickstart"} /\ stops < MaxStops /\ stops' = stops + 1
    /\ fanState' = "exit"
    /\ UNCHANGED <<flags, reading, fan, cooldown, nextPWM, measured, warm>>

\* Mutant of FanRestarts: Restart=on-success, and every end is a failure.
FanRestartsOnSuccess ==
    /\ fanState = "success" /\ fanState' = "start"
    /\ cooldown' = FALSE /\ nextPWM' = 0 /\ measured' = -1 /\ warm' = FALSE
    /\ UNCHANGED <<flags, reading, fan, stops>>

\* Restart=always.
FanRestarts ==
    /\ fanState = "exit" /\ fanState' = "start"
    /\ cooldown' = FALSE /\ nextPWM' = 0 /\ measured' = -1 /\ warm' = FALSE
    /\ UNCHANGED <<flags, reading, fan, stops>>

TemperatureChanges(r) ==
    /\ reading # r /\ reading' = r
    /\ UNCHANGED <<flags, fan, fanState, cooldown, nextPWM, stops, measured, warm>>

Fan == SanityCheck \/ Cycle \/ KickstartEnds \/ DividesByZero \/ FanRestarts

FanNext == Fan \/ FanStops \/ \E r \in Readings : TemperatureChanges(r)

--------------------------------------------------------------------------------
\* "no fan below" tmin, and off only after cooling down: between two cycles the fan runs,
\* at fmin at least, exactly if the temperature has been tmin and not below the cooldown
\* since; "max fan above" tmax, up to what the rounded slope loses: less than one step a
\* degree.
RunsUntilCool ==
    fanState = "cycle" /\ measured >= 0 =>
        /\ IF warm THEN fan >= flags.fmin ELSE fan = 0
        /\ measured >= flags.tmax => fan > flags.fmax - (flags.tmax - flags.tmin)

\* A temperature that stays from tmin on gets a running fan, one that stays below the
\* cooldown a fan that is off, whatever restarts and kickstarts come between, unless tmin
\* and tmax are the same or the flags are refused: then the fan is never set.
FanFollowsTemperature ==
    LET refused == flags.tmin >= flags.tmax \/ flags.cooldown > flags.tmin IN
    /\ []<>(refused \/ reading < 1000 * flags.tmin \/ fan >= flags.fmin)
    /\ []<>(refused \/ reading >= 1000 * flags.cooldown \/ fan = 0)
================================================================================
