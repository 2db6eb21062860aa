----------------------------- MODULE Parts_proofs -----------------------------
(***************************************************************************)
(* Proofs about the parts that MCParts checks in one run: the IPC          *)
(* notifications, the pollers, the RPCs that read Redis and Prometheus,    *)
(* the fan control and the configuration generator.  Each is proved for    *)
(* its own specification; MCParts implements all of them, since it lets    *)
(* one part move and the others stutter.                                   *)
(***************************************************************************)
EXTENDS MCParts, SequenceTheorems, TLAPS

(***************************************************************************)
(* IPC notifications.                                                      *)
(***************************************************************************)
NotifSpec == NotifInit /\ [][NotifNext]_notifVars

\* What the reader holds and what the loop is about to send, by their places: the channel
\* between them has no buffer.
HandOver ==
    /\ reader # "send" => held = "none"
    /\ notifier = "receive" <=> handled = "none"

NotifIInv == NotifTypeOK /\ HandOver /\ RelayedInOrder

\* The line that the loop handles stands for an event; with version 1, for the expected one.
LEMMA ExpectedType ==
    /\ \A l : Expected(l) \in Seq({"success", "failure"})
    /\ \A l : Outcome(l) = "none" => Expected(l) = <<>>
    /\ \A l \in {"success", "failure"} : Outcome(l) = l /\ Expected(l) = <<l>>
    /\ Expected("none") = <<>> /\ Expected("version2") = <<>>
    /\ \A l : Outcome(l) # "none" => l \in {"success", "failure", "version2"}
  <1>1. /\ <<>> \in Seq({"success", "failure"}) /\ <<"success">> \in Seq({"success", "failure"})
        /\ <<"failure">> \in Seq({"success", "failure"})
    OBVIOUS
  <1>2. \A l : Expected(l) \in Seq({"success", "failure"})
    BY <1>1 DEF Expected
  <1>3. \A l : Outcome(l) = "none" => Expected(l) = <<>>
    BY DEF Expected, Outcome
  <1>4. \A l \in {"success", "failure"} : Outcome(l) = l /\ Expected(l) = <<l>>
    BY DEF Expected, Outcome
  <1>5. Expected("none") = <<>> /\ Expected("version2") = <<>>
    BY DEF Expected
  <1>6. \A l : Outcome(l) # "none" => l \in {"success", "failure", "version2"}
    BY DEF Outcome
  <1> QED
    BY <1>2, <1>3, <1>4, <1>5, <1>6

LEMMA NotifStep == NotifIInv /\ [NotifNext]_notifVars => NotifIInv'
  <1> SUFFICES ASSUME NotifIInv, [NotifNext]_notifVars PROVE NotifIInv'
    OBVIOUS
  <1> DEFINE E == {"success", "failure"}
  <1>0. relayed \in Seq(E) /\ scanned \in Seq(E) /\ pipe \in Seq(Lines)
        /\ handled \in {"success", "failure", "version2", "none"}
    BY DEF NotifIInv, NotifTypeOK
  <1> USE NotificationsAssumption DEF NotifIInv
  <1>1. ASSUME NEW l \in Lines, WriteLine(l) PROVE NotifIInv'
    <2>1. NotifTypeOK'
      <3>1. pipe' \in Seq(Lines)
        BY <1>0, <1>1 DEF WriteLine
      <3> QED
        BY <1>1, <3>1 DEF WriteLine, NotifTypeOK
    <2> QED
      BY <1>1, <2>1 DEF WriteLine, HandOver, RelayedInOrder
  <1>2. CASE Scan
    <2> DEFINE l == Head(pipe)
    <2>1. /\ reader = "scan" /\ pipe # <<>> /\ pipe' = Tail(pipe)
          /\ scanned' = scanned \o Expected(l)
          /\ reader' = (IF l = "huge" THEN "ended" ELSE IF Kept(l) THEN "send" ELSE "scan")
          /\ held' = (IF l # "huge" /\ Kept(l) THEN l ELSE "none")
          /\ UNCHANGED <<notifier, handled, nLines, restarts, relayed, unsupported>>
      BY <1>2 DEF Scan
    <2>2. l \in Lines /\ Tail(pipe) \in Seq(Lines)
      BY <1>0, <2>1
    <2> HIDE DEF l
    <2>3. held = "none" /\ Expected(held') = Expected(l)
      BY <2>1, <2>2 DEF HandOver, Kept, Expected, Lines
    <2>4. Expected(l) \in Seq(E)
      BY ExpectedType
    <2>5. scanned' \in Seq(E)
      BY <1>0, <2>1, <2>4
    <2>6. NotifTypeOK' /\ HandOver'
      BY <2>1, <2>2, <2>5 DEF NotifTypeOK, HandOver
    <2>7. RelayedInOrder'
      <3>1. relayed \o Expected(handled) \in Seq(E)
        BY <1>0, ExpectedType
      <3>2. scanned = relayed \o Expected(handled)
        <4>1. scanned = (relayed \o Expected(handled)) \o <<>>
          BY <2>3, ExpectedType DEF RelayedInOrder
        <4> QED
          BY <3>1, <4>1, ConcatEmptySeq
      <3> QED
        BY <2>1, <2>3, <3>2 DEF RelayedInOrder
    <2> QED
      BY <2>6, <2>7
  <1>3. CASE ReceiveNotification
    <2>1. /\ reader = "send" /\ notifier = "receive" /\ reader' = "scan" /\ held' = "none"
          /\ handled' = (IF Outcome(held) = "none" THEN "none" ELSE held)
          /\ notifier' = (IF Outcome(held) = "none" THEN "receive" ELSE "emit")
          /\ UNCHANGED <<pipe, nLines, restarts, scanned, relayed, unsupported>>
      BY <1>3 DEF ReceiveNotification, TakeNotification
    <2>2. /\ handled' \in {"success", "failure", "version2", "none"}
          /\ handled' = "none" <=> Outcome(held) = "none"
          /\ Expected(handled') = Expected(held)
      BY <2>1, ExpectedType
    <2>3. NotifTypeOK' /\ HandOver'
      BY <2>1, <2>2 DEF NotifTypeOK, HandOver
    <2>4. RelayedInOrder'
      <3>1. scanned = (relayed \o <<>>) \o Expected(held)
        BY <2>1, ExpectedType DEF RelayedInOrder, HandOver
      <3>2. relayed \o Expected(held) \in Seq(E)
        BY <1>0, ExpectedType
      <3>3. scanned = (relayed \o Expected(handled')) \o <<>>
        BY <1>0, <2>2, <3>1, <3>2, ConcatEmptySeq
      <3> QED
        BY <2>1, <3>3, ExpectedType DEF RelayedInOrder
    <2> QED
      BY <2>3, <2>4
  <1>4. CASE EmitOutcome
    <2>1. /\ notifier = "emit" /\ notifier' = "receive" /\ handled' = "none"
          /\ handled \in {"success", "failure", "version2"}
          /\ UNCHANGED <<pipe, reader, held, nLines, restarts, scanned>>
      BY <1>0, <1>4 DEF EmitOutcome, HandOver
    <2>2. unsupported' \in BOOLEAN /\ relayed' = relayed \o Expected(handled)
      <3>1. CASE handled = "version2"
        BY <1>0, <1>4, <3>1, ExpectedType, ConcatEmptySeq DEF EmitOutcome
      <3>2. CASE handled # "version2"
        <4>1. handled \in E /\ relayed' = Append(relayed, handled) /\ unsupported' = unsupported
          BY <1>4, <2>1, <3>2, ExpectedType DEF EmitOutcome
        <4>2. unsupported' \in BOOLEAN
          BY <4>1 DEF NotifTypeOK
        <4>3. Append(relayed, handled) = relayed \o <<handled>>
          BY <1>0, <4>1, AppendIsConcat
        <4> QED
          BY <4>1, <4>2, <4>3, ExpectedType
      <3> QED
        BY <3>1, <3>2
    <2>3. relayed' \in Seq(E)
      BY <1>0, <2>2, ExpectedType
    <2>4. NotifTypeOK' /\ HandOver'
      BY <2>1, <2>2, <2>3 DEF NotifTypeOK, HandOver
    <2>5. RelayedInOrder'
      <3>1. relayed' \o <<>> = relayed'
        BY <2>3, ConcatEmptySeq
      <3> QED
        BY <2>1, <2>2, <3>1, ExpectedType DEF RelayedInOrder
    <2> QED
      BY <2>4, <2>5
  <1>5. CASE NotifRestart
    <2>1. NotifTypeOK' /\ HandOver'
      BY <1>5 DEF NotifRestart, NotifTypeOK, HandOver
    <2>2. RelayedInOrder'
      BY <1>5, ExpectedType DEF NotifRestart, RelayedInOrder
    <2> QED
      BY <2>1, <2>2
  <1>6. CASE UNCHANGED notifVars
    BY <1>6 DEF notifVars, NotifTypeOK, HandOver, RelayedInOrder
  <1> QED
    BY <1>1, <1>2, <1>3, <1>4, <1>5, <1>6 DEF NotifNext

\* Whatever other processes write into the named pipe, every outcome of an update that is
\* scanned in a notification of version 1 becomes one event, in the order of the lines.
THEOREM OutcomesAreRelayed == NotifSpec => [](NotifTypeOK /\ RelayedInOrder)
  <1>1. NotifInit => NotifIInv
    <2> SUFFICES ASSUME NotifInit PROVE NotifIInv
      OBVIOUS
    <2>1. /\ pipe \in Seq(Lines) /\ scanned \in Seq({"success", "failure"})
          /\ relayed \in Seq({"success", "failure"})
      BY DEF NotifInit
    <2>2. nLines \in 0..MaxLines /\ restarts \in 0..MaxRestarts
      BY NotificationsAssumption DEF NotifInit
    <2>3. NotifTypeOK /\ HandOver
      BY <2>1, <2>2 DEF NotifInit, NotifTypeOK, HandOver
    <2>4. RelayedInOrder
      <3>1. <<>> \o <<>> = <<>>
        BY ConcatEmptySeq
      <3> QED
        BY <3>1, ExpectedType DEF NotifInit, RelayedInOrder
    <2> QED
      BY <2>3, <2>4 DEF NotifIInv
  <1>2. NotifIInv => NotifTypeOK /\ RelayedInOrder
    BY DEF NotifIInv
  <1> QED
    BY <1>1, <1>2, NotifStep, PTL DEF NotifSpec

(***************************************************************************)
(* Service information and update check.                                   *)
(***************************************************************************)
InfoSpec == InfoInit /\ [][InfoNext]_infoVars

LEMMA InfoStep == InfoTypeOK /\ [InfoNext]_infoVars => InfoTypeOK'
  <1> SUFFICES ASSUME InfoTypeOK, [InfoNext]_infoVars PROVE InfoTypeOK'
    OBVIOUS
  <1> USE ServiceInfoAssumption DEF InfoTypeOK, around, app
  <1>1. CASE QueryBlocks \/ QueryIbd
    <2>1. read' \in Infos
      BY <1>1 DEF QueryBlocks, QueryIbd, Infos, Info
    <2> QED
      BY <1>1, <2>1 DEF QueryBlocks, QueryIbd
  <1>2. CASE DidServiceInfoChange \/ AssignServiceInfo
    <2>1. serviceInfo' \in Infos
      BY <1>2 DEF DidServiceInfoChange, AssignServiceInfo, Infos
    <2> QED
      BY <1>2, <2>1 DEF DidServiceInfoChange, AssignServiceInfo
  <1>3. CASE EmitInfo
    BY <1>3 DEF EmitInfo, Announce
  <1>4. CASE GetUpdateInfo
    BY <1>4 DEF GetUpdateInfo
  <1>5. CASE SetFlag \/ SetInfo
    <2>1. available' \in Offers
      BY <1>5 DEF SetFlag, SetInfo, Offers
    <2> QED
      BY <1>5, <2>1 DEF SetFlag, SetInfo
  <1>6. CASE EmitOffer
    BY <1>6 DEF EmitOffer, Announce
  <1>7. CASE AppConnects
    BY <1>7 DEF AppConnects
  <1>8. CASE AppDisconnects
    <2>1. view' \in Infos /\ offer' \in Offers
      BY <1>8 DEF AppDisconnects, NoInfo, Info, NoOffer, Infos, Offers
    <2>2. changes' \in 0..MaxChanges
      BY <1>8 DEF AppDisconnects, Change
    <2>3. /\ online' = FALSE /\ ask' = {}
          /\ UNCHANGED <<around, poll, read, serviceInfo, check, newVersion, available>>
      BY <1>8 DEF AppDisconnects
    <2> HIDE DEF Infos, Offers
    <2> QED
      BY <2>1, <2>2, <2>3
  <1>9. CASE GetServiceInfo \/ IsBaseUpdateAvailable
    <2>1. CASE GetServiceInfo
      BY <2>1 DEF GetServiceInfo
    <2>2. CASE IsBaseUpdateAvailable
      BY <2>2 DEF IsBaseUpdateAvailable
    <2> QED
      BY <1>9, <2>1, <2>2
  <1>10. CASE SurroundingsChange
    <2>1. /\ changes' \in 0..MaxChanges
          /\ UNCHANGED <<poll, read, serviceInfo, check, newVersion, available, app>>
      BY <1>10 DEF SurroundingsChange, Change
    <2>2. /\ blocks' \in {0, 1} /\ ibd' \in {0, 1} /\ latest' \in 0..Latest
      BY <1>10 DEF SurroundingsChange
    <2>3. metrics' \in BOOLEAN /\ site' \in BOOLEAN
      BY <1>10, Zenon DEF SurroundingsChange
    <2> QED
      BY <2>1, <2>2, <2>3
  <1>11. CASE UNCHANGED infoVars
    BY <1>11 DEF infoVars
  <1> QED
    BY <1>1, <1>2, <1>3, <1>4, <1>5, <1>6, <1>7, <1>8, <1>9, <1>10, <1>11
    DEF InfoNext, RpcLoop, UpdateCheckLoop

LEMMA InfoTypeCorrect == InfoSpec => []InfoTypeOK
  <1>1. InfoInit => InfoTypeOK
    <2>1. NoInfo \in Infos
      BY DEF NoInfo, Info, Infos
    <2>2. NoOffer \in Offers
      <3>1. 0 \in 0..Latest
        BY ServiceInfoAssumption
      <3> QED
        BY <3>1 DEF NoOffer, Offers
    <2> SUFFICES ASSUME InfoInit PROVE InfoTypeOK
      OBVIOUS
    <2>3. latest \in 0..Latest /\ newVersion \in 0..Latest /\ changes \in 0..MaxChanges
      BY ServiceInfoAssumption DEF InfoInit
    <2>4. metrics \in BOOLEAN /\ site \in BOOLEAN /\ online \in BOOLEAN
      BY DEF InfoInit
    <2>5. /\ read = NoInfo /\ serviceInfo = NoInfo /\ view = NoInfo
          /\ available = NoOffer /\ offer = NoOffer
          /\ blocks = 0 /\ ibd = 1 /\ poll = "blocks" /\ check = "get" /\ ask = {}
      BY DEF InfoInit
    <2> QED
      BY <2>1, <2>2, <2>3, <2>4, <2>5 DEF InfoTypeOK
  <1> QED
    BY <1>1, InfoStep, PTL DEF InfoSpec

(***************************************************************************)
(* Fan control.                                                            *)
(***************************************************************************)
FanSpec == FanInit /\ [][FanNext]_fanVars

\* What the property says of a value of the fan.
Suits(v) ==
    /\ IF warm THEN v >= flags.fmin ELSE v = 0
    /\ measured >= flags.tmax => v > flags.fmax - (flags.tmax - flags.tmin)

\* The flags have passed the sanity check; the local variable follows the history; the
\* value computed before a kickstart is still right after it.
FanMemory ==
    /\ warm = cooldown
    /\ fanState = "start" => measured = -1
    /\ fanState \in {"cycle", "kickstart"} =>
         /\ flags.cooldown <= flags.tmin /\ flags.tmin <= flags.tmax
         /\ measured >= 0 => Suits(nextPWM)
    /\ fanState = "cycle" /\ measured >= 0 => fan = nextPWM

FanIInv == FanTypeOK /\ FanMemory

\* A factor that is not negative keeps the order.
LEMMA Product ==
    ASSUME NEW q \in Nat, NEW d \in Nat, NEW x \in Nat, x >= d
    PROVE  q * x \in Nat /\ q * d \in Nat /\ q * x >= q * d
  <1>1. \A y \in Nat : q * y \in Nat
    OBVIOUS
  <1>2. q * x = q * d + q * (x - d)
    OBVIOUS
  <1>3. q * x \in Nat /\ q * d \in Nat /\ q * (x - d) \in Nat
    BY <1>1
  <1> QED
    BY <1>2, <1>3

\* The slope, rounded down, is not negative, and over the whole range it loses less than
\* one step a degree.
LEMMA Slope ==
    ASSUME NEW a \in Nat, NEW d \in Nat \ {0}, NEW x \in Nat
    PROVE  /\ (a \div d) * x \in Nat
           /\ x >= d => (a \div d) * x > a - d
  <1> DEFINE q == a \div d
  <1>1. q \in Nat
    <2>1. a \div d \in Int
      OBVIOUS
    <2>2. a \div d >= 0
      OBVIOUS
    <2> QED
      BY <2>1, <2>2
  <1>2. d * q > a - d
    OBVIOUS
  <1> HIDE DEF q
  <1>3. q * x \in Nat /\ q * d \in Nat /\ q * d > a - d
    <2>1. q * d = d * q
      BY <1>1
    <2> QED
      BY <1>1, <1>2, <2>1, Product
  <1>4. x >= d => q * x >= q * d
    BY <1>1, Product
  <1> QED
    BY <1>3, <1>4 DEF q

\* The types of the arguments.
LEMMA FlagTypes ==
    ASSUME FanTypeOK
    PROVE  /\ flags.tmin \in Int /\ flags.tmax \in Int /\ flags.cooldown \in Int
           /\ flags.fmin \in Int /\ flags.fmax \in Int /\ flags.kickstart \in Int
           /\ flags.fmin > 0 /\ flags.fmin <= flags.fmax
           /\ reading \in Nat
  BY FanControlAssumption DEF FanTypeOK

\* The linear increase, capped.
LEMMA CappedRange ==
    ASSUME FanTypeOK, flags.tmin < flags.tmax, NEW t \in Nat
    PROVE  /\ Capped(t) \in Int /\ Capped(t) <= flags.fmax
           /\ t >= flags.tmin => Capped(t) >= flags.fmin
           /\ t >= flags.tmax => Capped(t) > flags.fmax - (flags.tmax - flags.tmin)
  <1> DEFINE a == flags.fmax - flags.fmin
             d == flags.tmax - flags.tmin
             x == t - flags.tmin
  <1>1. a \in Nat /\ d \in Nat \ {0} /\ x \in Int
    BY FlagTypes
  <1>2. LinearPWM(t) = flags.fmin + (a \div d) * x
    BY DEF LinearPWM
  <1>3. /\ t >= flags.tmin <=> x >= 0
        /\ t >= flags.tmax <=> x >= d
        /\ a = flags.fmax - flags.fmin /\ d = flags.tmax - flags.tmin
    BY FlagTypes
  <1> HIDE DEF a, d, x
  <1>4. (a \div d) * x \in Int
    <2>1. a \div d \in Int
      BY <1>1
    <2> QED
      BY <1>1, <2>1
  <1>5. ASSUME x >= 0 PROVE (a \div d) * x \in Nat /\ (x >= d => (a \div d) * x > a - d)
    <2>1. x \in Nat
      BY <1>1, <1>5
    <2> QED
      BY <1>1, <2>1, Slope
  <1> DEFINE p == (a \div d) * x
  <1>6. /\ p \in Int /\ (x >= 0 => p >= 0) /\ (x >= d => p > a - d)
        /\ LinearPWM(t) = flags.fmin + p
    BY <1>1, <1>2, <1>4, <1>5
  <1> HIDE DEF p
  <1> QED
    BY <1>1, <1>3, <1>6, FlagTypes DEF Capped

LEMMA CycleStep == FanIInv /\ Cycle => FanIInv'
  <1> SUFFICES ASSUME FanIInv, Cycle PROVE FanIInv'
    OBVIOUS
  <1> DEFINE t == reading \div 1000
  <1>1. t \in Nat
    BY FlagTypes DEF FanIInv
  <1>2. /\ fanState = "cycle" /\ flags.tmin # flags.tmax
        /\ cooldown' = Cooldown(t) /\ nextPWM' = FanPWM(t) /\ measured' = t
        /\ warm' = (t >= flags.tmin \/ (warm /\ t >= flags.cooldown))
        /\ \/ fan' = flags.fmax /\ fanState' = "kickstart"
           \/ fan' = nextPWM' /\ fanState' = "cycle"
        /\ UNCHANGED <<flags, reading, stops>>
    BY DEF Cycle
  <1> HIDE DEF t
  <1>3. /\ flags.cooldown <= flags.tmin /\ flags.tmin < flags.tmax /\ warm = cooldown
        /\ cooldown \in BOOLEAN /\ FanTypeOK
    BY <1>2, FlagTypes DEF FanIInv, FanTypeOK, FanMemory
  <1>4. warm' = cooldown' /\ warm' \in BOOLEAN
    <2>1. (t >= flags.tmin \/ (warm /\ t >= flags.cooldown)) <=> Cooldown(t)
      BY <1>1, <1>3, FlagTypes DEF Cooldown
    <2>2. Cooldown(t) \in BOOLEAN
      <3>1. (t >= flags.cooldown) \in BOOLEAN /\ (t >= flags.tmin) \in BOOLEAN
        OBVIOUS
      <3>2. CASE cooldown
        BY <3>1, <3>2 DEF Cooldown
      <3>3. CASE ~cooldown
        BY <3>1, <3>3 DEF Cooldown
      <3> QED
        BY <3>2, <3>3
    <2> QED
      BY <1>2, <2>1, <2>2
  <1> USE <1>1, <1>3, FlagTypes
  <1>5. /\ Capped(t) \in Int /\ Capped(t) <= flags.fmax
        /\ t >= flags.tmin => Capped(t) >= flags.fmin
        /\ t >= flags.tmax => Capped(t) > flags.fmax - (flags.tmax - flags.tmin)
    BY CappedRange
  <1>6. /\ FanPWM(t) \in {0} \cup flags.fmin..flags.fmax
        /\ IF Cooldown(t) THEN FanPWM(t) >= flags.fmin ELSE FanPWM(t) = 0
        /\ t >= flags.tmax => FanPWM(t) > flags.fmax - (flags.tmax - flags.tmin)
    <2>1. CASE cooldown
      BY <1>5, <2>1 DEF FanPWM, Cooldown
    <2>2. CASE ~cooldown
      BY <1>5, <2>2 DEF FanPWM, Cooldown
    <2> QED
      BY <2>1, <2>2
  <1>7. FanTypeOK'
    <2>1. /\ fan' \in {0} \cup flags.fmin..flags.fmax
          /\ fanState' \in {"start", "cycle", "kickstart", "exit"}
      BY <1>2, <1>6
    <2> QED
      BY <1>2, <1>4, <1>6, <2>1 DEF FanTypeOK
  <1>8. Suits(nextPWM)'
    BY <1>2, <1>4, <1>6 DEF Suits
  <1>9. FanMemory'
    BY <1>2, <1>4, <1>8 DEF FanMemory
  <1> QED
    BY <1>7, <1>9 DEF FanIInv

LEMMA FanStep == FanIInv /\ [FanNext]_fanVars => FanIInv'
  <1> SUFFICES ASSUME FanIInv, [FanNext]_fanVars PROVE FanIInv'
    OBVIOUS
  <1>0. FanTypeOK
    BY DEF FanIInv
  <1> USE FanControlAssumption DEF FanIInv, FanTypeOK, FanMemory, Suits
  <1>1. CASE SanityCheck
    BY <1>0, <1>1, FlagTypes DEF SanityCheck
  <1>2. CASE Cycle
    BY <1>2, CycleStep
  <1>3. CASE KickstartEnds
    BY <1>3 DEF KickstartEnds
  <1>4. CASE DividesByZero \/ FanStops
    BY <1>4 DEF DividesByZero, FanStops
  <1>5. CASE FanRestarts
    BY <1>5 DEF FanRestarts
  <1>6. ASSUME NEW r \in Readings, TemperatureChanges(r) PROVE FanIInv'
    BY <1>6 DEF TemperatureChanges
  <1>7. CASE UNCHANGED fanVars
    BY <1>7 DEF fanVars
  <1> QED
    BY <1>1, <1>2, <1>3, <1>4, <1>5, <1>6, <1>7 DEF FanNext, Fan

\* For every choice of temperatures and fan values that passes the sanity check, the fan
\* runs after a cycle exactly while the Base is warm, and above tmax at the full value up to
\* what the integer division loses.
THEOREM FanRunsUntilCool == FanSpec => [](FanTypeOK /\ RunsUntilCool)
  <1>1. FanInit => FanIInv
    <2> SUFFICES ASSUME FanInit PROVE FanIInv
      OBVIOUS
    <2>1. cooldown \in BOOLEAN /\ warm \in BOOLEAN /\ warm = cooldown
      BY DEF FanInit
    <2>2. stops \in 0..MaxStops /\ measured \in Nat \cup {-1} /\ ~(measured >= 0)
      BY FanControlAssumption DEF FanInit
    <2>3. /\ flags \in Flags /\ reading \in Readings /\ fan = 0 /\ nextPWM = 0
          /\ fanState = "start" /\ measured = -1
      BY DEF FanInit
    <2> QED
      BY <2>1, <2>2, <2>3 DEF FanIInv, FanTypeOK, FanMemory
  <1>2. FanIInv => FanTypeOK /\ RunsUntilCool
    BY DEF FanIInv, FanMemory, Suits, RunsUntilCool
  <1> QED
    BY <1>1, <1>2, FanStep, PTL DEF FanSpec

(***************************************************************************)
(* GetBaseInfo, GetServiceStatus and the pool of Redis connections.        *)
(***************************************************************************)
BaseSpec == BaseInit /\ [][BaseNext]_baseVars

LEMMA ReadsTable ==
    /\ DOMAIN Reads = {"GetBaseInfo", "GetServiceStatus"}
    /\ Len(Reads["GetBaseInfo"]) = 10 /\ Len(Reads["GetServiceStatus"]) = 2
    /\ DOMAIN Reads["GetBaseInfo"] = 1..10 /\ DOMAIN Reads["GetServiceStatus"] = 1..2
    /\ Reads["GetBaseInfo"] = <<"prometheus", "tor", "onion", "redis", "prometheus", "prometheus",
                                "redis", "redis", "redis", "redis">>
    /\ Reads["GetServiceStatus"] = <<"redis", "tor">>
  BY DEF Reads

\* The kinds of reads; the address is read right after the setting of Tor.
LEMMA ReadKinds ==
    ASSUME NEW m \in DOMAIN Reads
    PROVE  /\ Len(Reads[m]) \in 1..10
           /\ \A n \in 1..Len(Reads[m]) :
                /\ Reads[m][n] \in {"prometheus", "tor", "onion", "redis"}
                /\ n < Len(Reads[m]) /\ Reads[m][n + 1] = "onion" => Reads[m][n] = "tor"
  <1>0. Len(Reads[m]) \in 1..10
    BY ReadsTable
  <1> SUFFICES ASSUME NEW n \in 1..Len(Reads[m])
               PROVE  /\ Reads[m][n] \in {"prometheus", "tor", "onion", "redis"}
                      /\ n < Len(Reads[m]) /\ Reads[m][n + 1] = "onion" => Reads[m][n] = "tor"
    BY <1>0
  <1>1. CASE m = "GetServiceStatus"
    <2>1. n \in {1, 2}
      BY <1>1, ReadsTable
    <2> QED
      BY <1>1, <2>1, ReadsTable
  <1>2. CASE m = "GetBaseInfo"
    <2>1. n \in {1, 2, 3, 4, 5, 6, 7, 8, 9, 10}
      BY <1>2, ReadsTable
    <2> QED
      BY <1>2, <2>1, ReadsTable
  <1> QED
    BY <1>1, <1>2, ReadsTable

\* A call in progress: what is wrong now has been noted; Tor was on when it was read, so a
\* missing address has been noted too.
InCall(r) ==
    at[r] > 0 =>
        /\ at[r] <= Len(Reads[rpc[r]]) /\ reply[r] = "none"
        /\ Wrong \subseteq reasons[r]
        /\ Reads[rpc[r]][at[r]] = "onion" /\ torRead[r] /\ ~onionKey => "onion" \in reasons[r]

\* The property for one reader.
Answered(r) ==
    /\ reply[r] = "REDIS_ERROR" => reasons[r] \cap {"redis", "onion", "pool"} # {}
    /\ reply[r] = "PROMETHEUS_ERROR" => "prometheus" \in reasons[r]

BaseIInv == BaseTypeOK /\ \A r \in Readers : InCall(r) /\ Answered(r)

LEMMA WrongType == Wrong \subseteq {"redis", "prometheus", "onion", "pool"}
  BY DEF Wrong

LEMMA WatchType ==
    ASSUME BaseTypeOK, Watch
    PROVE  reasons' \in [Readers -> SUBSET {"redis", "prometheus", "onion", "pool"}]
  <1>1. Wrong' \subseteq {"redis", "prometheus", "onion", "pool"}
    BY DEF Wrong
  <1> QED
    BY <1>1, WrongType DEF BaseTypeOK, Watch

\* The types of one reader's variables.
LEMMA ReaderTypes ==
    ASSUME BaseTypeOK, NEW r \in Readers
    PROVE  /\ taken \in Nat /\ at[r] \in 0..10 /\ rpc[r] \in DOMAIN Reads
           /\ torRead[r] \in BOOLEAN /\ Len(Reads[rpc[r]]) \in 1..10
  <1>1. rpc[r] \in DOMAIN Reads /\ torRead[r] \in BOOLEAN /\ at[r] \in 0..10
    BY DEF BaseTypeOK
  <1>2. taken \in Nat
    BY BaseInfoAssumption DEF BaseTypeOK
  <1> QED
    BY <1>1, <1>2, ReadKinds

\* A step of somebody else.
LEMMA Bystander ==
    ASSUME BaseIInv, Watch, NEW q \in Readers,
           at'[q] = at[q], rpc'[q] = rpc[q], torRead'[q] = torRead[q], reply'[q] = reply[q],
           onionKey => onionKey'
    PROVE  InCall(q)' /\ Answered(q)'
  <1>1. BaseTypeOK /\ InCall(q) /\ Answered(q) /\ at[q] \in 0..10
    BY ReaderTypes DEF BaseIInv
  <1>2. /\ reasons[q] \subseteq reasons'[q]
        /\ at[q] > 0 => Wrong' \subseteq reasons'[q]
    BY <1>1 DEF Watch
  <1> QED
    BY <1>1, <1>2 DEF InCall, Answered

\* A read that worked: the call goes on or answers.
LEMMA ReadWorked ==
    ASSUME BaseIInv, BaseTypeOK', Watch, NEW r \in Readers, at[r] > 0, Proceed(r), rpc' = rpc,
           Reads[rpc[r]][at[r]] = "tor" /\ torRead'[r] /\ ~onionKey' => "onion" \in Wrong'
    PROVE  InCall(r)' /\ Answered(r)'
  <1>1. BaseTypeOK /\ InCall(r)
    BY DEF BaseIInv
  <1>2. /\ at[r] \in 1..Len(Reads[rpc[r]]) /\ reply[r] = "none"
        /\ rpc[r] \in DOMAIN Reads /\ Len(Reads[rpc[r]]) \in 1..10
    BY <1>1, ReaderTypes DEF InCall
  <1>3. Wrong' \subseteq reasons'[r]
    BY <1>1 DEF Watch
  <1>4. CASE at[r] = Len(Reads[rpc[r]])
    <2>1. at'[r] = 0 /\ reply'[r] = "success"
      BY <1>1, <1>4 DEF Proceed, BaseTypeOK
    <2> QED
      BY <2>1 DEF InCall, Answered
  <1>5. CASE at[r] # Len(Reads[rpc[r]])
    <2>1. at'[r] = at[r] + 1 /\ reply'[r] = "none"
      BY <1>1, <1>2, <1>5 DEF Proceed, BaseTypeOK
    <2>2. at'[r] <= Len(Reads[rpc[r]]) /\ at[r] < Len(Reads[rpc[r]])
      BY <1>2, <1>5, <2>1
    <2>3. Reads[rpc[r]][at[r] + 1] = "onion" => Reads[rpc[r]][at[r]] = "tor"
      BY <1>2, <2>2, ReadKinds
    <2>4. InCall(r)'
      BY <1>3, <2>1, <2>2, <2>3 DEF InCall
    <2> QED
      BY <2>1, <2>4 DEF Answered
  <1> QED
    BY <1>4, <1>5

\* A read that failed, with a reason that is wrong now or has been noted.
LEMMA ReadFailed ==
    ASSUME BaseTypeOK, Watch, NEW r \in Readers, at[r] > 0,
           NEW code \in {"REDIS_ERROR", "PROMETHEUS_ERROR"}, FailRpc(r, code),
           code = "REDIS_ERROR" =>
             (reasons[r] \cup Wrong) \cap {"redis", "onion", "pool"} # {},
           code = "PROMETHEUS_ERROR" => "prometheus" \in Wrong
    PROVE  InCall(r)' /\ Answered(r)'
  <1>1. at'[r] = 0 /\ reply'[r] = code
    BY DEF FailRpc, BaseTypeOK
  <1>2. reasons[r] \cup Wrong \subseteq reasons'[r]
    BY DEF Watch
  <1> QED
    BY <1>1, <1>2 DEF InCall, Answered

LEMMA PrometheusStep ==
    ASSUME BaseIInv, NEW r \in Readers, ReadPrometheus(r)
    PROVE  BaseIInv'
  <1>1. /\ at[r] > 0 /\ Reads[rpc[r]][at[r]] = "prometheus" /\ Watch
        /\ IF promUp THEN Proceed(r) ELSE FailRpc(r, "PROMETHEUS_ERROR")
        /\ UNCHANGED <<taken, redisUp, promUp, torKey, onionKey, rpc, torRead, events>>
    BY DEF ReadPrometheus
  <1>2. BaseTypeOK /\ InCall(r)
    BY DEF BaseIInv
  <1>3. at[r] \in 1..Len(Reads[rpc[r]]) /\ Len(Reads[rpc[r]]) \in 1..10
    BY <1>1, <1>2, ReaderTypes DEF InCall
  <1>4. /\ \A q \in Readers : q # r => at'[q] = at[q] /\ reply'[q] = reply[q]
        /\ at' \in [Readers -> 0..10] /\ reply' \in [Readers -> Replies]
    <2>1. CASE at' = [at EXCEPT ![r] = 0]
               /\ \E c \in {"success", "PROMETHEUS_ERROR"} : reply' = [reply EXCEPT ![r] = c]
      BY <1>2, <2>1 DEF BaseTypeOK, Replies
    <2>2. CASE at' = [at EXCEPT ![r] = at[r] + 1] /\ reply' = reply /\ at[r] # Len(Reads[rpc[r]])
      <3>1. \A k \in 1..10 : \A n \in 1..k : n # k => n + 1 \in 0..10
        OBVIOUS
      <3> QED
        BY <1>2, <1>3, <2>2, <3>1 DEF BaseTypeOK
    <2> QED
      BY <1>1, <2>1, <2>2 DEF Proceed, FailRpc
  <1>5. BaseTypeOK'
    BY <1>1, <1>2, <1>4, WatchType DEF BaseTypeOK
  <1>6. ASSUME NEW q \in Readers, q # r PROVE InCall(q)' /\ Answered(q)'
    BY <1>1, <1>4, <1>6, Bystander
  <1>7. InCall(r)' /\ Answered(r)'
    <2>1. CASE promUp
      BY <1>1, <1>5, <2>1, ReadWorked
    <2>2. CASE ~promUp
      <3>1. "prometheus" \in Wrong
        BY <2>2 DEF Wrong
      <3> QED
        BY <1>1, <1>2, <2>2, <3>1, ReadFailed
    <2> QED
      BY <2>1, <2>2
  <1> QED
    BY <1>5, <1>6, <1>7 DEF BaseIInv

LEMMA RedisStep ==
    ASSUME BaseIInv, NEW r \in Readers, ReadRedis(r)
    PROVE  BaseIInv'
  <1> DEFINE kind == Reads[rpc[r]][at[r]]
  <1>1. /\ at[r] > 0 /\ kind # "prometheus" /\ Watch
        /\ UNCHANGED <<redisUp, promUp, torKey, onionKey, rpc, events>>
    BY DEF ReadRedis
  <1>2. /\ BaseTypeOK /\ InCall(r) /\ torRead[r] \in BOOLEAN /\ taken \in Nat
        /\ rpc[r] \in DOMAIN Reads
    BY ReaderTypes DEF BaseIInv
  <1>3. at[r] \in 1..Len(Reads[rpc[r]]) /\ Len(Reads[rpc[r]]) \in 1..10
    BY <1>1, <1>2, ReaderTypes DEF InCall
  <1>4. kind \in {"tor", "onion", "redis"}
    BY <1>1, <1>2, <1>3, ReadKinds
  <1>5. \/ Skipped(r) /\ Proceed(r) /\ UNCHANGED <<taken, torRead>>
        \/ /\ ~Skipped(r) /\ (taken = MaxActive \/ ~redisUp)
           /\ FailRpc(r, "REDIS_ERROR") /\ UNCHANGED <<taken, torRead>>
        \/ /\ ~Skipped(r) /\ taken < MaxActive /\ taken' = taken + 1
           /\ IF Missing(r) THEN FailRpc(r, "REDIS_ERROR") ELSE Proceed(r)
           /\ torRead' = IF kind = "tor" THEN [torRead EXCEPT ![r] = torKey] ELSE torRead
    BY DEF ReadRedis, GetConnection
  <1>6. /\ \A q \in Readers : q # r => at'[q] = at[q] /\ reply'[q] = reply[q]
        /\ at' \in [Readers -> 0..10] /\ reply' \in [Readers -> Replies]
    <2>1. CASE at' = [at EXCEPT ![r] = 0]
               /\ \E c \in {"success", "REDIS_ERROR"} : reply' = [reply EXCEPT ![r] = c]
      BY <1>2, <2>1 DEF BaseTypeOK, Replies
    <2>2. CASE at' = [at EXCEPT ![r] = at[r] + 1] /\ reply' = reply /\ at[r] # Len(Reads[rpc[r]])
      <3>1. \A k \in 1..10 : \A n \in 1..k : n # k => n + 1 \in 0..10
        OBVIOUS
      <3> QED
        BY <1>2, <1>3, <2>2, <3>1 DEF BaseTypeOK
    <2>3. Proceed(r) \/ FailRpc(r, "REDIS_ERROR")
      BY <1>5
    <2> QED
      BY <2>1, <2>2, <2>3 DEF Proceed, FailRpc
  <1>7. /\ torRead' \in [Readers -> BOOLEAN] /\ taken' \in 0..MaxActive
        /\ \A q \in Readers : q # r => torRead'[q] = torRead[q]
        /\ kind # "tor" => torRead'[r] = torRead[r]
    <2>1. taken' \in 0..MaxActive
      BY <1>2, <1>5, BaseInfoAssumption DEF BaseTypeOK
    <2>2. torRead' = torRead \/ (kind = "tor" /\ torRead' = [torRead EXCEPT ![r] = torKey])
      BY <1>5
    <2> QED
      BY <1>2, <2>1, <2>2 DEF BaseTypeOK
  <1>8. BaseTypeOK'
    BY <1>1, <1>2, <1>6, <1>7, WatchType DEF BaseTypeOK
  <1>9. ASSUME NEW q \in Readers, q # r PROVE InCall(q)' /\ Answered(q)'
    BY <1>1, <1>6, <1>7, <1>9, Bystander
  <1>10. InCall(r)' /\ Answered(r)'
    <2>1. CASE Skipped(r) /\ Proceed(r) /\ UNCHANGED <<taken, torRead>>
      <3>1. kind = "onion" /\ ~torRead[r]
        BY <2>1 DEF Skipped
      <3> QED
        BY <1>1, <1>8, <2>1, <3>1, ReadWorked
    <2>2. CASE ~Skipped(r) /\ (taken = MaxActive \/ ~redisUp) /\ FailRpc(r, "REDIS_ERROR")
      <3>1. Wrong \cap {"redis", "pool"} # {}
        BY <2>2 DEF Wrong
      <3>2. (reasons[r] \cup Wrong) \cap {"redis", "onion", "pool"} # {}
        BY <3>1
      <3> QED
        BY <1>1, <1>2, <2>2, <3>2, ReadFailed
    <2>3. CASE ~Skipped(r) /\ Missing(r) /\ FailRpc(r, "REDIS_ERROR")
      <3>1. kind = "onion" /\ torRead[r] /\ ~onionKey
        BY <2>3 DEF Skipped, Missing
      <3>2. (reasons[r] \cup Wrong) \cap {"redis", "onion", "pool"} # {}
        BY <1>1, <1>2, <3>1 DEF InCall
      <3> QED
        BY <1>1, <1>2, <2>3, <3>2, ReadFailed
    <2>4. CASE /\ ~Skipped(r) /\ Proceed(r) /\ taken' = taken + 1
               /\ torRead' = IF kind = "tor" THEN [torRead EXCEPT ![r] = torKey] ELSE torRead
      <3>4. kind = "tor" /\ torRead'[r] /\ ~onionKey' => "onion" \in Wrong'
        <4> SUFFICES ASSUME kind = "tor", torRead'[r], ~onionKey' PROVE "onion" \in Wrong'
          OBVIOUS
        <4>1. torRead'[r] = torKey /\ torKey' = torKey
          BY <1>1, <1>2, <2>4 DEF BaseTypeOK
        <4> QED
          BY <4>1 DEF Wrong
      <3> QED
        BY <1>1, <1>8, <2>4, <3>4, ReadWorked
    <2> QED
      BY <1>5, <2>1, <2>2, <2>3, <2>4
  <1> QED
    BY <1>8, <1>9, <1>10 DEF BaseIInv

LEMMA CallStep ==
    ASSUME BaseIInv, NEW r \in Readers, NEW m \in DOMAIN Reads, CallInfo(r, m)
    PROVE  BaseIInv'
  <1>1. /\ at[r] = 0 /\ rpc' = [rpc EXCEPT ![r] = m] /\ at' = [at EXCEPT ![r] = 1]
        /\ torRead' = [torRead EXCEPT ![r] = FALSE] /\ reply' = [reply EXCEPT ![r] = "none"]
        /\ Watch
        /\ UNCHANGED <<taken, redisUp, promUp, torKey, onionKey, events>>
    BY DEF CallInfo
  <1>2. BaseTypeOK
    BY DEF BaseIInv
  <1>3. BaseTypeOK'
    BY <1>1, <1>2, WatchType DEF BaseTypeOK, Replies
  <1>4. ASSUME NEW q \in Readers, q # r PROVE InCall(q)' /\ Answered(q)'
    <2>1. /\ at'[q] = at[q] /\ rpc'[q] = rpc[q] /\ torRead'[q] = torRead[q]
          /\ reply'[q] = reply[q]
      BY <1>1, <1>2, <1>4 DEF BaseTypeOK
    <2> QED
      BY <1>1, <2>1, Bystander
  <1>5. InCall(r)' /\ Answered(r)'
    <2>1. /\ at'[r] = 1 /\ rpc'[r] = m /\ torRead'[r] = FALSE /\ reply'[r] = "none"
      BY <1>1, <1>2 DEF BaseTypeOK
    <2>2. Wrong' = Wrong /\ reasons'[r] = Wrong
      BY <1>1, <2>1 DEF Wrong, Watch
    <2>4. 1 <= Len(Reads[m])
      <3>1. \A n \in 1..10 : 1 <= n
        OBVIOUS
      <3> QED
        BY <3>1, ReadKinds
    <2>5. InCall(r)'
      BY <2>1, <2>2, <2>4 DEF InCall
    <2> QED
      BY <2>1, <2>5 DEF Answered
  <1> QED
    BY <1>3, <1>4, <1>5 DEF BaseIInv

LEMMA BaseStep == BaseIInv /\ [BaseNext]_baseVars => BaseIInv'
  <1> SUFFICES ASSUME BaseIInv, [BaseNext]_baseVars PROVE BaseIInv'
    OBVIOUS
  <1>1. CASE Surroundings
    <2>1. /\ UNCHANGED <<taken, rpc, at, torRead, reply>> /\ Watch
          /\ events' \in 0..MaxEvents
      BY <1>1, BaseInfoAssumption DEF Surroundings, BaseIInv, BaseTypeOK
    <2>2. /\ redisUp' \in BOOLEAN /\ promUp' \in BOOLEAN /\ torKey' \in BOOLEAN
          /\ onionKey' \in BOOLEAN /\ (onionKey => onionKey')
      <3> USE DEF Surroundings, BaseIInv, BaseTypeOK
      <3>1. CASE redisUp' = ~redisUp /\ UNCHANGED <<promUp, torKey, onionKey>>
        BY <3>1
      <3>2. CASE promUp' = ~promUp /\ UNCHANGED <<redisUp, torKey, onionKey>>
        BY <3>2
      <3>3. CASE torKey' = ~torKey /\ UNCHANGED <<redisUp, promUp, onionKey>>
        BY <3>3
      <3>4. CASE onionKey' = TRUE /\ UNCHANGED <<redisUp, promUp, torKey>>
        BY <3>4
      <3> QED
        BY <1>1, <3>1, <3>2, <3>3, <3>4
    <2>3. BaseTypeOK'
      BY <2>1, <2>2, WatchType DEF BaseIInv, BaseTypeOK
    <2>4. ASSUME NEW q \in Readers PROVE InCall(q)' /\ Answered(q)'
      BY <2>1, <2>2, Bystander
    <2> QED
      BY <2>3, <2>4 DEF BaseIInv
  <1>2. ASSUME NEW r \in Readers, ReadPrometheus(r) PROVE BaseIInv'
    BY <1>2, PrometheusStep
  <1>3. ASSUME NEW r \in Readers, ReadRedis(r) PROVE BaseIInv'
    BY <1>3, RedisStep
  <1>4. ASSUME NEW r \in Readers, NEW m \in DOMAIN Reads, CallInfo(r, m) PROVE BaseIInv'
    BY <1>4, CallStep
  <1>5. CASE UNCHANGED baseVars
    BY <1>5 DEF baseVars, BaseIInv, BaseTypeOK, InCall, Answered, Wrong
  <1> QED
    BY <1>1, <1>2, <1>3, <1>4, <1>5 DEF BaseNext

LEMMA BaseStart == BaseInit => BaseIInv
  <1> SUFFICES ASSUME BaseInit PROVE BaseIInv
    OBVIOUS
  <1>1. redisUp \in BOOLEAN /\ promUp \in BOOLEAN /\ torKey \in BOOLEAN /\ onionKey \in BOOLEAN
    BY DEF BaseInit
  <1>2. taken \in 0..MaxActive /\ events \in 0..MaxEvents
    BY BaseInfoAssumption DEF BaseInit
  <1>3. /\ rpc \in [Readers -> DOMAIN Reads] /\ at \in [Readers -> 0..10]
        /\ torRead \in [Readers -> BOOLEAN] /\ reply \in [Readers -> Replies]
        /\ reasons \in [Readers -> SUBSET {"redis", "prometheus", "onion", "pool"}]
    BY ReadsTable DEF BaseInit, Replies
  <1>4. \A r \in Readers : ~(at[r] > 0) /\ reply[r] = "none"
    BY DEF BaseInit
  <1> QED
    BY <1>1, <1>2, <1>3, <1>4 DEF BaseIInv, BaseTypeOK, InCall, Answered

\* Whatever comes and goes around the RPCs, and however many of them are in progress, an
\* error has its reason within the call.
THEOREM ErrorsAreExplained == BaseSpec => [](BaseTypeOK /\ ErrorIsExplained)
  <1>2. BaseIInv => BaseTypeOK /\ ErrorIsExplained
    BY DEF BaseIInv, Answered, ErrorIsExplained
  <1> QED
    BY <1>2, BaseStart, BaseStep, PTL DEF BaseSpec

(***************************************************************************)
(* bbbconfgen.                                                             *)
(***************************************************************************)
GenSpec == GenInit /\ [][GenNext]_genVars

\* The line of the file at which the n-th line of the template begins.
Place(n) ==
    IF n = 1 THEN 0
    ELSE IF n = 2 THEN Len(PromisedLine(1))
    ELSE IF n = 3 THEN Len(PromisedLine(1)) + Len(PromisedLine(2))
    ELSE Len(PromisedLine(1)) + Len(PromisedLine(2)) + Len(PromisedLine(3))

Dropped(n) == \E i \in DOMAIN template[n] : Documented(template[n][i]) = "drop"
Written(n) == [i \in DOMAIN template[n] |-> Documented(template[n][i])]

\* The template has three lines of placeholders with documented options.
LEMMA TemplateShape ==
    ASSUME template \in Templates
    PROVE  /\ Len(template) = 3
           /\ \A n \in 1..3 :
                /\ template[n] \in Seq([key : KeyNames, option : Options \cup FlagOptions \cup {"#output:"}])
                /\ \A i \in DOMAIN template[n] : /\ template[n][i].key \in KeyNames
                                                /\ template[n][i].option # "#check"
  <1> DEFINE H == [key : KeyNames, option : Options \cup FlagOptions \cup {"#output:"}]
  <1>1. PICK first \in {OutputLine, <<>>}, o \in Options, p \in FlagOptions :
          template = <<first, <<[key |-> "key", option |-> o], [key |-> "flag", option |-> p]>>, <<>>>>
    BY DEF Templates
  <1>2. /\ [key |-> "key", option |-> "#output:"] \in H
        /\ [key |-> "key", option |-> o] \in H /\ [key |-> "flag", option |-> p] \in H
    BY DEF KeyNames
  <1>3. /\ Len(template) = 3 /\ template[1] = first /\ template[3] = <<>>
        /\ template[2] = <<[key |-> "key", option |-> o], [key |-> "flag", option |-> p]>>
    BY <1>1
  <1>4. \A h \in H : h.key \in KeyNames /\ h.option # "#check"
    BY ConfgenAssumption
  <1> HIDE DEF H
  <1>5. <<>> \in Seq(H) /\ OutputLine \in Seq(H) /\ template[2] \in Seq(H)
    BY <1>2, <1>3 DEF OutputLine
  <1>6. \A n \in 1..3 : template[n] \in Seq(H)
    <2>1. template[1] \in Seq(H) /\ template[3] \in Seq(H)
      BY <1>1, <1>3, <1>5
    <2>2. \A n \in 1..3 : n = 1 \/ n = 2 \/ n = 3
      OBVIOUS
    <2> QED
      BY <1>5, <2>1, <2>2
  <1>7. \A n \in 1..3 : \A i \in DOMAIN template[n] : template[n][i] \in H
    BY <1>6
  <1> QED
    BY <1>3, <1>4, <1>6, <1>7 DEF H

\* What the code makes of a placeholder is what the help text says, if Redis answers.
LEMMA Conforms ==
    ASSUME keys \in [KeyNames -> Values], server, NEW h, h.key \in KeyNames, h.option # "#check"
    PROVE  /\ DropsLine(h) <=> Documented(h) = "drop"
           /\ ~DropsLine(h) => Replacement(h) = Documented(h)
  <1> DEFINE v == keys[h.key]
  <1>1. v \in Values /\ Get(h.key) = v
    BY DEF Get
  <1>2. Documented(h) = CASE h.option = "#output:" -> "drop"
      [] h.option = "#rmLineTrue" -> IF v = "1" THEN "drop" ELSE ""
      [] h.option = "#rmLineFalse" -> IF v \in {"", "0"} THEN "drop" ELSE ""
      [] OTHER -> IF v # "" THEN v
                  ELSE CASE h.option = "#rm" -> "" [] h.option = "#rmLine" -> "drop"
                         [] h.option = "#default:" -> "default" [] OTHER -> "placeholder"
    BY DEF Documented
  <1> HIDE DEF v
  <1>3. CASE h.option \in {"#output:", "#rmLineTrue", "#rmLineFalse"}
    BY <1>1, <1>2, <1>3 DEF DropsLine, Replacement, Values
  <1>4. CASE h.option \notin {"#output:", "#rmLineTrue", "#rmLineFalse"}
    BY <1>1, <1>2, <1>4 DEF DropsLine, Replacement, Values
  <1> QED
    BY <1>3, <1>4

LEMMA PieceTypes ==
    ASSUME keys \in [KeyNames -> Values], NEW h, h.key \in KeyNames
    PROVE  Replacement(h) \in Pieces /\ Documented(h) \in Pieces \cup {"drop"}
  <1> DEFINE v == keys[h.key]
  <1>1. v \in Values /\ Get(h.key) \in Values
    BY DEF Get, Values
  <1>2. Replacement(h) \in Pieces
    BY <1>1 DEF Replacement, Pieces, Values
  <1>3. Documented(h) \in Pieces \cup {"drop"}
    BY <1>1 DEF Documented, Pieces, Values
  <1> QED
    BY <1>2, <1>3

\* A function on the first n numbers is a sequence.
LEMMA SeqOfFunction ==
    ASSUME NEW S, NEW n \in Nat, NEW f \in [1..n -> S]
    PROVE  f \in Seq(S) /\ Len(f) = n
  OBVIOUS

LEMMA LineTypes ==
    ASSUME keys \in [KeyNames -> Values], template \in Templates, NEW n \in 1..3
    PROVE  /\ [i \in DOMAIN template[n] |-> Replacement(template[n][i])] \in Seq(Pieces)
           /\ ~Dropped(n) => Written(n) \in Seq(Pieces)
  <1> DEFINE l == template[n]
  <1>1. PICK k \in Nat : DOMAIN l = 1..k
    BY TemplateShape
  <1>2. \A i \in DOMAIN l : l[i].key \in KeyNames
    BY TemplateShape
  <1>3. [i \in DOMAIN l |-> Replacement(l[i])] \in [1..k -> Pieces]
    BY <1>1, <1>2, PieceTypes
  <1>4. ASSUME ~Dropped(n) PROVE Written(n) \in [1..k -> Pieces]
    <2>1. \A i \in DOMAIN l : Documented(l[i]) \in Pieces
      BY <1>2, <1>4, PieceTypes DEF Dropped
    <2> QED
      BY <1>1, <2>1 DEF Written
  <1> QED
    BY <1>3, <1>4, SeqOfFunction

\* Where the lines are in the file promised.
LEMMA PromisedLines ==
    ASSUME keys \in [KeyNames -> Values], template \in Templates
    PROVE  /\ Promised \in Seq(Seq(Pieces)) /\ Len(Promised) = Place(4)
           /\ Place(1) = 0 /\ \A n \in 1..4 : Place(n) \in 0..(n - 1)
           /\ \A n \in 1..3 :
                IF Dropped(n) THEN Place(n + 1) = Place(n)
                ELSE /\ Place(n + 1) = Place(n) + 1 /\ Place(n) + 1 <= Len(Promised)
                     /\ Promised[Place(n) + 1] = Written(n)
  <1> DEFINE S == Seq(Pieces)
             a == PromisedLine(1)
             b == PromisedLine(2)
             c == PromisedLine(3)
  <1>1. ASSUME NEW n \in 1..3
        PROVE  /\ PromisedLine(n) \in Seq(S) /\ Len(PromisedLine(n)) \in {0, 1}
               /\ Dropped(n) => Len(PromisedLine(n)) = 0
               /\ ~Dropped(n) => Len(PromisedLine(n)) = 1 /\ PromisedLine(n)[1] = Written(n)
    <2>1. CASE Dropped(n)
      <3>1. PromisedLine(n) = <<>>
        BY <2>1 DEF Dropped, PromisedLine
      <3> QED
        BY <2>1, <3>1
    <2>2. CASE ~Dropped(n)
      <3>1. PromisedLine(n) = <<Written(n)>>
        BY <2>2 DEF Dropped, PromisedLine, Written
      <3>2. Written(n) \in S
        BY <2>2, LineTypes
      <3> QED
        BY <2>2, <3>1, <3>2
    <2> QED
      BY <2>1, <2>2
  <1>2. /\ a \in Seq(S) /\ Len(a) \in {0, 1} /\ b \in Seq(S) /\ Len(b) \in {0, 1}
        /\ c \in Seq(S) /\ Len(c) \in {0, 1}
        /\ Dropped(1) => Len(a) = 0
        /\ ~Dropped(1) => Len(a) = 1 /\ a[1] = Written(1)
        /\ Dropped(2) => Len(b) = 0
        /\ ~Dropped(2) => Len(b) = 1 /\ b[1] = Written(2)
        /\ Dropped(3) => Len(c) = 0
        /\ ~Dropped(3) => Len(c) = 1 /\ c[1] = Written(3)
    <2>1. 1 \in 1..3 /\ 2 \in 1..3 /\ 3 \in 1..3
      OBVIOUS
    <2> QED
      BY <1>1, <2>1
  <1>3. /\ Place(1) = 0 /\ Place(2) = Len(a) /\ Place(3) = Len(a) + Len(b)
        /\ Place(4) = Len(a) + Len(b) + Len(c) /\ Promised = (a \o b) \o c
    BY DEF Place, Promised
  <1> HIDE DEF S, a, b, c
  <1>4. /\ a \o b \in Seq(S) /\ Len(a \o b) = Len(a) + Len(b)
        /\ \A i \in 1..Len(a) + Len(b) : (a \o b)[i] = IF i <= Len(a) THEN a[i] ELSE b[i - Len(a)]
    BY <1>2, ConcatProperties
  <1>5. /\ Promised \in Seq(S) /\ Len(Promised) = Len(a \o b) + Len(c)
        /\ \A i \in 1..Len(a \o b) + Len(c) :
             Promised[i] = IF i <= Len(a \o b) THEN (a \o b)[i] ELSE c[i - Len(a \o b)]
    BY <1>2, <1>3, <1>4, ConcatProperties
  <1>6. /\ Len(Promised) = Len(a) + Len(b) + Len(c)
        /\ Len(a) = 1 => Promised[1] = a[1]
        /\ Len(b) = 1 => Promised[Len(a) + 1] = b[1]
        /\ Len(c) = 1 => Promised[Len(a) + Len(b) + 1] = c[1]
    BY <1>2, <1>4, <1>5
  <1>7. \A n \in 1..4 : Place(n) \in 0..(n - 1)
    <2>1. \A n \in 1..4 : n = 1 \/ n = 2 \/ n = 3 \/ n = 4
      OBVIOUS
    <2>2. Place(1) \in 0..0 /\ Place(2) \in 0..1 /\ Place(3) \in 0..2 /\ Place(4) \in 0..3
      BY <1>2, <1>3
    <2> QED
      BY <2>1, <2>2
  <1>8. ASSUME NEW n \in 1..3
        PROVE  IF Dropped(n) THEN Place(n + 1) = Place(n)
               ELSE /\ Place(n + 1) = Place(n) + 1 /\ Place(n) + 1 <= Len(Promised)
                    /\ Promised[Place(n) + 1] = Written(n)
    <2>1. CASE n = 1
      BY <1>2, <1>3, <1>6, <2>1
    <2>2. CASE n = 2
      <3>0. /\ Dropped(2) => Place(3) = Place(2)
            /\ ~Dropped(2) => Place(3) = Place(2) + 1 /\ Place(2) + 1 <= Len(Promised)
        <4>1. CASE Dropped(2)
          BY <1>2, <1>3, <4>1
        <4>2. CASE ~Dropped(2)
          <5>1. \A x \in {0, 1}, z \in {0, 1} : x + 1 <= x + 1 + z
            OBVIOUS
          <5>2. Len(Promised) = Len(a) + 1 + Len(c) /\ Place(3) = Len(a) + 1
            BY <1>2, <1>3, <1>6, <4>2, Zenon
          <5> QED
            BY <1>2, <1>3, <4>2, <5>1, <5>2, Zenon
        <4> QED
          BY <4>1, <4>2
      <3>1. /\ Dropped(2) => Place(3) = Place(2)
            /\ ~Dropped(2) => /\ Place(3) = Place(2) + 1 /\ Place(2) + 1 <= Len(Promised)
                              /\ Promised[Place(2) + 1] = Written(2)
        BY <1>2, <1>3, <1>6, <3>0, Zenon
      <3>2. n + 1 = 3
        BY <2>2
      <3> QED
        BY <2>2, <3>1, <3>2
    <2>3. CASE n = 3
      <3>0. /\ Dropped(3) => Place(4) = Place(3)
            /\ ~Dropped(3) => Place(4) = Place(3) + 1 /\ Place(3) + 1 <= Len(Promised)
        <4>1. CASE Dropped(3)
          BY <1>2, <1>3, <4>1
        <4>2. CASE ~Dropped(3)
          <5>1. \A x \in {0, 1}, y \in {0, 1} : x + y + 1 <= x + y + 1
            OBVIOUS
          <5>2. Len(Promised) = Len(a) + Len(b) + 1 /\ Place(4) = Len(a) + Len(b) + 1
            BY <1>2, <1>3, <1>6, <4>2, Zenon
          <5> QED
            BY <1>2, <1>3, <4>2, <5>1, <5>2, Zenon
        <4> QED
          BY <4>1, <4>2
      <3>1. /\ Dropped(3) => Place(4) = Place(3)
            /\ ~Dropped(3) => /\ Place(4) = Place(3) + 1 /\ Place(3) + 1 <= Len(Promised)
                              /\ Promised[Place(3) + 1] = Written(3)
        BY <1>2, <1>3, <1>6, <3>0, Zenon
      <3>2. n + 1 = 4
        BY <2>3
      <3> QED
        BY <2>3, <3>1, <3>2
    <2> QED
      BY <2>1, <2>2, <2>3
  <1> QED
    BY <1>3, <1>5, <1>6, <1>7, <1>8 DEF S

\* Writing a line: it is there afterwards, the others are as before, and what lies between
\* the old end of the file and the line is a hole.
LEMMA WriteAtLine ==
    ASSUME NEW f \in Seq(Seq(Pieces)), NEW i \in Nat, NEW l \in Seq(Pieces)
    PROVE  /\ WriteAt(f, i, l) \in Seq(Seq(Pieces))
           /\ Len(WriteAt(f, i, l)) = IF Len(f) > i THEN Len(f) ELSE i + 1
           /\ \A j \in 1..Len(WriteAt(f, i, l)) :
                WriteAt(f, i, l)[j] = IF j = i + 1 THEN l ELSE IF j <= Len(f) THEN f[j] ELSE Hole
  <1> DEFINE n == IF Len(f) > i THEN Len(f) ELSE i + 1
  <1>1. n \in Nat /\ Hole \in Seq(Pieces)
    <2>1. n \in Nat
      OBVIOUS
    <2>2. "nul" \in Pieces
      BY DEF Pieces
    <2> QED
      BY <2>1, <2>2 DEF Hole
  <1>2. WriteAt(f, i, l) = [j \in 1..n |-> IF j = i + 1 THEN l ELSE IF j <= Len(f) THEN f[j] ELSE Hole]
    BY DEF WriteAt
  <1> HIDE DEF n
  <1>3. \A j \in 1..n : (IF j = i + 1 THEN l ELSE IF j <= Len(f) THEN f[j] ELSE Hole) \in Seq(Pieces)
    <2> SUFFICES ASSUME NEW j \in 1..n, j <= Len(f) PROVE f[j] \in Seq(Pieces)
      BY <1>1
    <2>1. j \in 1..Len(f)
      BY <1>1
    <2> QED
      BY <2>1, ElementOfSeq
  <1>4. WriteAt(f, i, l) \in [1..n -> Seq(Pieces)]
    BY <1>2, <1>3
  <1>5. WriteAt(f, i, l) \in Seq(Seq(Pieces)) /\ Len(WriteAt(f, i, l)) = n
    BY <1>1, <1>4, SeqOfFunction
  <1>6. \A j \in 1..n :
          WriteAt(f, i, l)[j] = IF j = i + 1 THEN l ELSE IF j <= Len(f) THEN f[j] ELSE Hole
    BY <1>2
  <1> QED
    BY <1>5, <1>6 DEF n

\* The process has emptied the file and did not fail since.
Opened(p) == step[p] = "parse" \/ (step[p] = "done" /\ exit[p] = 0)

\* The file has only lines that are promised, at their places.
Content == Len(file) <= Len(Promised) /\ \A i \in DOMAIN file : file[i] \in {Hole, Promised[i]}

\* The lines the process has written are there.
Prefix(p) == \A i \in 1..offset[p] : i <= Len(file) /\ file[i] = Promised[i]

Positions ==
    /\ \A p \in Processes : step[p] \in {"connect", "template", "output"} => line[p] = 1 /\ offset[p] = 0
    /\ \A p \in Processes : offset[p] < line[p]
    /\ \A p \in Processes : step[p] = "done" /\ exit[p] = 0 => line[p] = 4
    /\ Begun = {} => file = Old

\* While Redis does not change, every process is at the place in the file that belongs to its
\* line of the template.  The process that emptied the file last has lost none of its lines.
Steady ==
    /\ \A p \in Processes : step[p] \in {"template", "output", "parse"} => server
    /\ \A p \in Processes : offset[p] = Place(line[p])
    /\ file = Old \/ Content
    /\ (\E p \in Processes : Opened(p)) => Content /\ \E q \in Begun : Prefix(q)

GenIInv == GenTypeOK /\ Positions /\ (~disturbed => Steady)

LEMMA SamePromise ==
    ASSUME UNCHANGED <<keys, template>>
    PROVE  /\ Promised' = Promised
           /\ \A p \in Processes : line'[p] = line[p] => Place(line[p])' = Place(line[p])
           /\ \A p \in Processes, n \in 1..4 : line'[p] = n => Place(line[p])' = Place(n)
  <1>1. /\ PromisedLine(1)' = PromisedLine(1) /\ PromisedLine(2)' = PromisedLine(2)
        /\ PromisedLine(3)' = PromisedLine(3)
    BY DEF PromisedLine, Documented
  <1>2. Promised' = Promised
    BY <1>1 DEF Promised
  <1>3. ASSUME NEW p \in Processes, NEW n \in 1..4, line'[p] = n PROVE Place(line[p])' = Place(n)
    BY <1>1, <1>3 DEF Place
  <1>4. ASSUME NEW p \in Processes, line'[p] = line[p] PROVE Place(line[p])' = Place(line[p])
    BY <1>1, <1>4 DEF Place
  <1> QED
    BY <1>2, <1>3, <1>4

\* A step that neither moves a process in the template nor writes.
LEMMA GenQuiet ==
    ASSUME GenIInv, GenTypeOK', UNCHANGED <<keys, template, server, disturbed, line, offset, file>>,
           \A p \in Processes : step'[p] \in {"connect", "template", "output"}
                                => step[p] \in {"connect", "template", "output"},
           \A p \in Processes : step'[p] \in {"template", "output", "parse"}
                                => server \/ step[p] \in {"template", "output", "parse"},
           \A p \in Processes : Opened(p)' => Opened(p),
           \A p \in Processes : step'[p] = "done" /\ exit'[p] = 0 => line[p] = 4,
           \A p \in Processes : step'[p] = "connect" => step[p] = "connect"
    PROVE  GenIInv'
  <1>1. Begun \subseteq Begun'
    BY DEF Begun
  <1>2. Positions'
    BY <1>1 DEF GenIInv, Positions
  <1>3. ASSUME ~disturbed' PROVE Steady'
    <2>1. Steady
      BY <1>3 DEF GenIInv
    <2>2. /\ Promised' = Promised
          /\ \A p \in Processes : line'[p] = line[p] => Place(line[p])' = Place(line[p])
      BY SamePromise
    <2>3. Content' <=> Content
      BY <2>2 DEF Content
    <2>4. \A p \in Processes : Prefix(p)' <=> Prefix(p)
      BY <2>2 DEF Prefix
    <2>6. \A p \in Processes : offset'[p] = Place(line[p])'
      BY <2>1, <2>2 DEF Steady
    <2>7. \A p \in Processes : step'[p] \in {"template", "output", "parse"} => server'
      BY <2>1 DEF Steady
    <2>8. (\E p \in Processes : Opened(p)') => Content' /\ \E q \in Begun' : Prefix(q)'
      BY <1>1, <2>1, <2>3, <2>4 DEF Steady, Begun
    <2>9. file' = Old \/ Content'
      BY <2>1, <2>3 DEF Steady
    <2> QED
      BY <2>6, <2>7, <2>8, <2>9 DEF Steady
  <1> QED
    BY <1>2, <1>3 DEF GenIInv

LEMMA GenTypeStep ==
    ASSUME GenIInv, [GenNext]_genVars
    PROVE  GenTypeOK'
  <1> USE DEF GenIInv, GenTypeOK
  <1>1. ASSUME NEW p \in Processes, ConnectRedis(p) PROVE GenTypeOK'
    BY <1>1 DEF ConnectRedis, Exit, surroundings
  <1>2. ASSUME NEW p \in Processes, OpenTemplateFile(p) PROVE GenTypeOK'
    BY <1>2 DEF OpenTemplateFile, surroundings
  <1>3. ASSUME NEW p \in Processes, OpenOutputFile(p) PROVE GenTypeOK'
    <2>1. file' = file \/ file' = <<>>
      BY <1>3 DEF OpenOutputFile
    <2>2. <<>> \in Seq(Seq(Pieces))
      OBVIOUS
    <2>3. file' \in Seq(Seq(Pieces))
      BY <2>1, <2>2
    <2>4. /\ step' = [step EXCEPT ![p] = "parse"] \/ step' = [step EXCEPT ![p] = "done"]
          /\ exit' = exit \/ exit' = [exit EXCEPT ![p] = 1]
          /\ UNCHANGED <<surroundings, line, offset>>
      BY <1>3 DEF OpenOutputFile, Exit
    <2>5. /\ step' \in [Processes -> {"connect", "template", "output", "parse", "done"}]
          /\ exit' \in [Processes -> 0..2]
      BY <2>4
    <2> QED
      BY <2>3, <2>4, <2>5 DEF surroundings
  <1>4. ASSUME NEW p \in Processes, ParseLine(p) PROVE GenTypeOK'
    <2> DEFINE l == template[line[p]]
               w == [i \in DOMAIN l |-> Replacement(l[i])]
    <2>0. Len(template) = 3 /\ line[p] <= Len(template)
      BY <1>4, TemplateShape DEF ParseLine
    <2>1. line[p] \in 1..3 /\ offset[p] \in 0..2 /\ offset[p] \in Nat
      BY <2>0 DEF Positions
    <2>2. w \in Seq(Pieces)
      BY <2>1, LineTypes
    <2>3. WriteAt(file, offset[p], w) \in Seq(Seq(Pieces))
      <3> HIDE DEF w
      <3>1. file \in Seq(Seq(Pieces))
        OBVIOUS
      <3> QED
        BY <2>1, <2>2, <3>1, WriteAtLine
    <2>4. file' = file \/ file' = WriteAt(file, offset[p], w)
      BY <1>4 DEF ParseLine
    <2> HIDE DEF w, l
    <2>5. file' \in Seq(Seq(Pieces))
      BY <2>3, <2>4
    <2>6. /\ step' = step \/ step' = [step EXCEPT ![p] = "done"]
          /\ exit' = exit \/ exit' = [exit EXCEPT ![p] = 2]
          /\ line' = line \/ line' = [line EXCEPT ![p] = @ + 1]
          /\ offset' = offset \/ offset' = [offset EXCEPT ![p] = @ + 1]
          /\ UNCHANGED surroundings
      BY <1>4 DEF ParseLine, Exit
    <2>7. line' \in [Processes -> 1..4] /\ offset' \in [Processes -> 0..3]
      <3>1. line[p] + 1 \in 1..4 /\ offset[p] + 1 \in 0..3
        BY <2>1
      <3>2. line \in [Processes -> 1..4] /\ offset \in [Processes -> 0..3]
        OBVIOUS
      <3>3. line' = line \/ line' = [line EXCEPT ![p] = line[p] + 1]
        BY <2>6
      <3>4. offset' = offset \/ offset' = [offset EXCEPT ![p] = offset[p] + 1]
        BY <2>6
      <3>5. line' \in [Processes -> 1..4]
        BY <3>1, <3>2, <3>3, Zenon
      <3>6. offset' \in [Processes -> 0..3]
        BY <3>1, <3>2, <3>4, Zenon
      <3> QED
        BY <3>5, <3>6
    <2>8. /\ step' \in [Processes -> {"connect", "template", "output", "parse", "done"}]
          /\ exit' \in [Processes -> 0..2]
      BY <2>6
    <2> QED
      BY <2>5, <2>6, <2>7, <2>8 DEF surroundings
  <1>5. ASSUME NEW p \in Processes, TemplateEnds(p) PROVE GenTypeOK'
    BY <1>5 DEF TemplateEnds, Exit, surroundings
  <1>6. ASSUME NEW p \in Processes, ProcessFails(p) PROVE GenTypeOK'
    BY <1>6, ConfgenAssumption DEF ProcessFails, Exit, Incident
  <1>7. ASSUME RedisChanges PROVE GenTypeOK'
    <2>1. keys' \in [KeyNames -> Values] /\ server' \in BOOLEAN /\ auth' \in BOOLEAN
      <3>1. "1" \in Values
        BY DEF Values
      <3> QED
        BY <1>7, <3>1, Zenon DEF RedisChanges
    <2>2. incidents' \in 0..MaxIncidents
      BY <1>7, ConfgenAssumption DEF RedisChanges, Incident
    <2>3. disturbed' \in BOOLEAN
      BY <1>7 DEF RedisChanges
    <2> QED
      BY <1>7, <2>1, <2>2, <2>3 DEF RedisChanges
  <1>8. ASSUME UNCHANGED genVars PROVE GenTypeOK'
    BY <1>8 DEF genVars
  <1> QED
    BY <1>1, <1>2, <1>3, <1>4, <1>5, <1>6, <1>7, <1>8 DEF GenNext

\* A line that is written comes to its place in the file, whatever the others have done to it.
LEMMA GenWrites ==
    ASSUME GenIInv, ~disturbed, NEW p \in Processes, step[p] = "parse", line[p] \in 1..3,
           NEW w, UNCHANGED <<keys, template>>, ~Dropped(line[p]), w = Written(line[p]),
           file' = WriteAt(file, offset[p], w), offset' = [offset EXCEPT ![p] = @ + 1],
           UNCHANGED step
    PROVE  /\ offset'[p] = Place(line[p] + 1)
           /\ Content' /\ \E q \in Begun' : Prefix(q)'
  <1> DEFINE o == offset[p]
             k == Place(line[p] + 1)
  <1>1. /\ Steady /\ keys \in [KeyNames -> Values] /\ template \in Templates
        /\ file \in Seq(Seq(Pieces)) /\ offset \in [Processes -> 0..3] /\ o \in Nat
    BY DEF GenIInv, GenTypeOK
  <1>2. Content /\ \E q \in Begun : Prefix(q)
    BY <1>1 DEF Steady, Opened
  <1>3. o = Place(line[p])
    BY <1>1 DEF Steady
  <1>4. /\ k = o + 1 /\ o + 1 <= Len(Promised) /\ Promised[o + 1] = w
        /\ Promised \in Seq(Seq(Pieces)) /\ w \in Seq(Pieces)
    BY <1>1, <1>3, PromisedLines, LineTypes
  <1>5. Promised' = Promised
    BY SamePromise
  <1> DEFINE f == WriteAt(file, o, w)
             P == Promised
  <1>6. /\ f \in Seq(Seq(Pieces)) /\ Len(f) = IF Len(file) > o THEN Len(file) ELSE o + 1
        /\ \A j \in 1..Len(f) :
             f[j] = IF j = o + 1 THEN w ELSE IF j <= Len(file) THEN file[j] ELSE Hole
    <2>1. o \in Nat /\ file \in Seq(Seq(Pieces)) /\ w \in Seq(Pieces)
      BY <1>1, <1>4
    <2> HIDE DEF o
    <2> QED
      BY <2>1, WriteAtLine, Zenon
  <1>7. file' = f
    OBVIOUS
  <1>8. /\ DOMAIN file = 1..Len(file) /\ DOMAIN f = 1..Len(f)
        /\ Len(file) \in Nat /\ Len(f) \in Nat /\ Len(P) \in Nat
    BY <1>1, <1>4, <1>6
  <1>9. Len(file) <= Len(P) /\ \A i \in 1..Len(file) : file[i] \in {Hole, P[i]}
    BY <1>2, <1>8 DEF Content
  <1> HIDE DEF f, P, o, k
  <1>10. Len(f) <= Len(P)
    BY <1>1, <1>4, <1>6, <1>8, <1>9 DEF P
  <1>11. \A i \in 1..Len(f) : f[i] \in {Hole, P[i]}
    <2> SUFFICES ASSUME NEW i \in 1..Len(f) PROVE f[i] \in {Hole, P[i]}
      OBVIOUS
    <2>1. CASE i = o + 1
      BY <1>4, <1>6, <2>1 DEF P
    <2>2. CASE i # o + 1 /\ i <= Len(file)
      <3>1. i \in 1..Len(file)
        BY <1>8, <2>2
      <3> QED
        BY <1>6, <1>9, <2>2, <3>1
    <2>3. CASE i # o + 1 /\ ~(i <= Len(file))
      BY <1>6, <2>3
    <2> QED
      BY <2>1, <2>2, <2>3
  <1>12. Content'
    BY <1>5, <1>7, <1>8, <1>10, <1>11 DEF Content, P
  <1>13. PICK q \in Begun : Prefix(q)
    BY <1>2
  <1>14. q \in Processes /\ q \in Begun'
    BY <1>13 DEF Begun
  <1>15. ASSUME NEW i \in Nat, i <= Len(file), file[i] = P[i], i >= 1
         PROVE  i <= Len(f) /\ f[i] = P[i]
    <2>1. i <= Len(f) /\ i \in 1..Len(f)
      BY <1>1, <1>6, <1>8, <1>15
    <2>2. CASE i = o + 1
      BY <1>4, <1>6, <2>1, <2>2 DEF P
    <2>3. CASE i # o + 1
      BY <1>6, <1>15, <2>1, <2>3
    <2> QED
      BY <2>1, <2>2, <2>3
  <1>16. o + 1 <= Len(f) /\ f[o + 1] = P[o + 1]
    <2>1. o + 1 <= Len(f) /\ o + 1 \in 1..Len(f)
      BY <1>1, <1>6, <1>8
    <2> QED
      BY <1>4, <1>6, <2>1 DEF P
  <1>17. ASSUME NEW i \in 1..offset'[q] PROVE i <= Len(f) /\ f[i] = P[i]
    <2>1. CASE i \in 1..offset[q]
      <3>1. i <= Len(file) /\ file[i] = P[i] /\ i \in Nat /\ i >= 1
        BY <1>13, <2>1 DEF Prefix, P
      <3> QED
        BY <1>15, <3>1
    <2>2. CASE i \notin 1..offset[q]
      <3>1. q = p /\ i = o + 1
        BY <1>1, <1>14, <2>2 DEF o
      <3> QED
        BY <1>16, <3>1
    <2> QED
      BY <2>1, <2>2
  <1>18. Prefix(q)'
    BY <1>5, <1>7, <1>17 DEF Prefix, P
  <1>19. offset'[p] = Place(line[p] + 1)
    BY <1>1, <1>4 DEF o, k
  <1> QED
    BY <1>12, <1>14, <1>18, <1>19

LEMMA GenOpens ==
    ASSUME GenIInv, GenTypeOK', NEW p \in Processes, OpenOutputFile(p), file' = <<>>, step'[p] = "parse"
    PROVE  GenIInv'
  <1> USE DEF GenIInv, GenTypeOK
  <1>1. /\ step[p] = "output" /\ step' = [step EXCEPT ![p] = "parse"] /\ UNCHANGED exit
        /\ UNCHANGED <<surroundings, line, offset>>
    BY DEF OpenOutputFile, Exit
  <1>2. p \in Begun'
    BY <1>1 DEF Begun
  <1>3. Positions'
    BY <1>1, <1>2 DEF Positions
  <1>4. ASSUME ~disturbed' PROVE Steady'
    <2>1. Steady
      BY <1>1, <1>4 DEF surroundings
    <2>2. /\ Promised' = Promised
          /\ \A q \in Processes : line'[q] = line[q] => Place(line[q])' = Place(line[q])
      BY <1>1, SamePromise DEF surroundings
    <2>3. Promised \in Seq(Seq(Pieces))
      BY PromisedLines
    <2>4. Content'
      BY <2>2, <2>3 DEF Content
    <2>5. offset'[p] = 0
      BY <1>1 DEF Positions
    <2>6. Prefix(p)'
      BY <2>5 DEF Prefix
    <2>7. \A q \in Processes : offset'[q] = Place(line[q])'
      BY <1>1, <2>1, <2>2 DEF Steady
    <2>8. \A q \in Processes : step'[q] \in {"template", "output", "parse"} => server'
      BY <1>1, <2>1 DEF Steady, surroundings
    <2> QED
      BY <1>2, <2>4, <2>6, <2>7, <2>8 DEF Steady
  <1> QED
    BY <1>3, <1>4

LEMMA GenParses ==
    ASSUME GenIInv, GenTypeOK', NEW p \in Processes, ParseLine(p)
    PROVE  GenIInv'
  <1> DEFINE l == template[line[p]]
             w == [i \in DOMAIN l |-> Replacement(l[i])]
             empty == \E i \in DOMAIN l : l[i].option = "empty"
             drops == \E i \in DOMAIN l : DropsLine(l[i])
  <1>0. /\ keys \in [KeyNames -> Values] /\ template \in Templates /\ Positions
        /\ line \in [Processes -> 1..4] /\ offset \in [Processes -> 0..3]
        /\ step \in [Processes -> {"connect", "template", "output", "parse", "done"}]
        /\ exit \in [Processes -> 0..2]
    BY DEF GenIInv, GenTypeOK
  <1>1. /\ step[p] = "parse" /\ line[p] <= Len(template)
        /\ UNCHANGED <<keys, template, server, disturbed>>
        /\ empty => Exit(p, 2) /\ UNCHANGED <<line, offset, file>>
        /\ ~empty => line' = [line EXCEPT ![p] = line[p] + 1] /\ UNCHANGED <<step, exit>>
        /\ ~empty /\ drops => UNCHANGED <<offset, file>>
        /\ ~empty /\ ~drops => /\ file' = WriteAt(file, offset[p], w)
                               /\ offset' = [offset EXCEPT ![p] = @ + 1]
    BY DEF ParseLine, surroundings
  <1>2. line[p] \in 1..3 /\ line[p] + 1 \in 1..4
    <2>1. Len(template) = 3
      BY <1>0, TemplateShape
    <2> QED
      BY <1>0, <1>1, <2>1
  <1>3. \A i \in DOMAIN l : l[i].key \in KeyNames /\ l[i].option # "#check"
    BY <1>0, <1>2, TemplateShape
  <1> HIDE DEF empty
  <1>4. CASE empty
    <2>1. UNCHANGED <<line, offset, file>> /\ Exit(p, 2)
      BY <1>1, <1>4
    <2>2. /\ \A q \in Processes : q = p \/ (step'[q] = step[q] /\ exit'[q] = exit[q])
          /\ step'[p] = "done" /\ exit'[p] = 2
      BY <1>0, <2>1 DEF Exit
    <2>3. \A q \in Processes : Opened(q)' => Opened(q)
      BY <2>2 DEF Opened
    <2>4. \A q \in Processes : step'[q] = "done" /\ exit'[q] = 0 => line[q] = 4
      BY <1>0, <2>2 DEF Positions
    <2> QED
      BY <1>1, <2>1, <2>2, <2>3, <2>4, GenQuiet
  <1>5. CASE ~empty
    <2>1. line' = [line EXCEPT ![p] = line[p] + 1] /\ UNCHANGED <<step, exit>>
      BY <1>1, <1>5
    <2>2. /\ \A q \in Processes : line'[q] = line[q] \/ q = p
          /\ line'[p] = line[p] + 1 /\ Begun' = Begun /\ p \in Begun
      BY <1>0, <1>1, <2>1 DEF Begun
    <2>3. \A q \in Processes : Opened(q)' <=> Opened(q)
      BY <2>1 DEF Opened
    <2>4. Positions'
      <3>1. \A q \in Processes : offset'[q] = offset[q] \/ (q = p /\ offset'[q] = offset[q] + 1)
        BY <1>0, <1>1, <1>5
      <3>2. \A q \in Processes : step'[q] \in {"connect", "template", "output"}
                                 => line'[q] = 1 /\ offset'[q] = 0
        BY <1>0, <1>1, <2>1, <2>2, <3>1 DEF Positions
      <3>3. \A q \in Processes : offset'[q] < line'[q]
        BY <1>0, <1>2, <2>2, <3>1 DEF Positions
      <3>4. \A q \in Processes : step'[q] = "done" /\ exit'[q] = 0 => line'[q] = 4
        BY <1>0, <1>1, <2>1, <2>2 DEF Positions
      <3> QED
        BY <2>2, <3>2, <3>3, <3>4 DEF Positions
    <2>5. ASSUME ~disturbed' PROVE Steady'
      <3>1. ~disturbed /\ Steady /\ server
        BY <1>1, <2>5 DEF GenIInv, Steady
      <3>2. /\ drops <=> Dropped(line[p])
            /\ ~drops => w = Written(line[p])
        BY <1>0, <1>3, <3>1, Conforms DEF Dropped, Written
      <3> HIDE DEF drops, w
      <3>3. /\ Promised' = Promised
            /\ \A q \in Processes : line'[q] = line[q] => Place(line[q])' = Place(line[q])
            /\ \A q \in Processes, n \in 1..4 : line'[q] = n => Place(line[q])' = Place(n)
        BY <1>1, SamePromise
      <3>4. Place(line[p])' = Place(line[p] + 1)
        BY <1>2, <2>2, <3>3
      <3>5. /\ offset'[p] = Place(line[p] + 1) /\ Content' /\ \E q \in Begun' : Prefix(q)'
            /\ \A q \in Processes : offset'[q] = offset[q] \/ q = p
        <4>1. CASE drops
          <5>1. UNCHANGED <<offset, file>>
            BY <1>1, <1>5, <4>1
          <5>2. Content /\ \E q \in Begun : Prefix(q)
            BY <1>1, <3>1 DEF Steady, Opened
          <5>3. Content'
            BY <3>3, <5>1, <5>2 DEF Content
          <5>4. \E q \in Begun' : Prefix(q)'
            BY <2>2, <3>3, <5>1, <5>2 DEF Prefix
          <5>5. Place(line[p] + 1) = Place(line[p])
            BY <1>0, <1>2, <3>2, <4>1, PromisedLines
          <5> QED
            BY <3>1, <5>1, <5>3, <5>4, <5>5 DEF Steady
        <4>2. CASE ~drops
          <5>1. file' = WriteAt(file, offset[p], w) /\ offset' = [offset EXCEPT ![p] = @ + 1]
            BY <1>1, <1>5, <4>2
          <5>2. offset'[p] = Place(line[p] + 1) /\ Content' /\ \E q \in Begun' : Prefix(q)'
            BY <1>1, <1>2, <2>1, <3>1, <3>2, <4>2, <5>1, GenWrites
          <5> QED
            BY <1>0, <5>1, <5>2
        <4> QED
          BY <4>1, <4>2
      <3>6. \A q \in Processes : offset'[q] = Place(line[q])'
        BY <2>2, <3>1, <3>3, <3>4, <3>5 DEF Steady
      <3>7. \A q \in Processes : step'[q] \in {"template", "output", "parse"} => server'
        BY <1>1, <3>1
      <3> QED
        BY <3>5, <3>6, <3>7 DEF Steady
    <2> QED
      BY <2>4, <2>5 DEF GenIInv
  <1> QED
    BY <1>4, <1>5

LEMMA GenStep ==
    ASSUME GenIInv, [GenNext]_genVars
    PROVE  GenIInv'
  <1>0. GenTypeOK'
    BY GenTypeStep
  <1>a. /\ step \in [Processes -> {"connect", "template", "output", "parse", "done"}]
        /\ exit \in [Processes -> 0..2] /\ Positions /\ template \in Templates
        /\ line \in [Processes -> 1..4]
    BY DEF GenIInv, GenTypeOK
  <1>1. ASSUME NEW p \in Processes, ConnectRedis(p) PROVE GenIInv'
    <2>1. /\ UNCHANGED <<keys, template, server, disturbed, line, offset, file>> /\ step[p] = "connect"
          /\ \A q \in Processes : q = p \/ (step'[q] = step[q] /\ exit'[q] = exit[q])
          /\ (step'[p] = "template" /\ server) \/ (step'[p] = "done" /\ exit'[p] = 1)
      <3>1. CASE server /\ ~auth
        BY <1>1, <1>a, <3>1 DEF ConnectRedis, surroundings
      <3>2. CASE ~(server /\ ~auth)
        BY <1>1, <1>a, <3>2 DEF ConnectRedis, Exit, surroundings
      <3> QED
        BY <3>1, <3>2
    <2>2. \A q \in Processes : Opened(q)' => Opened(q)
      BY <2>1 DEF Opened
    <2>3. \A q \in Processes : step'[q] = "done" /\ exit'[q] = 0 => line[q] = 4
      BY <1>a, <2>1 DEF Positions
    <2> QED
      BY <1>0, <2>1, <2>2, <2>3, GenQuiet
  <1>2. ASSUME NEW p \in Processes, OpenTemplateFile(p) PROVE GenIInv'
    <2>1. /\ UNCHANGED <<keys, template, server, disturbed, line, offset, file, exit>>
          /\ \A q \in Processes : step'[q] = step[q] \/ q = p
          /\ step[p] = "template" /\ step'[p] = "output"
      BY <1>2, <1>a DEF OpenTemplateFile, surroundings
    <2>2. \A q \in Processes : Opened(q)' => Opened(q)
      BY <2>1 DEF Opened
    <2>3. \A q \in Processes : step'[q] = "done" /\ exit'[q] = 0 => line[q] = 4
      BY <1>a, <2>1 DEF Positions
    <2> QED
      BY <1>0, <2>1, <2>2, <2>3, GenQuiet
  <1>3. ASSUME NEW p \in Processes, OpenOutputFile(p) PROVE GenIInv'
    <2>1. CASE outputArg \/ template[1] = OutputLine
      <3>1. file' = <<>> /\ step'[p] = "parse"
        BY <1>3, <1>a, <2>1 DEF OpenOutputFile
      <3> QED
        BY <1>0, <1>3, <3>1, GenOpens
    <2>2. CASE ~(outputArg \/ template[1] = OutputLine)
      <3>1. /\ UNCHANGED <<keys, template, server, disturbed, line, offset, file>> /\ step[p] = "output"
            /\ \A q \in Processes : q = p \/ (step'[q] = step[q] /\ exit'[q] = exit[q])
            /\ step'[p] = "done" /\ exit'[p] = 1
        BY <1>3, <1>a, <2>2 DEF OpenOutputFile, Exit, surroundings
      <3>2. \A q \in Processes : Opened(q)' => Opened(q)
        BY <3>1 DEF Opened
      <3>3. \A q \in Processes : step'[q] = "done" /\ exit'[q] = 0 => line[q] = 4
        BY <1>a, <3>1 DEF Positions
      <3> QED
        BY <1>0, <3>1, <3>2, <3>3, GenQuiet
    <2> QED
      BY <2>1, <2>2
  <1>4. ASSUME NEW p \in Processes, ParseLine(p) PROVE GenIInv'
    BY <1>0, <1>4, GenParses
  <1>5. ASSUME NEW p \in Processes, TemplateEnds(p) PROVE GenIInv'
    <2>1. /\ UNCHANGED <<keys, template, server, disturbed, line, offset, file>> /\ step[p] = "parse"
          /\ \A q \in Processes : q = p \/ (step'[q] = step[q] /\ exit'[q] = exit[q])
          /\ step'[p] = "done" /\ line[p] > Len(template)
      BY <1>5, <1>a DEF TemplateEnds, Exit, surroundings
    <2>2. Len(template) = 3
      BY <1>a, TemplateShape
    <2>3. line[p] = 4
      BY <1>a, <2>1, <2>2
    <2>4. \A q \in Processes : Opened(q)' => Opened(q)
      BY <2>1 DEF Opened
    <2>5. \A q \in Processes : step'[q] = "done" /\ exit'[q] = 0 => line[q] = 4
      BY <1>a, <2>1, <2>3 DEF Positions
    <2> QED
      BY <1>0, <2>1, <2>4, <2>5, GenQuiet
  <1>6. ASSUME NEW p \in Processes, ProcessFails(p) PROVE GenIInv'
    <2>1. /\ UNCHANGED <<keys, template, server, disturbed, line, offset, file>>
          /\ \A q \in Processes : q = p \/ (step'[q] = step[q] /\ exit'[q] = exit[q])
          /\ step'[p] = "done" /\ exit'[p] = 1
      BY <1>6, <1>a DEF ProcessFails, Exit
    <2>2. \A q \in Processes : Opened(q)' => Opened(q)
      BY <2>1 DEF Opened
    <2>3. \A q \in Processes : step'[q] = "done" /\ exit'[q] = 0 => line[q] = 4
      BY <1>a, <2>1 DEF Positions
    <2> QED
      BY <1>0, <2>1, <2>2, <2>3, GenQuiet
  <1>7. ASSUME RedisChanges PROVE GenIInv'
    <2>1. /\ UNCHANGED <<template, step, line, offset, exit, file>> /\ disturbed' = (Begun # {})
      BY <1>7 DEF RedisChanges
    <2>2. Positions' /\ Begun' = Begun
      BY <1>a, <2>1 DEF Positions, Begun
    <2>3. ASSUME ~disturbed' PROVE Steady'
      <3>1. Begun = {} /\ file = Old
        BY <1>a, <2>1, <2>3 DEF Positions
      <3>2. \A p \in Processes : step[p] = "connect" /\ line[p] = 1 /\ offset[p] = 0
        BY <1>a, <3>1 DEF Begun, Positions
      <3>3. \A p \in Processes : offset'[p] = Place(line[p])'
        BY <2>1, <3>2 DEF Place
      <3>4. \A p \in Processes : ~Opened(p)'
        BY <2>1, <3>2 DEF Opened
      <3> QED
        BY <2>1, <3>1, <3>2, <3>3, <3>4 DEF Steady
    <2> QED
      BY <1>0, <2>2, <2>3 DEF GenIInv
  <1>8. ASSUME UNCHANGED genVars PROVE GenIInv'
    <2>1. UNCHANGED <<keys, template, server, disturbed, line, offset, file, step, exit>>
      BY <1>8 DEF genVars
    <2>2. \A q \in Processes : Opened(q)' => Opened(q)
      BY <2>1 DEF Opened
    <2>3. \A q \in Processes : step'[q] = "done" /\ exit'[q] = 0 => line[q] = 4
      BY <1>a, <2>1 DEF Positions
    <2> QED
      BY <1>0, <2>1, <2>2, <2>3, GenQuiet
  <1> QED
    BY <1>1, <1>2, <1>3, <1>4, <1>5, <1>6, <1>7, <1>8 DEF GenNext

LEMMA GenStart ==
    ASSUME GenInit
    PROVE  GenIInv
  <1>1. Old \in Seq(Seq(Pieces))
    BY DEF Old, Pieces
  <1>2. GenTypeOK
    <2>1. step \in [Processes -> {"connect", "template", "output", "parse", "done"}]
      BY DEF GenInit
    <2>2. /\ line \in [Processes -> 1..4] /\ offset \in [Processes -> 0..3]
          /\ exit \in [Processes -> 0..2] /\ incidents \in 0..MaxIncidents
      BY ConfgenAssumption DEF GenInit
    <2> QED
      BY <1>1, <2>1, <2>2 DEF GenInit, GenTypeOK
  <1>3. Positions
    BY DEF GenInit, Positions
  <1>4. Steady
    BY DEF GenInit, Steady, Place, Opened
  <1> QED
    BY <1>2, <1>3, <1>4 DEF GenIInv

LEMMA GenPromise ==
    ASSUME GenIInv
    PROVE  GeneratedAsPromised
  <1> SUFFICES ASSUME ~disturbed
               PROVE  /\ Begun # {} /\ (\A p \in Begun : step[p] = "done" /\ exit[p] = 0)
                           => file = Promised
                      /\ file = Old \/ Content
    BY DEF GeneratedAsPromised, Content
  <1>1. /\ Steady /\ Positions /\ file \in Seq(Seq(Pieces)) /\ keys \in [KeyNames -> Values]
        /\ template \in Templates
    BY DEF GenIInv, GenTypeOK
  <1>2. ASSUME Begun # {}, \A p \in Begun : step[p] = "done" /\ exit[p] = 0
        PROVE  file = Promised
    <2>1. \E p \in Processes : Opened(p)
      BY <1>2 DEF Begun, Opened
    <2>2. Content /\ \E q \in Begun : Prefix(q)
      BY <1>1, <2>1 DEF Steady
    <2>3. PICK q \in Begun : Prefix(q)
      BY <2>2
    <2>4. q \in Processes /\ line[q] = 4
      BY <1>1, <1>2, <2>3 DEF Begun, Positions
    <2>5. Promised \in Seq(Seq(Pieces)) /\ Len(Promised) = Place(4)
      BY <1>1, PromisedLines
    <2>6. offset[q] = Len(Promised)
      BY <1>1, <2>4, <2>5 DEF Steady
    <2>7. Len(file) <= Len(Promised)
      BY <2>2 DEF Content
    <2>8. \A i \in 1..Len(Promised) : i <= Len(file) /\ file[i] = Promised[i]
      BY <2>3, <2>6 DEF Prefix
    <2>9. Len(file) = Len(Promised)
      <3>1. Len(file) \in Nat /\ Len(Promised) \in Nat
        BY <1>1, <2>5
      <3>2. Len(Promised) = 0 \/ Len(Promised) <= Len(file)
        BY <2>8, <3>1
      <3> QED
        BY <2>7, <3>1, <3>2
    <2> QED
      BY <1>1, <2>5, <2>8, <2>9, SeqEqual
  <1> QED
    BY <1>1, <1>2 DEF Steady

\* bbbconfgen: any number of processes that generate the same file at once, truncating and
\* writing in any order, leave the file that the help text promises for every combination of
\* the options; until they have, and if some fail, no old line and no misplaced one is in it.
THEOREM FileIsGeneratedAsPromised == GenSpec => [](GenTypeOK /\ GeneratedAsPromised)
  <1>1. GenInit => GenIInv
    BY GenStart
  <1>2. GenIInv /\ [GenNext]_genVars => GenIInv'
    BY GenStep
  <1>3. GenIInv => GenTypeOK /\ GeneratedAsPromised
    BY GenPromise DEF GenIInv
  <1> QED
    BY <1>1, <1>2, <1>3, PTL DEF GenSpec

(***************************************************************************)
(* The parts side by side.                                                 *)
(***************************************************************************)

\* MCParts: what it does is, for each part, what the part's own specification allows.
THEOREM PartsRunOnTheirOwn == FairSpec => NotifSpec /\ InfoSpec /\ BaseSpec /\ FanSpec /\ GenSpec
  <1>1. Init => NotifInit /\ InfoInit /\ BaseInit /\ FanInit /\ GenInit
    BY DEF Init
  <1>2. [Next]_partVars => /\ [NotifNext]_notifVars /\ [InfoNext]_infoVars /\ [BaseNext]_baseVars
                           /\ [FanNext]_fanVars /\ [GenNext]_genVars
    BY DEF Next, partVars
  <1> QED
    BY <1>1, <1>2, PTL DEF FairSpec, NotifSpec, InfoSpec, BaseSpec, FanSpec, GenSpec

\* The variables of every part keep their types; among them are the PWM value of the fan, which
\* is 0 or between the two flags, and the offsets at which bbbconfgen writes.
THEOREM PartsTypeCorrect == FairSpec => []TypeOK
  <1>1. NotifTypeOK /\ InfoTypeOK /\ BaseTypeOK /\ FanTypeOK /\ GenTypeOK => TypeOK
    BY DEF TypeOK
  <1> QED
    BY <1>1, PartsRunOnTheirOwn, OutcomesAreRelayed, InfoTypeCorrect, ErrorsAreExplained,
       FanRunsUntilCool, FileIsGeneratedAsPromised, PTL

===============================================================================
