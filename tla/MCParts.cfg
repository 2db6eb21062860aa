SPECIFICATION FairSpec
CONSTANTS
  MaxLines = 3
  MaxRestarts = 1
  Latest = 2
  MaxChanges = 3
  Readers = {r1, r2}
  MaxActive = 8
  MaxEvents = 2
  Flags <- MCFlags
  Readings <- MCReadings
  MaxStops = 2
  Processes = {p1, p2}
  Options = {"none", "#rm", "#rmLine", "#default:", "#rmLineTrue", "#rmLineFalse", "empty"}
  FlagOptions = {"#rmLineTrue", "#rmLineFalse"}
  MaxIncidents = 1
INVARIANTS TypeOK RelayedInOrder ErrorIsExplained RunsUntilCool GeneratedAsPromised
PROPERTIES LinesAreWorkedOff AppComesToKnow FanFollowsTemperature
CHECK_DEADLOCK FALSE
