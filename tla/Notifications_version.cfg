SPECIFICATION FairSpec
CONSTANTS
  MaxLines = 2
  MaxRestarts = 1
  Latest = 2
  MaxChanges = 1
  Readers = {r1}
  MaxActive = 8
  MaxEvents = 1
  Flags <- MCFlags
  Readings <- MCReadings
  MaxStops = 1
  Processes = {p1}
  Options = {"none", "#rm", "#rmLineTrue"}
  FlagOptions = {"#rmLineTrue"}
  MaxIncidents = 1
INVARIANT UnsupportedIsDropped
CHECK_DEADLOCK FALSE
