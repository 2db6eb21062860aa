SPECIFICATION FairSpec
CONSTANTS
    LogWatchers = {"electrs"}
    LogTriggers = {"electrsFullySynced"}
    MaxFaults = 1
INVARIANTS
    RecordedIsApplied
    DownloadKeepsServicesDown
PROPERTIES
    EndStartsServices
    DownloadIsNoticed
