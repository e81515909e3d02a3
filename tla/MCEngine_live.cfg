SPECIFICATION FairSpec
CONSTANTS
    driveC = driveC
    driveD = driveD
    Drives = {driveC, driveD}
    AutoDrives <- TwoDrives
    EngineThread = engine
    HotThreads = {}
    Quiet = {2}
    CompactMin = 1
    Env = {"trim", "busyscan"}
    MaxUsn = 2
    MaxJournals = 1
    MaxCrashes = 0
INVARIANTS GateExclusive
PROPERTIES PolledDrivesCatchUp
