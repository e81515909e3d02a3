SPECIFICATION FairSpec
CONSTANTS
    driveC = driveC
    driveD = driveD
    Drives = {driveC}
    AutoDrives <- OneDrive
    EngineThread = engine
    HotThreads = {}
    Quiet = {}
    CompactMin = 2
    Env = {"io", "trim", "recreate", "crash"}
    MaxUsn = 4
    MaxJournals = 2
    MaxCrashes = 1
INVARIANTS LostForAReason CursorNeverAheadOfContent
PROPERTIES GateReleased
