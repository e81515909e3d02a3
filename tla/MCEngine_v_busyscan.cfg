SPECIFICATION Spec
CONSTANTS
    driveC = driveC
    driveD = driveD
    Drives = {driveC}
    AutoDrives <- OneDrive
    EngineThread = engine
    HotThreads = {}
    Quiet = {}
    CompactMin = 1
    Env = {"busyscan"}
    MaxUsn = 2
    MaxJournals = 1
    MaxCrashes = 0
INVARIANTS ReadyIsUpToDate
