SPECIFICATION Spec
CONSTANTS
    driveC = driveC
    driveD = driveD
    Drives = {driveC}
    AutoDrives <- OneDrive
    EngineThread = engine
    HotThreads = {t1}
    Quiet = {}
    CompactMin = 1
    Env = {"busyscan", "shutdown", "add", "remove", "rebuild", "clear"}
    MaxUsn = 3
    MaxJournals = 1
    MaxCrashes = 0
CHECK_DEADLOCK FALSE
INVARIANTS CursorNeverAheadOfContent
PROPERTIES CommitKeepsContent GenerationTracksContent
