SPECIFICATION Spec
CONSTANTS
    a = a
    b = b
    c = c
    Process = {a, b, c}
    NoFile = NoFile
    Blank = Blank
    None = None
    Absent = Absent
    Files = {1, 2}
    Spilled = {2}
    Names = {m, n}
    Plans <- MCPlans
    MaxFaults = 2
CHECK_DEADLOCK FALSE
INVARIANTS TypeOK ServedIsCurrent EveryRequestServed IndexFileWhole LoadedIsWhole NoLitter
