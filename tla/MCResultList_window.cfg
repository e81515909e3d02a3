SPECIFICATION Spec
CONSTANTS
    f = f
    g = g
    Files = {f, g}
    NoFile = none
    Texts = {"t", "in"}
    PathText = "in"
    Immediate <- MCImmediate
    Answers <- MCAnswers
    Title <- MCTitle
    Boost <- MCBoost
    MaxHome = 2
    MaxRecent = 2
    MaxInputs = 6
    MaxFaults = 1
CHECK_DEADLOCK FALSE
INVARIANTS ItemsFollowTheView MenuIsOfItsSource RestartKeepsTheStores
