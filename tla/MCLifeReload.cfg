SPECIFICATION Spec
CONSTANTS
    Valid = {c1, c2}
    Invalid = {bad}
    NoReload = {c2}
    Saves = {"write", "move", "replace"}
    QuietStart = TRUE
    Loaders = {l1}
    MaxEdits = 3
    MaxApps = 4
    None = None
INVARIANT
    ReloadSurvives
CHECK_DEADLOCK FALSE
