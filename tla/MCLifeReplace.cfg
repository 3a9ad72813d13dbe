SPECIFICATION FairSpec
CONSTANTS
    Valid = {c1, c2}
    Invalid = {bad}
    NoReload = {c2}
    Saves = {"replace"}
    QuietStart = TRUE
    Loaders = {l1}
    MaxEdits = 2
    MaxApps = 3
    None = None
PROPERTY
    FollowsFile
CHECK_DEADLOCK FALSE
