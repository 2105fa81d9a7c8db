SPECIFICATION Spec
CONSTANTS
    Calls = {c1, c2, c3}
    None = None
    Labels = {"site", "host", "other", "global"}
    HostOf <- MCHostOf
    Global = "global"
    Accounts = {"alice", "bob"}
    Keys = {"note", "dm", "send", "blanket"}
    Scenes <- ClearScenes
SYMMETRY SymCalls
INVARIANT ClearedStaysCleared
CHECK_DEADLOCK FALSE
