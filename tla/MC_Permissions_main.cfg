SPECIFICATION Spec
CONSTANTS
    Calls = {c1, c2, c3}
    None = None
    Labels = {"site", "host", "other", "global"}
    HostOf <- MCHostOf
    Global = "global"
    Accounts = {"alice", "bob"}
    Keys = {"note", "dm", "send", "blanket"}
    Scenes <- MainScenes
SYMMETRY SymCalls
INVARIANTS TypeOK CacheHonest ChecksAnswerTheStore
PROPERTIES WritesOnlyItsOwn SharingNeverLoosens MigrateKeepsDenials
CHECK_DEADLOCK FALSE
