CONSTANTS
    a1 = a1
    a2 = a2
    a3 = a3
    u1 = u1
    u2 = u2
    f1 = f1
    f2 = f2
    e1 = e1
    b1 = b1
    b2 = b2
    v1 = v1
    v2 = v2
    d1 = d1
    d2 = d2
    c1 = c1
    c2 = c2
    me = me
    Junk = Junk
    None = None
    Parts = {"coalescer", "reads", "wallet", "remote", "nosskey", "login", "inbox", "graph", "oracle", "keys"}
    Callers = {a1, a2, a3}
    Events = {e1}
    CoalescerScenes <- MCCoalescerScenes
    CacheKeys <- MCCacheKeys
    CacheFlights <- MCCacheFlights
    ReadScenes <- MCReadScenes
    Calls = {a1, a2}
    WalletScenes <- MCWalletScenes
    Sockets = {u1, u2}
    Readers = {a1, a2}
    MaxTries = 3
    RemoteScenes <- MCRemoteScenes
    FrameAccounts = {b1, b2}
    MaxPending = 2
    NosskeyScenes <- MCNosskeyScenes
    Browsers = {b1, b2}
    Services = {v1, v2}
    ChallengeTtl = 2
    Skew = 1
    JwtTtl = 2
    LastTime = 4
    LoginScenes <- MCLoginScenes
    Sessions = {d1, d2}
    InboxScenes <- MCInboxScenes
    Accounts = {a1, a2, a3}
    Lanes = 2
    BatchSize = 1
    GraphScenes <- MCGraphScenes
    OracleMaxHops = 3
    OracleMaxTargets = 2
    OracleScenes <- MCOracleScenes
    Devices = {d1, d2}
    Credentials = {c1, c2}
    Authors = {a1, a2}
    PasskeyRelays = {u1, u2}
    Default = "s1"
    PasskeyTime = 2
    PasskeyScenes <- MCPasskeyScenes
SPECIFICATION Spec
CHECK_DEADLOCK FALSE
INVARIANTS ReadsHonest MoneyHonest SignersOwn LoginsProven InboxSound TrustSound
