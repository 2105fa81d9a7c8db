CONSTANTS
    h1 = h1
    h2 = h2
    h3 = h3
    k1 = k1
    k2 = k2
    l1 = l1
    l2 = l2
    p1 = p1
    p2 = p2
    x1 = x1
    x2 = x2
    s1 = s1
    s2 = s2
    y1 = y1
    y2 = y2
    q1 = q1
    q2 = q2
    q3 = q3
    r1 = r1
    r2 = r2
    e1 = e1
    e2 = e2
    e3 = e3
    f1 = f1
    f2 = f2
    a1 = a1
    a2 = a2
    a3 = a3
    a4 = a4
    None = None
    Parts = {"feed"}
    SocketUrls = {s1, s2}
    SocketCalls = {y1, y2}
    SocketScenes <- MCSocketScenes
    Askers = {q1, q2, q3}
    AskedRelays = {r1, r2}
    StoredAt <- MCStored
    Asker = p1
    QueryScenes <- MCQueryScenes
    ProfileKeys = {a1, a2, a3}
    ProfileMax = 2
    ProfileNegativeMax = 1
    ProfileTrimTo = 1
    ProfileTrimAfter = 1
    ProfileTtl = 2
    ProfileCooldown = 1
    ProfileEnd = 3
    BatchFilters <- MCBatchFilters
    BatchNoLimit = 9
    BatchAuthors = 3
    BatchMaxLimit = 3
    BatchMaxFilters = 3
    BatchStores <- MCBatchStores
    FacadeSubs = {h1, h2}
    FacadeEvents = {e1}
    FacadeScenes <- MCFacadeScenes
    BatcherEvents <- MCBatcherEvents
    BatcherScenes <- MCBatcherScenes
    FeedUrls = {r1, r2}
    FeedScenes <- MCFeedScenes
    HeldUrls = {r1, r2}
    HeldClients = {h1, h2}
    HeldServer = h3
    HeldMaxFailures = 2
    HeldScenes <- MCHeldScenes
    HubHandles = {h1, h2, h3}
    HubKeys = {k1, k2}
    HubLeases = {l1, l2}
    HubPubkeys = {p1, p2}
    HubChallenges = {x1, x2}
    HubLives <- MCHubLives
    HubOps <- MCHubOps
    HubPlays <- HubSafety
SPECIFICATION Spec
CHECK_DEADLOCK FALSE
PROPERTIES ReconnectsOnDisconnect
