CONSTANTS
    h1 = h1
    h2 = h2
    h3 = h3
    k1 = k1
    k2 = k2
    l1 = l1
    l2 = l2
    p1 = p1
    p2 = p2
    x1 = x1
    x2 = x2
    c1 = c1
    c2 = c2
    alice = alice
    remy = remy
    app = app
    r1 = r1
    r2 = r2
    None = None
SPECIFICATION FairSpec
CHECK_DEADLOCK FALSE
PROPERTIES EveryCallSettles EveryRequestSettles KeepsPromise
