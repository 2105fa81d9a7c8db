CONSTANTS
    c1 = c1
    c2 = c2
    s1 = s1
    s2 = s2
    here = here
    there = there
    None = None
    Clients = {c1, c2}
    Secrets = {s1, s2}
    Relays = {here, there}
    Slots <- Three
    Scenes <- MainScenes
SPECIFICATION Spec
CHECK_DEADLOCK FALSE
INVARIANTS RevokedStaysOut OneClientPerSecret PendingCounted ExportsRestore
