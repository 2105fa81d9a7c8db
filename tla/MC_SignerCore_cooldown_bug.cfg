SPECIFICATION Spec
CONSTANTS
    Requests = {r1}
    Origins = {app}
    Ids = {1}
    Accounts = {alice, bob}
    alice = alice
    bob = bob
    remy = remy
    rita = rita
    MaxPending = 2
    MaxOrigin = 3
    MaxGlobal = 3
    BatchItems <- NoteProofNote
    Remote = {}
    ReadOnly = {}
    RememberFor = {app}
    Scenes <- CooldownScene
    None = None
PROPERTIES CooldownEarnedSinceRevocation
CHECK_DEADLOCK FALSE
