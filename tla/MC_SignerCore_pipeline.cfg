SPECIFICATION Spec
CONSTANTS
    Requests = {r1, r2, r3}
    Origins = {app}
    Ids = {1, 2}
    Accounts = {alice, bob, remy, rita}
    alice = alice
    bob = bob
    remy = remy
    rita = rita
    MaxPending = 1
    MaxOrigin = 2
    MaxGlobal = 2
    BatchItems <- NoteProofNote
    Remote = {remy}
    ReadOnly = {rita}
    RememberFor = {app}
    Scenes <- PipelineScenes
    None = None
SYMMETRY SymRequests
INVARIANTS TypeOK WaitersQueued AccountIsMeant KeyUsedWithConsent CutOffIsFinal
PROPERTIES QueueSpec RefusalStands
CHECK_DEADLOCK FALSE
