SPECIFICATION Spec
CONSTANTS
    Calls = {c1}
    Scopes = {}
    Accounts = {alice}
    alice = alice
    bob = bob
    Passwords = {"p", "q"}
    PerLockout = 2
    Scenes <- ResealScene
    None = None
PROPERTIES OvertakenResealEndsSession
CHECK_DEADLOCK FALSE
