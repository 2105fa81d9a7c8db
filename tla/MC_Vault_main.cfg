SPECIFICATION Spec
CONSTANTS
    Calls = {c1, c2, c3}
    Scopes = {s1}
    Accounts = {alice, bob}
    alice = alice
    bob = bob
    Passwords = {"p", "q"}
    PerLockout = 2
    Scenes <- MainScenes
    None = None
SYMMETRY SymCalls
INVARIANTS TypeOK HeldIffOpen LockWins EndedIsGone GuardHolds SessionMatchesRecord
PROPERTIES ReportsAreTrue
CHECK_DEADLOCK FALSE
