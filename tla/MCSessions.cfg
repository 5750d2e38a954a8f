SPECIFICATION SessionsSpec
CONSTANTS
    Emails = {root, e1}
    Root = root
    Profiles <- TwoProfiles
    Passwords = {w1}
    RootPassword = w1
    None = None
    SessionIds = {s1}
    System = System
    Requests = {r1, r2}
SYMMETRY RequestSymmetry
INVARIANTS
    EndedStaysOut
    SessionsEndForAReason
    ActsAsItself
