SPECIFICATION AccountsSpec
SYMMETRY RequestSymmetry
CONSTANTS
    None = None
    Emails = {root, e1}
    Root = root
    Profiles <- OneProfile
    Passwords = {w1, w2}
    RootPassword = w1
    Draws = {dev, d1}
    DevDraw = dev
    Requests = {r1, r2}
INVARIANTS
    AccountsTypeOK
    CredentialsUnambiguous
    RevokedStaysOut
    KeysHaveOwners
PROPERTIES
    UseIsRemembered
    UpdatesAreNarrow
