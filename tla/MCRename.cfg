SPECIFICATION ObjectSpec
SYMMETRY RequestSymmetry
CONSTANTS
    x = x
    y = y
    Fragments <- MCFragments
    Bodies <- TwoBodies
    Buckets = {b1, b2}
    Keys = {k1}
    Policies = {private}
    Private = private
    UploadIds = {}
    PartNumbers = {}
    StreamIds = {}
    None = None
    Requests = {r1, r2}
    Database = FALSE
    Asks = {}
    Ops = {"put", "rename", "publicGet"}
INVARIANTS
    ObjectTypeOK
    ReadsMatch
