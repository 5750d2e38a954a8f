SPECIFICATION ObjectSpec
SYMMETRY RequestSymmetry
CONSTANTS
    x = x
    y = y
    Fragments <- MCFragments
    Bodies <- TwoBodies
    Buckets = {b1}
    Keys = {k1}
    Policies = {private}
    Private = private
    UploadIds = {}
    PartNumbers = {}
    StreamIds = {}
    None = None
    Requests = {r1, r2, r3}
    Database = TRUE
    Asks <- ShortHeaders
    Ops = {"put", "delete", "get", "plainDelete", "forceDelete"}
INVARIANTS
    WholeFiles
    Settled
    RangesAreAnswered
PROPERTIES
    AcknowledgedPutsStored
