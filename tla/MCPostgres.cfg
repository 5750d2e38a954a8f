SPECIFICATION PgSpec
SYMMETRY NameSymmetry
CONSTANTS
    x = x
    Fragments <- MCFragments
    Bodies <- MCBodies
    Buckets = {b1, b2, b3}
    Keys = {k1}
    Policies = {private}
    Private = private
    UploadIds = {u1}
    PartNumbers = {1}
    StreamIds = {s1}
    None = None
    Connections = {c1, c2}
INVARIANTS
    RowsInBuckets
PROPERTIES
    MethodsAreWhole
