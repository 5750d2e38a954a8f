SPECIFICATION FairPgSpec
CONSTANTS
    x = x
    Fragments <- MCFragments
    Bodies <- MCBodies
    Buckets = {b1, b2}
    Keys = {k1}
    Policies = {private}
    Private = private
    UploadIds = {u1}
    PartNumbers = {}
    StreamIds = {}
    None = None
    Connections = {c1, c2}
PROPERTIES
    TransactionsEnd
