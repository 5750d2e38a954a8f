SPECIFICATION ListingSpec
SYMMETRY NameSymmetry
VIEW WithoutPaths
CONSTANTS
    x = x
    Fragments <- MCFragments
    Bodies <- MCBodies
    Buckets = {b1, b2}
    Keys = {1, 2, 3}
    KeyPrefixes <- MCPrefixes
    Limits = {0}
    MaxPage = 2
    Variants <- MCVariants
    Normal <- MCNormal
    Policies = {private}
    Private = private
    UploadIds = {u1}
    PartNumbers = {1}
    StreamIds = {s1}
    None = None
INVARIANTS
    WalksComplete
    LookupsFind
    ObjectsInBuckets
    ListAgreesWithGet
    PartsFollowUploads
PROPERTIES
    RenamesAreComplete
