SPECIFICATION MultipartSpec
SYMMETRY RequestAndBucketSymmetry
VIEW WithoutObjects
CONSTANTS
    x = x
    y = y
    Fragments <- MCFragments
    Bodies <- TwoBodies
    PartLists <- OneList
    Buckets = {b1, b2}
    Keys = {k1}
    Policies = {private}
    Private = private
    UploadIds = {u1}
    PartNumbers = {1, 2}
    StreamIds = {}
    None = None
    Requests = {r1, r2}
    Database = TRUE
INVARIANTS
    PartEtagsMatch
    PartFilesExist
PROPERTIES
    AssembledAsVerified
    UploadsAreAtomic
