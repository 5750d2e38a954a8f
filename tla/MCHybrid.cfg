SPECIFICATION HybridSpec
SYMMETRY NameSymmetry
VIEW WithoutPaths
CONSTANTS
    x = x
    y = y
    Fragments <- MCFragments
    Bodies <- TwoBodies
    Buckets = {b1, b2}
    Keys = {archived}
    NasKeys = {archived}
    Policies = {private}
    Private = private
    UploadIds = {}
    PartNumbers = {}
    StreamIds = {}
    None = None
INVARIANTS
    ServedAsDescribed
PROPERTIES
    NothingStaysBehind
