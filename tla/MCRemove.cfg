SPECIFICATION FairObjectSpec
CONSTANTS
    x = x
    y = y
    Fragments <- MCFragments
    Bodies <- OneBody
    Buckets = {b1, b2}
    Keys = {k1}
    Policies = {private}
    Private = private
    UploadIds = {}
    PartNumbers = {}
    StreamIds = {}
    None = None
    Requests = {r1, r2}
    Database = FALSE
    Asks = {}
    Ops = {"upload", "plainDelete", "forceDelete", "rename"}
PROPERTIES
    DanglingIsTransient
    AcknowledgedRemovalsReclaim
