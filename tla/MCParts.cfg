SPECIFICATION FairMultipartSpec
CONSTANTS
    x = x
    y = y
    Fragments <- MCFragments
    Bodies <- OneBody
    PartLists <- AllSaved
    Buckets = {b1}
    Keys = {k1}
    Policies = {private}
    Private = private
    UploadIds = {u1}
    PartNumbers = {1}
    StreamIds = {}
    None = None
    Requests = {r1, r2, r3}
    Database = FALSE
PROPERTIES
    DropsComplete
    DroppedUploadsLeaveNothing
