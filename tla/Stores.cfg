SPECIFICATION Spec
CONSTANTS
    None = None
    ListNames = {1, 2, 3, 4}
    VersionedNames = {1, 2, 3}
    Folder <- MCFolder
    ListSeqs = {0, 1}
    PageSizes = {1, 2}
    Buckets = {bucket}
    Objects = {object}
    Uploads = {u1, u2}
    UploadLength = 3
    MaxUploads = 2
    BlobClients = {c1, c2}
    Containers = {box}
    BlobNames = {x, y}
    SecretNames = {secret}
    DynClients = {c1, c2}
    TableNames = {table}
    HashKeys = {1}
    SortKeys = {"1", "1.0", "true"}
    SortType <- MCSortType
    SortRank <- MCSortRank
    Sent <- MCSent
    Sets <- MCSets
    Attrs = {"a", "b"}
    MaxTables = 2
    BedClients = {c1, c2}
    MaxEvery = 2
    MaxResponses = 2
    MaxRequests = 4
    StreamTexts <- MCTexts
    ChunkSizes = {0, 1, 2, 3, 4}
    FailAfters = {0, 1, 2}
INVARIANTS
    UploadsExact
    PagesExact
    ItemsKept
    ScriptFollowed
PROPERTIES
    CreatedIfAbsent
    ListingEnds
CHECK_DEADLOCK FALSE
