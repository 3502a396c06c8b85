CONSTANTS
    c1 = c1  c2 = c2  x = x  y = y  t = t
    None = None  NoTags = NoTags
    Buckets = {"b"}
    Keys = {"k"}
    Bytes = {x, y}
    TagSets = {NoTags}
    PartNumbers = {1, 2}
    Clients = {c1}
    Operations = {"bucket", "versioning", "put", "delete", "get", "copy", "multipart", "crash"}
    MaxTries = 3
    MaxSeq = 4
    MaxVersions = 1
    MaxUploads = 1
SPECIFICATION Spec
SYMMETRY ByteSymmetry
INVARIANT ReadMatchesInfo
INVARIANT NoOrphanParts
CHECK_DEADLOCK FALSE
