CONSTANTS
    c1 = c1  c2 = c2  x = x  y = y  t = t
    None = None  NoTags = NoTags
    Buckets = {"b"}
    Keys = {"k"}
    Bytes = {x}
    TagSets = {NoTags, t}
    PartNumbers = {1}
    Clients = {c1}
    Operations = {"bucket", "versioning", "put", "create", "delete", "tag", "reset"}
    MaxTries = 3
    MaxSeq = 6
    MaxVersions = 4
    MaxUploads = 0
SPECIFICATION Spec
INVARIANTS
    TablesSound
PROPERTIES
    History
CHECK_DEADLOCK FALSE
