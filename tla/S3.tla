--------------------------------- MODULE S3 ---------------------------------
(***************************************************************************)
(* The S3 emulation of CloudTwin: src/src/aws/s3/service.rs over the       *)
(* tables of src/src/aws/s3/schema.rs, with the handlers of object.rs,     *)
(* multipart.rs and bucket.rs that make several calls.                     *)
(*                                                                         *)
(* A closure on the connection's thread is one step.  A table is the set   *)
(* of its rows.  Only a crash shows the inside of a closure whose          *)
(* statements are not one transaction (complete_upload, abort_upload).     *)
(***************************************************************************)
EXTENDS Integers, FiniteSets, Functions

CONSTANTS
    Buckets, Keys,
    Bytes,            \* contents of a PUT or of a part; an MD5 ETag stands for them
    TagSets,          \* tag sets of objects
    NoTags,           \* the empty one
    PartNumbers,      \* part numbers used, 1..10000 in upload_part
    Clients,          \* concurrent requests
    None,             \* no version id in the request
    Operations,       \* the operations clients call
    MaxTries,         \* 3 in get_object and get_object_full
    MaxSeq, MaxVersions, MaxUploads   \* bounds of the state space

VARIABLES
    buckets,      \* tables s3_buckets and s3_bucket_configs: name -> versioning
    objects,      \* table s3_objects
    versions,     \* table s3_object_versions
    uploads,      \* table s3_multipart_uploads
    parts,        \* table s3_multipart_parts: <<upload_id, part_number>> -> content
    seq,          \* the row 'seq' of s3_counters
    nextVersion,  \* the random version ids drawn so far, numbered
    nextUpload,   \* the random upload ids drawn so far, numbered
    reqs          \* the requests between two of their calls

tables == <<buckets, objects, versions, uploads, parts, seq>>
vars == <<buckets, objects, versions, uploads, parts, seq, nextVersion,
          nextUpload, reqs>>

-----------------------------------------------------------------------------
(* Values *)

Versioning == {"Unversioned", "Enabled", "Suspended"}

\* Content is the concatenation, in order of part number, of the parts it was
\* put together from; a PUT is part 1 alone.
Contents == UNION {[S -> Bytes] : S \in SUBSET PartNumbers}

Whole(x) == [n \in {1} |-> x]
NoContent == [n \in {} |-> n]

\* The version id "null".
Null == 0

\* A row of either table; in s3_objects marker is FALSE.
Rows == [bucket : Buckets, key : Keys, vid : Nat, seq : Nat \ {0},
         marker : BOOLEAN, content : Contents, tags : TagSets]

UploadRows == [id : Nat \ {0}, bucket : Buckets, key : Keys, tags : TagSets]

Requests ==
    [pc : {"idle"}]
    \* the condition of a PUT was found to hold: no object, or one with this ETag
    \cup [pc : {"create"}, bucket : Buckets, key : Keys, etag : Contents \cup {None}]
    \* a read between object_info and read_content, in its try-th turn
    \cup [pc : {"info"}, bucket : Buckets, key : Keys, vid : Nat \cup {None},
          info : Rows, try : Nat]
    \* read_content found the version changed
    \cup [pc : {"retry"}, bucket : Buckets, key : Keys, vid : Nat \cup {None},
          try : Nat]
    \* the read has both
    \cup [pc : {"read"}, info : Rows, content : Contents]

Idle == [pc |-> "idle"]

AllOperations == {"bucket", "versioning", "put", "create", "delete", "tag", "get",
                  "copy", "multipart", "crash", "reset"}

ASSUME S3Constants ==
    /\ Operations \subseteq AllOperations
    /\ PartNumbers \subseteq Nat \ {0} /\ 1 \in PartNumbers
    /\ NoTags \in TagSets
    /\ None \notin Nat
    /\ MaxTries \in Nat /\ MaxSeq \in Nat
    /\ MaxVersions \in Nat /\ MaxUploads \in Nat

-----------------------------------------------------------------------------
(* The two tables of versions *)

KeyIs(r, b, k) == r.bucket = b /\ r.key = k

FirstOf(A, B) == IF A # {} THEN A ELSE B

Of(rows, b, k) == {r \in rows : KeyIs(r, b, k)}

\* ORDER BY seq DESC LIMIT 1
Newest(rows) == {r \in rows : \A x \in rows : x.seq <= r.seq}

\* INSERT OR REPLACE of the rows of cur into s3_object_versions.
Archived(vers, cur) ==
    {v \in vers : \A c \in cur : ~(KeyIs(v, c.bucket, c.key) /\ v.vid = c.vid)} \cup cur

\* DELETE of the archived null version, when the version being written is it.
WithoutNull(vers, b, k, vid) ==
    {v \in vers : ~(KeyIs(v, b, k) /\ v.vid = Null /\ vid = Null)}

\* Mutant: what was hidden stays hidden.
NotRestored(objs, vers, b, k) == [objects |-> objs, versions |-> vers]

\* restore_latest: the newest archived version becomes current, if it is newer
\* than the current one and is an object.
Restored(objs, vers, b, k) ==
    LET cur == Of(objs, b, k)
        latest == Newest(Of(vers, b, k))
        up == {l \in latest : ~l.marker}
    IN  IF latest = {} \/ (\E c \in cur, l \in latest : c.seq > l.seq)
        THEN [objects |-> objs, versions |-> vers]
        ELSE [objects |-> (objs \ cur) \cup up,
              versions |-> Archived(vers, cur) \ up]

\* Mutant: no version id instead of "null".
VersionIdMissing(b) == IF buckets[b] = "Enabled" THEN nextVersion ELSE None

\* The id of the next version written to b, object or marker.
VersionId(b) == IF buckets[b] = "Enabled" THEN nextVersion ELSE Null

\* Mutant: a suspended bucket drops the current version whatever its id.
DroppedIfSuspended(b, k) ==
    {o \in Of(objects, b, k) : buckets[b] # "Enabled"}

\* Current versions that the write of another one drops instead of archiving.
Dropped(b, k) ==
    {o \in Of(objects, b, k) : o.vid = VersionId(b) \/ buckets[b] = "Unversioned"}

\* The archive when a version of b, k with the id of VersionId(b) is written.
Superseded(b, k) ==
    WithoutNull(Archived(versions, Of(objects, b, k) \ Dropped(b, k)), b, k, VersionId(b))

NextSeq == seq < MaxSeq /\ seq' = seq + 1

NextVersion(b) ==
    IF buckets[b] = "Enabled"
    THEN nextVersion <= MaxVersions /\ nextVersion' = nextVersion + 1
    ELSE UNCHANGED nextVersion

\* write_object_tx
WriteObject(b, k, content, tags) ==
    /\ b \in DOMAIN buckets
    /\ NextSeq
    /\ NextVersion(b)
    /\ versions' = Superseded(b, k)
    /\ objects' = (objects \ Of(objects, b, k)) \cup
          {[bucket |-> b, key |-> k, vid |-> VersionId(b), seq |-> seq + 1,
            marker |-> FALSE, content |-> content, tags |-> tags]}

-----------------------------------------------------------------------------
(* Buckets *)

CreateBucket(b) ==
    /\ "bucket" \in Operations
    /\ b \notin DOMAIN buckets
    /\ buckets' = [x \in DOMAIN buckets \cup {b} |->
                      IF x = b THEN "Unversioned" ELSE buckets[x]]
    /\ UNCHANGED <<objects, versions, uploads, parts, seq, nextVersion, nextUpload, reqs>>

\* Mutant: only s3_objects is asked.
NoObjects(b) == \A r \in objects : r.bucket # b

BucketEmpty(b) == \A r \in objects \cup versions : r.bucket # b

DeleteBucket(b) ==
    /\ "bucket" \in Operations
    /\ b \in DOMAIN buckets
    /\ BucketEmpty(b)
    /\ buckets' = Restrict(buckets, DOMAIN buckets \ {b})
    /\ parts' = Restrict(parts,
          {p \in DOMAIN parts : \A u \in uploads : u.id = p[1] => u.bucket # b})
    /\ uploads' = {u \in uploads : u.bucket # b}
    /\ UNCHANGED <<objects, versions, seq, nextVersion, nextUpload, reqs>>

\* PutBucketVersioning accepts these two values; there is no way back.
PutVersioning(b, status) ==
    /\ "versioning" \in Operations
    /\ b \in DOMAIN buckets
    /\ buckets' = [buckets EXCEPT ![b] = status]
    /\ UNCHANGED <<objects, versions, uploads, parts, seq, nextVersion, nextUpload, reqs>>

-----------------------------------------------------------------------------
(* Objects *)

PutObject(b, k, x, tags) ==
    /\ "put" \in Operations
    /\ WriteObject(b, k, Whole(x), tags)
    /\ UNCHANGED <<buckets, uploads, parts, nextUpload, reqs>>

\* The ETag of the current version, None when there is none.
ETag(b, k) == FirstOf({o.content : o \in Of(objects, b, k)}, {None})

\* A PUT with "if-none-match: *" or "if-match" asks first, in a call of its own.
\* Any error, a missing bucket too, lets the former go on and ends the latter.
CheckCondition(c, b, k) ==
    /\ "create" \in Operations
    /\ reqs[c].pc = "idle"
    /\ \E etag \in ETag(b, k) :
          reqs' = [reqs EXCEPT ![c] = [pc |-> "create", bucket |-> b, key |-> k,
                                       etag |-> etag]]
    /\ UNCHANGED <<tables, nextVersion, nextUpload>>

Answer(c) == reqs' = [reqs EXCEPT ![c] = Idle]

CreateObject(c, x) ==
    /\ reqs[c].pc = "create"
    /\ \/ WriteObject(reqs[c].bucket, reqs[c].key, Whole(x), NoTags)
       \/ /\ reqs[c].bucket \notin DOMAIN buckets
          /\ UNCHANGED <<objects, versions, seq, nextVersion>>
    /\ Answer(c)
    /\ UNCHANGED <<buckets, uploads, parts, nextUpload>>

\* DeleteObject without a version id.
DeleteCurrent(b, k) ==
    /\ "delete" \in Operations
    /\ b \in DOMAIN buckets
    /\ NextSeq
    /\ objects' = objects \ Of(objects, b, k)
    /\ IF buckets[b] = "Unversioned"
       THEN UNCHANGED <<versions, nextVersion>>
       ELSE /\ NextVersion(b)
            /\ versions' = Superseded(b, k) \cup
                  {[bucket |-> b, key |-> k, vid |-> VersionId(b), seq |-> seq + 1,
                    marker |-> TRUE, content |-> NoContent, tags |-> NoTags]}
    /\ UNCHANGED <<buckets, uploads, parts, nextUpload, reqs>>

\* DeleteObject with a version id: the current row is tried first.
DeleteVersion(b, k, vid) ==
    /\ "delete" \in Operations
    /\ b \in DOMAIN buckets
    /\ NextSeq
    /\ LET cur == {o \in Of(objects, b, k) : o.vid = vid}
           old == {v \in Of(versions, b, k) : v.vid = vid}
           kept == IF cur = {} THEN versions \ old ELSE versions
           left == Restored(objects \ cur, kept, b, k)
       IN  IF cur \cup old = {}
           THEN UNCHANGED <<objects, versions>>
           ELSE objects' = left.objects /\ versions' = left.versions
    /\ UNCHANGED <<buckets, uploads, parts, nextVersion, nextUpload, reqs>>

\* The row a request addresses: resolve_version finds none, or a delete marker
\* and then fails.
Resolved(b, k, vid) ==
    IF vid = None THEN Of(objects, b, k)
    ELSE FirstOf({o \in Of(objects, b, k) : o.vid = vid},
                 {v \in Of(versions, b, k) : v.vid = vid /\ ~v.marker})

SetObjectTags(b, k, vid, tags) ==
    /\ "tag" \in Operations
    /\ \E info \in Resolved(b, k, vid) :
          LET Tagged(rows) == {IF KeyIs(r, b, k) /\ r.vid = info.vid /\ r.seq = info.seq
                               THEN [r EXCEPT !.tags = tags] ELSE r : r \in rows}
          IN  objects' = Tagged(objects) /\ versions' = Tagged(versions)
    /\ UNCHANGED <<buckets, uploads, parts, seq, nextVersion, nextUpload, reqs>>

-----------------------------------------------------------------------------
(* GetObject, and the source of CopyObject and UploadPartCopy *)

\* object_info, in its first turn or again.
ObjectInfo(c, b, k, vid) ==
    /\ {"get", "copy"} \cap Operations # {}
    /\ \/ reqs[c].pc = "idle"
       \/ reqs[c].pc = "retry" /\ reqs[c].try < MaxTries
          /\ <<reqs[c].bucket, reqs[c].key, reqs[c].vid>> = <<b, k, vid>>
    /\ LET try == IF reqs[c].pc = "retry" THEN reqs[c].try ELSE 0 IN
       \/ \E r \in Resolved(b, k, vid) :
             reqs' = [reqs EXCEPT ![c] = [pc |-> "info", bucket |-> b, key |-> k,
                                          vid |-> vid, info |-> r, try |-> try + 1]]
       \/ reqs[c].pc = "retry" /\ Resolved(b, k, vid) = {} /\ Answer(c)
    /\ UNCHANGED <<tables, nextVersion, nextUpload>>

\* Mutant: the version id alone.
FoundByVersionId(info) ==
    {r \in Of(objects \cup versions, info.bucket, info.key) : r.vid = info.vid}

\* The row read_content selects, in either table.
Found(info) ==
    LET In(rows) == {r \in Of(rows, info.bucket, info.key) :
                        r.vid = info.vid /\ r.seq = info.seq}
    IN  FirstOf(In(objects), In(versions))

ReadContent(c) ==
    /\ reqs[c].pc = "info"
    /\ \/ \E r \in Found(reqs[c].info) :
             reqs' = [reqs EXCEPT ![c] = [pc |-> "read", info |-> reqs[c].info,
                                          content |-> r.content]]
       \/ /\ Found(reqs[c].info) = {}
          /\ reqs' = [reqs EXCEPT ![c] =
                [pc |-> "retry", bucket |-> reqs[c].bucket, key |-> reqs[c].key,
                 vid |-> reqs[c].vid, try |-> reqs[c].try]]
    /\ UNCHANGED <<tables, nextVersion, nextUpload>>

\* GetObject answers with the content, or with an error after its last turn.
Return(c) ==
    /\ \/ "get" \in Operations /\ reqs[c].pc = "read"
       \/ reqs[c].pc = "retry" /\ reqs[c].try = MaxTries
    /\ Answer(c)
    /\ UNCHANGED <<tables, nextVersion, nextUpload>>

\* CopyObject writes the content it read, and the source's tags or its own.
CopyObject(c, b, k) ==
    /\ "copy" \in Operations
    /\ reqs[c].pc = "read"
    /\ \/ \E tags \in TagSets : WriteObject(b, k, reqs[c].content, tags)
       \/ b \notin DOMAIN buckets /\ UNCHANGED <<objects, versions, seq, nextVersion>>
    /\ Answer(c)
    /\ UNCHANGED <<buckets, uploads, parts, nextUpload>>

-----------------------------------------------------------------------------
(* Multipart uploads *)

CreateUpload(b, k, tags) ==
    /\ "multipart" \in Operations
    /\ b \in DOMAIN buckets
    /\ nextUpload <= MaxUploads
    /\ uploads' = uploads \cup {[id |-> nextUpload, bucket |-> b, key |-> k, tags |-> tags]}
    /\ nextUpload' = nextUpload + 1
    /\ UNCHANGED <<buckets, objects, versions, parts, seq, nextVersion, reqs>>

\* INSERT OR REPLACE of one part of upload u.
WritePart(u, n, x) ==
    /\ "multipart" \in Operations
    /\ parts' = [p \in DOMAIN parts \cup {<<u.id, n>>} |->
                    IF p = <<u.id, n>> THEN x ELSE parts[p]]
    /\ UNCHANGED <<buckets, objects, versions, uploads, seq, nextVersion, nextUpload>>

UploadPart(u, n, x) == WritePart(u, n, x) /\ UNCHANGED reqs

\* UploadPartCopy writes the range it was asked for of the content it read: one
\* of the pieces that content was put together from.
UploadPartCopy(c, u, n) ==
    /\ "copy" \in Operations
    /\ reqs[c].pc = "read"
    /\ \E x \in Range(reqs[c].content) : WritePart(u, n, x)
    /\ Answer(c)

PartsWithout(u) == Restrict(parts, {p \in DOMAIN parts : p[1] # u.id})

\* Mutant: the upload goes first.
CleanupUploadFirst(u) ==
    {<<uploads, parts>>, <<uploads \ {u}, parts>>, <<uploads \ {u}, PartsWithout(u)>>}

\* The statements that remove an upload are transactions of their own: what
\* they leave when the process stops before, between or after them.
Cleanup(u) ==
    {<<uploads, parts>>, <<uploads, PartsWithout(u)>>, <<uploads \ {u}, PartsWithout(u)>>}

\* The object of upload u from its parts with the numbers in S; an ETag that is
\* not that of the part stored last ends the request instead.
WriteParts(u, S) ==
    /\ "multipart" \in Operations
    /\ \A n \in S : <<u.id, n>> \in DOMAIN parts
    /\ WriteObject(u.bucket, u.key, [n \in S |-> parts[<<u.id, n>>]], u.tags)

CompleteUpload(u, S) ==
    /\ WriteParts(u, S)
    /\ uploads' = uploads \ {u}
    /\ parts' = PartsWithout(u)
    /\ UNCHANGED <<buckets, nextUpload, reqs>>

AbortUpload(u) ==
    /\ "multipart" \in Operations
    /\ uploads' = uploads \ {u}
    /\ parts' = PartsWithout(u)
    /\ UNCHANGED <<buckets, objects, versions, seq, nextVersion, nextUpload, reqs>>

-----------------------------------------------------------------------------
(* The environment *)

\* The process stops and starts again: its requests are lost.
Crashed == "crash" \in Operations /\ reqs' = [c \in Clients |-> Idle]

Restart == Crashed /\ UNCHANGED <<tables, nextVersion, nextUpload>>

CrashInComplete(u, S) ==
    /\ Crashed
    /\ WriteParts(u, S)
    /\ \E left \in Cleanup(u) : uploads' = left[1] /\ parts' = left[2]
    /\ UNCHANGED <<buckets, nextUpload>>

CrashInAbort(u) ==
    /\ Crashed
    /\ \E left \in Cleanup(u) : uploads' = left[1] /\ parts' = left[2]
    /\ UNCHANGED <<buckets, objects, versions, seq, nextVersion, nextUpload>>

\* POST /_cloudtwin/reset empties every table whose name starts with s3_, the
\* counter's too.  Requests being served go on.
Reset ==
    /\ "reset" \in Operations
    /\ buckets' = [b \in {} |-> b]
    /\ objects' = {} /\ versions' = {} /\ uploads' = {}
    /\ parts' = [p \in {} |-> p]
    /\ seq' = 0
    /\ UNCHANGED <<nextVersion, nextUpload, reqs>>

Init ==
    /\ buckets = [b \in {} |-> b]
    /\ objects = {} /\ versions = {} /\ uploads = {}
    /\ parts = [p \in {} |-> p]
    /\ seq = 0
    /\ nextVersion = 1 /\ nextUpload = 1
    /\ reqs = [c \in Clients |-> Idle]

\* Version ids a request may name.
VersionIds == 0 .. (nextVersion - 1)

KeyStep(b, k) ==
    \/ \E x \in Bytes, tags \in TagSets : PutObject(b, k, x, tags)
    \/ DeleteCurrent(b, k)
    \/ \E vid \in VersionIds : DeleteVersion(b, k, vid)
    \/ \E vid \in VersionIds \cup {None}, tags \in TagSets : SetObjectTags(b, k, vid, tags)
    \/ \E tags \in TagSets : CreateUpload(b, k, tags)

ClientStep(c) ==
    \/ \E b \in Buckets, k \in Keys :
          \/ CheckCondition(c, b, k)
          \/ \E vid \in VersionIds \cup {None} : ObjectInfo(c, b, k, vid)
          \/ CopyObject(c, b, k)
    \/ \E x \in Bytes : CreateObject(c, x)
    \/ ReadContent(c)
    \/ Return(c)
    \/ \E u \in uploads, n \in PartNumbers : UploadPartCopy(c, u, n)

UploadStep(u) ==
    \/ \E n \in PartNumbers, x \in Bytes : UploadPart(u, n, x)
    \/ \E S \in SUBSET PartNumbers \ {{}} : CompleteUpload(u, S) \/ CrashInComplete(u, S)
    \/ AbortUpload(u)
    \/ CrashInAbort(u)

Next ==
    \/ \E b \in Buckets :
          \/ CreateBucket(b)
          \/ DeleteBucket(b)
          \/ \E status \in {"Enabled", "Suspended"} : PutVersioning(b, status)
          \/ \E k \in Keys : KeyStep(b, k)
    \/ \E c \in Clients : ClientStep(c)
    \/ \E u \in uploads : UploadStep(u)
    \/ Restart
    \/ Reset

Spec == Init /\ [][Next]_vars

-----------------------------------------------------------------------------
(* Properties *)

\* Every table and request has the shape the code gives it.
TypeOK ==
    /\ \A b \in DOMAIN buckets : b \in Buckets /\ buckets[b] \in Versioning
    /\ objects \subseteq Rows /\ versions \subseteq Rows
    /\ uploads \subseteq UploadRows
    /\ \A p \in DOMAIN parts : p \in (Nat \ {0}) \X PartNumbers /\ parts[p] \in Bytes
    /\ seq \in Nat /\ nextVersion \in Nat \ {0} /\ nextUpload \in Nat \ {0}
    /\ reqs \in [Clients -> Requests]

\* The two tables together behave as one history of versions of which
\* s3_objects holds exactly the newest of each key, unless a delete marker hides
\* it: after any mix of writes, deletes of a key, of its current version, of an
\* old one or of a marker, under any change of the bucket's versioning.
H == INSTANCE S3History WITH history <- objects \cup versions, visible <- objects

History == H!Spec

\* No two versions of a key share their place in the order of writes, or their
\* version id: there is at most one null version.
VersionsUnique ==
    \A r, s \in objects \cup versions :
        H!SameKey(r, s) /\ (r.seq = s.seq \/ r.vid = s.vid) => r = s

\* The counters are ahead of every row.
CountersAhead ==
    \A r \in objects \cup versions : r.seq <= seq /\ r.vid < nextVersion

\* A bucket that never had versioning has current null versions and no others,
\* so its plain deletes leave nothing behind.
UnversionedIsFlat ==
    \A r \in objects \cup versions :
        buckets[r.bucket] = "Unversioned" => r.vid = Null /\ r \in objects

\* No version outlives its bucket (BucketNotEmpty in delete_bucket).
RowsHaveBucket == \A r \in objects \cup versions : r.bucket \in DOMAIN buckets

\* The comment of schema.rs: "The current (visible) version of every key always
\* lives in s3_objects", and with it what makes it inductive.
CurrentInObjects ==
    /\ objects = H!Current(objects \cup versions)
    /\ objects \cap versions = {}
    /\ VersionsUnique
    /\ CountersAhead
    /\ UnversionedIsFlat

\* An upload never outlives its bucket, nor a part its upload, even when the
\* process stops while complete_upload or abort_upload cleans up.
NoOrphanParts ==
    /\ \A u \in uploads : u.bucket \in DOMAIN buckets
    /\ \A p \in DOMAIN parts : \E u \in uploads : u.id = p[1]

\* GetObject and CopyObject (read_content: "Returns None when that version
\* changed since info was read"): the content a request reads in its second
\* call is that of the version its headers, ETag and tags describe, although
\* the null version may be overwritten, deleted or archived between the calls.
ReadMatchesInfo ==
    \A c \in Clients : reqs[c].pc = "read" => reqs[c].content = reqs[c].info.content

\* The two version tables are sound: rows of the right shape, in buckets that exist,
\* and the current version of a key, and only that, in s3_objects.
TablesSound == TypeOK /\ RowsHaveBucket /\ CurrentInObjects
=============================================================================
