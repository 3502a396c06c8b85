------------------------------ MODULE S3Proofs ------------------------------
(***************************************************************************)
(* The two version tables of S3 implement one history of versions.         *)
(*                                                                         *)
(* The invariant says that s3_objects is the set of current versions of    *)
(* the union of both tables.  Three lemmas about sets of rows carry the    *)
(* proof: what a write, a removal and a change of tags do to that set.     *)
(***************************************************************************)
EXTENDS S3, TLAPS

All == objects \cup versions

Inv == TypeOK /\ RowsHaveBucket /\ CurrentInObjects

-----------------------------------------------------------------------------
(* Sets of rows *)

Ordered(rows) ==
    \A r, s \in rows : H!SameKey(r, s) /\ (r.seq = s.seq \/ r.vid = s.vid) => r = s

\* A row newer than all others of its key is current, hides the current one and
\* leaves every other key alone, whatever older rows of its key go.
LEMMA AddCurrent ==
    ASSUME NEW A \in SUBSET Rows, NEW B \in SUBSET A, NEW n \in Rows,
           \A r \in A : H!SameKey(n, r) => r.seq < n.seq,
           \A r \in A \ B : H!SameKey(n, r)
    PROVE  \A r : r \in H!Current(B \cup {n}) <=>
                     \/ r \in H!Current(A) /\ ~H!SameKey(n, r)
                     \/ r = n /\ ~n.marker
<1>1. ASSUME NEW r \in H!Current(B \cup {n})
      PROVE  \/ r \in H!Current(A) /\ ~H!SameKey(n, r)
             \/ r = n /\ ~n.marker
  <2>1. CASE r = n
    BY <1>1, <2>1 DEF H!Current
  <2>2. CASE r # n
    <3>1. r \in B /\ ~r.marker /\ \A w \in B \cup {n} : H!SameKey(r, w) => w.seq <= r.seq
      BY <1>1, <2>2 DEF H!Current
    <3>2. ~H!SameKey(n, r)
      BY <3>1 DEF H!SameKey, Rows
    <3>3. \A w \in A : H!SameKey(r, w) => w \in B
      BY <3>2 DEF H!SameKey
    <3> QED BY <3>1, <3>2, <3>3 DEF H!Current
  <2> QED BY <2>1, <2>2
<1>2. ASSUME NEW r \in H!Current(A), ~H!SameKey(n, r)
      PROVE  r \in H!Current(B \cup {n})
  BY <1>2 DEF H!Current, H!SameKey, Rows
<1>3. ASSUME ~n.marker
      PROVE  n \in H!Current(B \cup {n})
  BY <1>3 DEF H!Current, H!SameKey, Rows
<1> QED BY <1>1, <1>2, <1>3

LEMMA AddOrdered ==
    ASSUME NEW A \in SUBSET Rows, Ordered(A), NEW B \in SUBSET A, NEW n \in Rows,
           \A r \in A : H!SameKey(n, r) => r.seq < n.seq,
           \A r \in B : H!SameKey(n, r) => r.vid # n.vid
    PROVE  Ordered(B \cup {n})
BY DEF Ordered, H!SameKey, Rows

\* Without g, what g hid is current: the newest row of its key among the others.
LEMMA RemoveCurrent ==
    ASSUME NEW A \in SUBSET Rows, Ordered(A), NEW g \in A
    PROVE  H!Current(A \ {g}) =
              {r \in H!Current(A) : ~H!SameKey(g, r)}
              \cup {r \in Newest(Of(A \ {g}, g.bucket, g.key)) : ~r.marker}
BY DEF H!Current, H!SameKey, Ordered, Newest, Of, KeyIs, Rows

\* A row that is not the newest of its key hides nothing.
LEMMA RemoveHidden ==
    ASSUME NEW A \in SUBSET Rows, Ordered(A), NEW g \in A, NEW c \in A,
           H!SameKey(g, c), g.seq < c.seq
    PROVE  H!Current(A \ {g}) = H!Current(A)
<1>1. g \notin H!Current(A)
  BY DEF H!Current, H!SameKey, Rows
<1>2. ASSUME NEW r \in H!Current(A \ {g})
      PROVE  r \in H!Current(A)
  <2>1. r \in A /\ r # g /\ ~r.marker /\ \A w \in A \ {g} : H!SameKey(r, w) => w.seq <= r.seq
    BY <1>2 DEF H!Current
  <2>2. H!SameKey(r, g) => g.seq <= r.seq
    BY <2>1 DEF H!SameKey, Rows
  <2> QED BY <2>1, <2>2 DEF H!Current
<1>3. ASSUME NEW r \in H!Current(A)
      PROVE  r \in H!Current(A \ {g})
  BY <1>1, <1>3 DEF H!Current
<1> QED BY <1>2, <1>3

\* New tags change neither the order nor what is current.
LEMMA RetagCurrent ==
    ASSUME NEW A \in SUBSET Rows, Ordered(A), NEW i \in A, NEW j \in Rows,
           H!SameKey(i, j), i.seq = j.seq, i.vid = j.vid, i.marker = j.marker
    PROVE  /\ Ordered((A \ {i}) \cup {j})
           /\ i \in H!Current(A) =>
                 H!Current((A \ {i}) \cup {j}) = (H!Current(A) \ {i}) \cup {j}
           /\ i \notin H!Current(A) =>
                 H!Current((A \ {i}) \cup {j}) = H!Current(A)
<1> DEFINE B == (A \ {i}) \cup {j}
<1>1. Ordered(B)
  BY DEF Ordered, H!SameKey, Rows
<1>2. j \in H!Current(B) <=> i \in H!Current(A)
  BY DEF H!Current, H!SameKey, Rows, Ordered
<1>3. ASSUME NEW r \in A, r # i
      PROVE  r \in H!Current(B) <=> r \in H!Current(A)
  BY <1>3 DEF H!Current, H!SameKey, Rows
<1>4. H!Current(B) \subseteq B /\ H!Current(A) \subseteq A
  BY DEF H!Current
<1>5. j \in A => j = i
  BY DEF Ordered
<1> QED BY <1>1, <1>2, <1>3, <1>4, <1>5

-----------------------------------------------------------------------------
(* Type correctness *)

LEMMA InitType == Init => TypeOK
BY S3Constants DEF Init, TypeOK, Requests, Idle

LEMMA ContentTypes ==
    ASSUME NEW x \in Bytes
    PROVE  Whole(x) \in Contents /\ NoContent \in Contents
<1>1. Whole(x) \in [{1} -> Bytes] /\ {1} \in SUBSET PartNumbers
  BY S3Constants DEF Whole
<1>2. NoContent \in [{} -> Bytes] /\ {} \in SUBSET PartNumbers
  BY DEF NoContent
<1> QED BY <1>1, <1>2 DEF Contents

LEMMA EmptyContent == NoContent \in Contents
<1>1. NoContent \in [{} -> Bytes] /\ {} \in SUBSET PartNumbers
  BY DEF NoContent
<1> QED BY <1>1 DEF Contents

\* The new id is one no row of the bucket has, unless it is the null version's.
LEMMA NextVersionFacts ==
    ASSUME TypeOK, NEW b, NextVersion(b)
    PROVE  /\ nextVersion' \in Nat \ {0} /\ nextVersion <= nextVersion'
           /\ VersionId(b) \in Nat /\ VersionId(b) < nextVersion'
           /\ VersionId(b) = nextVersion \/ VersionId(b) = 0
           /\ VersionId(b) = 0 <=> buckets[b] # "Enabled"
<1>1. nextVersion \in Nat \ {0}
  BY DEF TypeOK
<1>2. CASE buckets[b] = "Enabled"
  BY <1>1, <1>2 DEF NextVersion, VersionId, Null
<1>3. CASE buckets[b] # "Enabled"
  BY <1>1, <1>3 DEF NextVersion, VersionId, Null
<1> QED BY <1>2, <1>3

LEMMA SupersededType ==
    ASSUME TypeOK, NEW b, NEW k
    PROVE  Superseded(b, k) \subseteq Rows
BY DEF TypeOK, Superseded, WithoutNull, Archived, Of

\* A write keeps both tables typed.
LEMMA WriteType ==
    ASSUME TypeOK, NEW b \in Buckets, NEW k \in Keys, NEW content \in Contents,
           NEW tags \in TagSets, WriteObject(b, k, content, tags)
    PROVE  /\ objects' \subseteq Rows /\ versions' \subseteq Rows
           /\ seq' \in Nat /\ nextVersion' \in Nat \ {0}
<1> DEFINE n == [bucket |-> b, key |-> k, vid |-> VersionId(b), seq |-> seq + 1,
                 marker |-> FALSE, content |-> content, tags |-> tags]
<1>1. NextVersion(b) /\ NextSeq /\ versions' = Superseded(b, k)
      /\ objects' = (objects \ Of(objects, b, k)) \cup {n}
  BY DEF WriteObject
<1>2. n \in Rows
  BY <1>1, NextVersionFacts DEF TypeOK, Rows
<1>3. seq' \in Nat
  BY <1>1 DEF NextSeq, TypeOK
<1> HIDE DEF n
<1>4. objects' \subseteq Rows
  BY <1>1, <1>2 DEF TypeOK
<1> QED BY <1>1, <1>3, <1>4, NextVersionFacts, SupersededType

LEMMA IdleType ==
    ASSUME TypeOK, NEW c \in Clients, Answer(c)
    PROVE  reqs' \in [Clients -> Requests]
BY DEF TypeOK, Answer, Requests, Idle

LEMMA CrashType ==
    ASSUME Crashed
    PROVE  reqs' \in [Clients -> Requests]
BY DEF Crashed, Requests, Idle

LEMMA PartsWithoutType ==
    ASSUME TypeOK, NEW u
    PROVE  \A p \in DOMAIN PartsWithout(u) :
              p \in (Nat \ {0}) \X PartNumbers /\ PartsWithout(u)[p] \in Bytes
BY DEF TypeOK, PartsWithout, Restrict

LEMMA BucketType ==
    ASSUME TypeOK, NEW b \in Buckets,
           \/ CreateBucket(b) \/ DeleteBucket(b)
           \/ \E status \in {"Enabled", "Suspended"} : PutVersioning(b, status)
    PROVE  TypeOK'
<1>1. CASE CreateBucket(b)
  BY <1>1 DEF TypeOK, CreateBucket, Versioning
<1>2. CASE DeleteBucket(b)
  BY <1>2 DEF TypeOK, DeleteBucket, Restrict
<1>3. CASE \E status \in {"Enabled", "Suspended"} : PutVersioning(b, status)
  BY <1>3 DEF TypeOK, PutVersioning, Versioning
<1> QED BY <1>1, <1>2, <1>3

LEMMA RestoredType ==
    ASSUME NEW objs \in SUBSET Rows, NEW vers \in SUBSET Rows, NEW b, NEW k
    PROVE  /\ Restored(objs, vers, b, k).objects \subseteq Rows
           /\ Restored(objs, vers, b, k).versions \subseteq Rows
BY DEF Restored, Archived, Newest, Of

LEMMA KeyType ==
    ASSUME TypeOK, NEW b \in Buckets, NEW k \in Keys, KeyStep(b, k)
    PROVE  TypeOK'
<1>1. ASSUME NEW x \in Bytes, NEW tags \in TagSets, PutObject(b, k, x, tags)
      PROVE  TypeOK'
  BY <1>1, WriteType, ContentTypes DEF PutObject, TypeOK
<1>2. CASE DeleteCurrent(b, k)
  <2> DEFINE n == [bucket |-> b, key |-> k, vid |-> VersionId(b), seq |-> seq + 1,
                   marker |-> TRUE, content |-> NoContent, tags |-> NoTags]
  <2>1. objects' \subseteq Rows /\ seq' \in Nat
    BY <1>2 DEF DeleteCurrent, NextSeq, TypeOK
  <2>2. CASE buckets[b] = "Unversioned"
    BY <1>2, <2>1, <2>2 DEF DeleteCurrent, TypeOK
  <2>3. CASE buckets[b] # "Unversioned"
    <3>1. NextVersion(b) /\ versions' = Superseded(b, k) \cup {n}
      BY <1>2, <2>3 DEF DeleteCurrent
    <3>2. n \in Rows
      BY <3>1, NextVersionFacts, EmptyContent, S3Constants DEF TypeOK, Rows
    <3> HIDE DEF n
    <3>3. versions' \subseteq Rows
      BY <3>1, <3>2, SupersededType
    <3> QED BY <1>2, <2>1, <3>1, <3>3, NextVersionFacts DEF DeleteCurrent, TypeOK
  <2> QED BY <2>2, <2>3
<1>3. ASSUME NEW vid \in VersionIds, DeleteVersion(b, k, vid)
      PROVE  TypeOK'
  <2> DEFINE cur == {o \in Of(objects, b, k) : o.vid = vid}
             old == {v \in Of(versions, b, k) : v.vid = vid}
             kept == IF cur = {} THEN versions \ old ELSE versions
  <2>1. objects \ cur \in SUBSET Rows /\ kept \in SUBSET Rows
    BY DEF TypeOK
  <2> DEFINE left == Restored(objects \ cur, kept, b, k)
  <2>2. left.objects \subseteq Rows /\ left.versions \subseteq Rows
    BY <2>1, RestoredType
  <2>3. \/ UNCHANGED <<objects, versions>>
        \/ objects' = left.objects /\ versions' = left.versions
    BY <1>3 DEF DeleteVersion
  <2> HIDE DEF left
  <2>4. objects' \subseteq Rows /\ versions' \subseteq Rows
    BY <2>2, <2>3 DEF TypeOK
  <2> QED BY <1>3, <2>4 DEF DeleteVersion, NextSeq, TypeOK
<1>4. ASSUME NEW vid \in VersionIds \cup {None}, NEW tags \in TagSets,
             SetObjectTags(b, k, vid, tags)
      PROVE  TypeOK'
  <2>1. \A r \in Rows : [r EXCEPT !.tags = tags] \in Rows
    BY DEF Rows
  <2>2. objects' \subseteq Rows /\ versions' \subseteq Rows
    BY <1>4, <2>1 DEF SetObjectTags, TypeOK
  <2> QED BY <1>4, <2>2 DEF SetObjectTags, TypeOK
<1>5. ASSUME NEW tags \in TagSets, CreateUpload(b, k, tags)
      PROVE  TypeOK'
  BY <1>5 DEF CreateUpload, TypeOK, UploadRows
<1> QED BY <1>1, <1>2, <1>3, <1>4, <1>5 DEF KeyStep

LEMMA ResolvedType ==
    ASSUME TypeOK, NEW b, NEW k, NEW vid
    PROVE  Resolved(b, k, vid) \subseteq Rows
BY DEF TypeOK, Resolved, FirstOf, Of

LEMMA ClientType ==
    ASSUME TypeOK, NEW c \in Clients, ClientStep(c)
    PROVE  TypeOK'
<1>1. ASSUME NEW b \in Buckets, NEW k \in Keys, CheckCondition(c, b, k)
      PROVE  TypeOK'
  <2>1. PICK etag \in ETag(b, k) :
           reqs' = [reqs EXCEPT ![c] = [pc |-> "create", bucket |-> b, key |-> k,
                                        etag |-> etag]]
    BY <1>1 DEF CheckCondition
  <2>2. etag \in Contents \cup {None}
    BY <2>1 DEF ETag, FirstOf, Of, TypeOK, Rows
  <2>3. [pc |-> "create", bucket |-> b, key |-> k, etag |-> etag] \in Requests
    BY <2>2 DEF Requests
  <2> QED BY <1>1, <2>1, <2>3 DEF CheckCondition, TypeOK, tables
<1>2. ASSUME NEW b \in Buckets, NEW k \in Keys, NEW vid \in VersionIds \cup {None},
             ObjectInfo(c, b, k, vid)
      PROVE  TypeOK'
  <2>1. UNCHANGED <<tables, nextVersion, nextUpload>>
    BY <1>2 DEF ObjectInfo
  <2>2. reqs' \in [Clients -> Requests]
    <3> DEFINE try == IF reqs[c].pc = "retry" THEN reqs[c].try ELSE 0
    <3>1. try \in Nat
      <4>1. reqs[c] \in Requests
        BY DEF TypeOK
      <4> QED BY <4>1 DEF Requests
    <3>2. vid \in Nat \cup {None}
      BY <1>2 DEF VersionIds, TypeOK
    <3>3. CASE Answer(c)
      BY <3>3, IdleType
    <3>4. ASSUME NEW r \in Resolved(b, k, vid),
                 reqs' = [reqs EXCEPT ![c] = [pc |-> "info", bucket |-> b, key |-> k,
                                              vid |-> vid, info |-> r, try |-> try + 1]]
          PROVE  reqs' \in [Clients -> Requests]
      <4> HIDE DEF try
      <4>1. r \in Rows
        BY ResolvedType
      <4>2. [pc |-> "info", bucket |-> b, key |-> k, vid |-> vid, info |-> r,
             try |-> try + 1] \in Requests
        BY <3>1, <3>2, <4>1 DEF Requests
      <4> QED BY <3>4, <4>2 DEF TypeOK
    <3> QED BY <1>2, <3>3, <3>4 DEF ObjectInfo
  <2> QED BY <2>1, <2>2 DEF TypeOK, tables
<1>3. ASSUME NEW b \in Buckets, NEW k \in Keys, CopyObject(c, b, k)
      PROVE  TypeOK'
  <2>1. reqs[c].content \in Contents
    <3>1. reqs[c] \in Requests /\ reqs[c].pc = "read"
      BY <1>3 DEF CopyObject, TypeOK
    <3> QED BY <3>1 DEF Requests
  <2>2. /\ objects' \subseteq Rows /\ versions' \subseteq Rows
        /\ seq' \in Nat /\ nextVersion' \in Nat \ {0}
    <3>1. CASE UNCHANGED <<objects, versions, seq, nextVersion>>
      BY <3>1 DEF TypeOK
    <3>2. ASSUME NEW tags \in TagSets, WriteObject(b, k, reqs[c].content, tags)
          PROVE  /\ objects' \subseteq Rows /\ versions' \subseteq Rows
                 /\ seq' \in Nat /\ nextVersion' \in Nat \ {0}
      BY <2>1, <3>2, WriteType
    <3> QED BY <1>3, <3>1, <3>2 DEF CopyObject
  <2>3. reqs' \in [Clients -> Requests]
    BY <1>3, IdleType DEF CopyObject
  <2> QED BY <1>3, <2>2, <2>3 DEF CopyObject, TypeOK
<1>4. ASSUME NEW x \in Bytes, CreateObject(c, x)
      PROVE  TypeOK'
  <2>1. reqs[c].bucket \in Buckets /\ reqs[c].key \in Keys
    <3>1. reqs[c] \in Requests /\ reqs[c].pc = "create"
      BY <1>4 DEF CreateObject, TypeOK
    <3> QED BY <3>1 DEF Requests
  <2>2. /\ objects' \subseteq Rows /\ versions' \subseteq Rows
        /\ seq' \in Nat /\ nextVersion' \in Nat \ {0}
    <3>1. CASE UNCHANGED <<objects, versions, seq, nextVersion>>
      BY <3>1 DEF TypeOK
    <3>2. CASE WriteObject(reqs[c].bucket, reqs[c].key, Whole(x), NoTags)
      BY <2>1, <3>2, WriteType, ContentTypes, S3Constants
    <3> QED BY <1>4, <3>1, <3>2 DEF CreateObject
  <2>3. reqs' \in [Clients -> Requests]
    BY <1>4, IdleType DEF CreateObject
  <2> QED BY <1>4, <2>2, <2>3 DEF CreateObject, TypeOK
<1>5. CASE ReadContent(c)
  <2>1. reqs[c] \in Requests /\ reqs[c].pc = "info"
    BY <1>5 DEF ReadContent, TypeOK
  <2>2. /\ reqs[c].info \in Rows /\ reqs[c].bucket \in Buckets /\ reqs[c].key \in Keys
        /\ reqs[c].vid \in Nat \cup {None} /\ reqs[c].try \in Nat
    BY <2>1 DEF Requests
  <2>3. \A r \in Found(reqs[c].info) : r.content \in Contents
    BY DEF Found, FirstOf, Of, TypeOK, Rows
  <2>4. reqs' \in [Clients -> Requests]
    <3>1. ASSUME NEW r \in Found(reqs[c].info),
                 reqs' = [reqs EXCEPT ![c] = [pc |-> "read", info |-> reqs[c].info,
                                              content |-> r.content]]
          PROVE  reqs' \in [Clients -> Requests]
      <4>1. [pc |-> "read", info |-> reqs[c].info, content |-> r.content] \in Requests
        BY <2>2, <2>3 DEF Requests
      <4> QED BY <3>1, <4>1 DEF TypeOK
    <3>2. [pc |-> "retry", bucket |-> reqs[c].bucket, key |-> reqs[c].key,
           vid |-> reqs[c].vid, try |-> reqs[c].try] \in Requests
      BY <2>2 DEF Requests
    <3>3. CASE reqs' = [reqs EXCEPT ![c] =
                 [pc |-> "retry", bucket |-> reqs[c].bucket, key |-> reqs[c].key,
                  vid |-> reqs[c].vid, try |-> reqs[c].try]]
      BY <3>2, <3>3 DEF TypeOK
    <3> QED BY <1>5, <3>1, <3>3 DEF ReadContent
  <2> QED BY <1>5, <2>4 DEF ReadContent, TypeOK, tables
<1>6. CASE Return(c)
  BY <1>6, IdleType DEF Return, TypeOK, tables
<1>7. ASSUME NEW u \in uploads, NEW n \in PartNumbers, UploadPartCopy(c, u, n)
      PROVE  TypeOK'
  <2>1. reqs[c].content \in Contents
    <3>1. reqs[c] \in Requests /\ reqs[c].pc = "read"
      BY <1>7 DEF UploadPartCopy, TypeOK
    <3> QED BY <3>1 DEF Requests
  <2>2. PICK x \in Range(reqs[c].content) : WritePart(u, n, x)
    BY <1>7 DEF UploadPartCopy
  <2>3. x \in Bytes
    BY <2>1, <2>2 DEF Contents, Range
  <2>4. u.id \in Nat \ {0}
    BY DEF TypeOK, UploadRows
  <2>5. reqs' \in [Clients -> Requests]
    BY <1>7, IdleType DEF UploadPartCopy
  <2> QED BY <2>2, <2>3, <2>4, <2>5 DEF WritePart, TypeOK
<1> QED BY <1>1, <1>2, <1>3, <1>4, <1>5, <1>6, <1>7 DEF ClientStep

LEMMA UploadType ==
    ASSUME TypeOK, NEW u \in uploads, UploadStep(u)
    PROVE  TypeOK'
<1>1. u \in UploadRows
  BY DEF TypeOK
<1>2. ASSUME NEW n \in PartNumbers, NEW x \in Bytes, UploadPart(u, n, x)
      PROVE  TypeOK'
  BY <1>1, <1>2 DEF UploadPart, WritePart, TypeOK, UploadRows
<1>3. ASSUME NEW S \in SUBSET PartNumbers, WriteParts(u, S)
      PROVE  /\ objects' \subseteq Rows /\ versions' \subseteq Rows
             /\ seq' \in Nat /\ nextVersion' \in Nat \ {0}
  <2> DEFINE content == [n \in S |-> parts[<<u.id, n>>]]
  <2>1. content \in [S -> Bytes]
    BY <1>3 DEF WriteParts, TypeOK
  <2>2. content \in Contents
    BY <2>1 DEF Contents
  <2>3. WriteObject(u.bucket, u.key, content, u.tags)
    BY <1>3 DEF WriteParts
  <2> HIDE DEF content
  <2>4. u.bucket \in Buckets /\ u.key \in Keys /\ u.tags \in TagSets
    BY <1>1 DEF UploadRows
  <2> QED BY <2>2, <2>3, <2>4, WriteType
<1>4. \A left \in Cleanup(u) :
         /\ left[1] \subseteq UploadRows
         /\ \A p \in DOMAIN left[2] : p \in (Nat \ {0}) \X PartNumbers /\ left[2][p] \in Bytes
  BY PartsWithoutType DEF Cleanup, TypeOK
<1>5. <<uploads \ {u}, PartsWithout(u)>> \in Cleanup(u)
  BY DEF Cleanup
<1>6. ASSUME NEW S \in SUBSET PartNumbers, CompleteUpload(u, S)
      PROVE  TypeOK'
  BY <1>3, <1>6, PartsWithoutType DEF CompleteUpload, TypeOK
<1>7. ASSUME NEW S \in SUBSET PartNumbers, CrashInComplete(u, S)
      PROVE  TypeOK'
  BY <1>3, <1>4, <1>7, CrashType DEF CrashInComplete, TypeOK
<1>8. CASE AbortUpload(u)
  BY <1>8, PartsWithoutType DEF AbortUpload, TypeOK
<1>9. CASE CrashInAbort(u)
  BY <1>4, <1>9, CrashType DEF CrashInAbort, TypeOK
<1> QED BY <1>2, <1>6, <1>7, <1>8, <1>9 DEF UploadStep

LEMMA NextType == TypeOK /\ [Next]_vars => TypeOK'
<1> SUFFICES ASSUME TypeOK, [Next]_vars PROVE TypeOK'
  OBVIOUS
<1>1. ASSUME NEW b \in Buckets,
             \/ CreateBucket(b) \/ DeleteBucket(b)
             \/ \E status \in {"Enabled", "Suspended"} : PutVersioning(b, status)
      PROVE  TypeOK'
  BY <1>1, BucketType
<1>2. ASSUME NEW b \in Buckets, NEW k \in Keys, KeyStep(b, k)
      PROVE  TypeOK'
  BY <1>2, KeyType
<1>3. ASSUME NEW c \in Clients, ClientStep(c)
      PROVE  TypeOK'
  BY <1>3, ClientType
<1>4. ASSUME NEW u \in uploads, UploadStep(u)
      PROVE  TypeOK'
  BY <1>4, UploadType
<1>5. CASE Restart
  BY <1>5, CrashType DEF Restart, TypeOK, tables
<1>6. CASE Reset
  BY <1>6 DEF Reset, TypeOK
<1>7. CASE UNCHANGED vars
  BY <1>7 DEF vars, TypeOK
<1> QED BY <1>1, <1>2, <1>3, <1>4, <1>5, <1>6, <1>7 DEF Next

\* Every table and request has the shape the code gives it, in every state of
\* every instance of the S3 emulation.
THEOREM TypeCorrect == Spec => []TypeOK
BY InitType, NextType, PTL DEF Spec

-----------------------------------------------------------------------------
(* Steps of the two tables *)

\* What every step keeps, and what it must look like as a step of the history.
Kept == RowsHaveBucket' /\ CurrentInObjects' /\ [H!Next]_(H!vars)

LEMMA InvFacts ==
    ASSUME Inv
    PROVE  /\ All \in SUBSET Rows /\ Ordered(All) /\ objects = H!Current(All)
           /\ objects \cap versions = {}
           /\ \A r \in All : r.seq <= seq /\ r.vid < nextVersion
           /\ \A r \in All : r.bucket \in DOMAIN buckets
           /\ \A r \in All : buckets[r.bucket] = "Unversioned" => r.vid = 0 /\ r \in objects
           /\ seq \in Nat /\ nextVersion \in Nat \ {0}
BY DEF Inv, All, Ordered, TypeOK, RowsHaveBucket, CurrentInObjects, VersionsUnique,
       CountersAhead, UnversionedIsFlat, Null

LEMMA KeptFacts ==
    ASSUME All' \in SUBSET Rows, Ordered(All)', objects' = H!Current(All)',
           objects' \cap versions' = {},
           \A r \in All' : r.seq <= seq' /\ r.vid < nextVersion',
           \A r \in All' : r.bucket \in DOMAIN buckets',
           \A r \in All' : buckets'[r.bucket] = "Unversioned" => r.vid = 0 /\ r \in objects'
    PROVE  RowsHaveBucket' /\ CurrentInObjects'
BY DEF All, Ordered, RowsHaveBucket, CurrentInObjects, VersionsUnique,
       CountersAhead, UnversionedIsFlat, Null

\* A key has at most one current version, newer than all its others.
LEMMA CurrentFacts ==
    ASSUME Inv, NEW b, NEW k, NEW c \in Of(objects, b, k)
    PROVE  /\ Of(objects, b, k) = {c} /\ c \in Rows /\ ~c.marker
           /\ \A r \in Of(All, b, k) : r # c => r.seq < c.seq
<1>1. /\ All \in SUBSET Rows /\ Ordered(All) /\ objects = H!Current(All)
  BY InvFacts
<1>2. c \in All /\ c \in Rows /\ ~c.marker
  BY <1>1 DEF Of, H!Current
<1>3. ASSUME NEW r \in Of(All, b, k), r # c
      PROVE  r.seq < c.seq
  BY <1>1, <1>2, <1>3 DEF Of, KeyIs, H!Current, H!SameKey, Ordered, Rows
<1>4. ASSUME NEW d \in Of(objects, b, k)
      PROVE  d = c
  BY <1>1, <1>2, <1>4 DEF Of, KeyIs, H!Current, H!SameKey, Ordered, Rows
<1> QED BY <1>2, <1>3, <1>4

\* A step that leaves both tables alone, and a bucket's versioning too or turns
\* it on.
LEMMA TablesKept ==
    ASSUME Inv, UNCHANGED <<objects, versions>>,
           seq' \in Nat, seq <= seq', nextVersion' \in Nat, nextVersion <= nextVersion',
           \A r \in All : r.bucket \in DOMAIN buckets',
           \A r \in All : buckets'[r.bucket] = "Unversioned" => buckets[r.bucket] = "Unversioned"
    PROVE  Kept
<1>1. All' = All /\ objects' = objects /\ versions' = versions
  BY DEF All
<1>2. Ordered(All)' /\ H!Current(All)' = H!Current(All)
  BY <1>1, InvFacts DEF Ordered, H!Current, H!SameKey
<1>3. \A r \in All' : r.seq <= seq' /\ r.vid < nextVersion'
  <2> SUFFICES ASSUME NEW r \in All PROVE r.seq <= seq' /\ r.vid < nextVersion'
    BY <1>1
  <2>1. r \in Rows /\ r.seq <= seq /\ r.vid < nextVersion /\ seq \in Nat /\ nextVersion \in Nat
    BY InvFacts
  <2> QED BY <2>1 DEF Rows
<1>4. RowsHaveBucket' /\ CurrentInObjects'
  BY <1>1, <1>2, <1>3, InvFacts, KeptFacts
<1> QED BY <1>1, <1>4 DEF Kept, H!vars, All

\* What is left of the tables when a version of b, k is written: all but the
\* version with the new one's id.
LEMMA SupersededFacts ==
    ASSUME Inv, NEW b \in DOMAIN buckets, NEW k
    PROVE  /\ (objects \ Of(objects, b, k)) \cup Superseded(b, k)
                 = {w \in All : ~(KeyIs(w, b, k) /\ w.vid = VersionId(b))}
           /\ Superseded(b, k) \cap (objects \ Of(objects, b, k)) = {}
<1> DEFINE cur == Of(objects, b, k)
           keep == cur \ Dropped(b, k)
           vid == VersionId(b)
<1>1. /\ All \in SUBSET Rows /\ Ordered(All) /\ objects \cap versions = {}
      /\ \A r \in All : r.vid < nextVersion
      /\ \A r \in All : buckets[r.bucket] = "Unversioned" => r.vid = 0
      /\ nextVersion \in Nat \ {0}
  BY InvFacts
<1>2. keep = {o \in cur : o.vid # vid}
  <2>1. buckets[b] = "Unversioned" => vid = 0
    BY DEF VersionId, Null
  <2>2. \A o \in cur : o \in All /\ o.bucket = b
    BY DEF Of, KeyIs, All
  <2>3. \A o \in cur : buckets[b] = "Unversioned" => o.vid = vid
    BY <1>1, <2>1, <2>2
  <2> QED BY <2>3 DEF Dropped
<1>3. Archived(versions, keep) = versions \cup keep
  <2>1. keep \subseteq All /\ versions \subseteq All
    BY DEF Of, All
  <2>2. ASSUME NEW v \in versions, NEW c \in keep, KeyIs(v, c.bucket, c.key), v.vid = c.vid
        PROVE  v = c
    BY <1>1, <2>1, <2>2 DEF Ordered, KeyIs, H!SameKey
  <2> HIDE DEF keep
  <2> QED BY <2>2 DEF Archived
<1>4. vid = 0 \/ \A r \in All : r.vid # vid
  <2>1. vid = 0 \/ vid = nextVersion
    BY DEF VersionId, Null
  <2>2. \A r \in All : r.vid # nextVersion
    BY <1>1 DEF Rows
  <2> QED BY <2>1, <2>2
<1>5. Superseded(b, k) = WithoutNull(versions \cup keep, b, k, vid)
  BY <1>3 DEF Superseded
<1> HIDE DEF vid
<1>6. Superseded(b, k) = {v \in versions \cup keep : ~(KeyIs(v, b, k) /\ v.vid = vid)}
  <2>1. versions \cup keep \subseteq All
    BY DEF Of, All
  <2> HIDE DEF keep
  <2> QED BY <1>4, <1>5, <2>1 DEF WithoutNull, Null
<1>7. (objects \ cur) \cup {v \in versions \cup keep : ~(KeyIs(v, b, k) /\ v.vid = vid)}
         = {w \in All : ~(KeyIs(w, b, k) /\ w.vid = vid)}
  BY <1>2 DEF All, Of
<1>8. Superseded(b, k) \cap (objects \ cur) = {}
  BY <1>1, <1>6
<1> QED BY <1>6, <1>7, <1>8 DEF vid

\* A write or a delete marker.
LEMMA NewVersion ==
    ASSUME Inv, NEW b \in DOMAIN buckets, NEW k, NEW n \in Rows,
           n.bucket = b, n.key = k, n.vid = VersionId(b), n.seq = seq + 1,
           buckets[b] = "Unversioned" => ~n.marker,
           NextSeq, NextVersion(b), buckets' = buckets,
           objects' = (objects \ Of(objects, b, k)) \cup {v \in {n} : ~n.marker},
           versions' = Superseded(b, k) \cup {v \in {n} : n.marker}
    PROVE  Kept
<1> DEFINE B == {w \in All : ~(KeyIs(w, b, k) /\ w.vid = VersionId(b))}
<1>1. /\ All \in SUBSET Rows /\ Ordered(All) /\ objects = H!Current(All)
      /\ \A r \in All : r.seq <= seq /\ r.vid < nextVersion
      /\ \A r \in All : r.bucket \in DOMAIN buckets
      /\ \A r \in All : buckets[r.bucket] = "Unversioned" => r.vid = 0 /\ r \in objects
      /\ seq \in Nat /\ nextVersion \in Nat \ {0}
  BY InvFacts
<1>2. seq' = seq + 1
  BY DEF NextSeq
<1>3. /\ nextVersion' \in Nat \ {0} /\ nextVersion <= nextVersion'
      /\ VersionId(b) \in Nat /\ VersionId(b) < nextVersion'
      /\ VersionId(b) = 0 <=> buckets[b] # "Enabled"
  BY NextVersionFacts DEF Inv
<1>4. /\ (objects \ Of(objects, b, k)) \cup Superseded(b, k) = B
      /\ Superseded(b, k) \cap (objects \ Of(objects, b, k)) = {}
  BY SupersededFacts
<1>5. \A r \in All : r.seq < n.seq /\ r # n
  BY <1>1 DEF Rows
<1>6. B \in SUBSET All /\ n \notin B
  BY <1>5
<1>7. All' = B \cup {n}
  BY <1>4 DEF All
<1>8. objects' \cap versions' = {}
  BY <1>4, <1>6
<1>9. /\ \A r \in All : H!SameKey(n, r) => r.seq < n.seq
      /\ \A r \in All \ B : H!SameKey(n, r)
      /\ \A r \in B : H!SameKey(n, r) => r.vid # n.vid
  BY <1>5 DEF H!SameKey, KeyIs
<1>10. \A r \in All' : r.seq <= seq' /\ r.vid < nextVersion'
  <2>1. ASSUME NEW r \in B PROVE r.seq <= seq' /\ r.vid < nextVersion'
    <3>1. r \in All
      BY <1>6
    <3> QED BY <1>1, <1>2, <1>3, <3>1 DEF Rows
  <2>2. n.seq <= seq' /\ n.vid < nextVersion'
    BY <1>1, <1>2, <1>3
  <2> QED BY <1>7, <2>1, <2>2
<1>11. \A r \in All' : r.bucket \in DOMAIN buckets'
  BY <1>1, <1>7
<1>12. \A r \in All' : buckets'[r.bucket] = "Unversioned" => r.vid = 0 /\ r \in objects'
  <2>1. ASSUME NEW r \in B, buckets[r.bucket] = "Unversioned"
        PROVE  r.vid = 0 /\ r \in objects'
    <3>1. r \in All /\ r.vid = 0 /\ r \in objects
      BY <1>1, <1>6, <2>1
    <3>2. ~KeyIs(r, b, k)
      BY <1>3, <2>1, <3>1 DEF KeyIs
    <3> QED BY <3>1, <3>2 DEF Of
  <2>2. buckets[n.bucket] = "Unversioned" => n.vid = 0 /\ n \in objects'
    BY <1>3
  <2> QED BY <1>7, <2>1, <2>2
<1> HIDE DEF B
<1>13. \A r : r \in H!Current(B \cup {n}) <=>
                \/ r \in H!Current(All) /\ ~H!SameKey(n, r)
                \/ r = n /\ ~n.marker
  BY <1>1, <1>6, <1>9, AddCurrent
<1>14. Ordered(B \cup {n})
  BY <1>1, <1>6, <1>9, AddOrdered
<1>15. objects' = H!Current(B \cup {n})
  <2>1. \A r \in objects : KeyIs(r, b, k) <=> H!SameKey(n, r)
    BY DEF KeyIs, H!SameKey
  <2>2. ASSUME NEW r \in objects' PROVE r \in H!Current(B \cup {n})
    <3>1. CASE r \in objects \ Of(objects, b, k)
      BY <1>1, <1>13, <2>1, <3>1 DEF Of
    <3>2. CASE r = n /\ ~n.marker
      BY <1>13, <3>2
    <3> QED BY <2>2, <3>1, <3>2
  <2>3. ASSUME NEW r \in H!Current(B \cup {n}) PROVE r \in objects'
    <3>1. CASE r \in objects /\ ~H!SameKey(n, r)
      BY <2>1, <3>1 DEF Of
    <3>2. CASE r = n /\ ~n.marker
      BY <3>2
    <3> QED BY <1>1, <1>13, <2>3, <3>1, <3>2
  <2> QED BY <2>2, <2>3
<1>16. Ordered(All)' /\ objects' = H!Current(All)'
  BY <1>7, <1>14, <1>15 DEF Ordered, H!Current, H!SameKey
<1>17. All' \in SUBSET Rows
  BY <1>1, <1>6, <1>7
<1>18. RowsHaveBucket' /\ CurrentInObjects'
  BY <1>8, <1>10, <1>11, <1>12, <1>16, <1>17, KeptFacts
<1>19. H!Add
  <2>1. B = {w \in All : ~(H!SameKey(n, w) /\ w.vid = n.vid)}
    BY DEF B, KeyIs, H!SameKey
  <2>2. n \in All' /\ All' = {w \in All : ~(H!SameKey(n, w) /\ w.vid = n.vid)} \cup {n}
    BY <1>7, <2>1
  <2> QED BY <1>9, <2>2 DEF H!Add, All
<1>20. H!Next
  BY <1>16, <1>19 DEF H!Next, All
<1> QED BY <1>18, <1>20 DEF Kept

LEMMA WriteKept ==
    ASSUME Inv, NEW b \in Buckets, NEW k \in Keys, NEW content \in Contents,
           NEW tags \in TagSets, WriteObject(b, k, content, tags), buckets' = buckets
    PROVE  Kept
<1> DEFINE n == [bucket |-> b, key |-> k, vid |-> VersionId(b), seq |-> seq + 1,
                 marker |-> FALSE, content |-> content, tags |-> tags]
<1>1. b \in DOMAIN buckets /\ NextVersion(b) /\ NextSeq /\ versions' = Superseded(b, k)
      /\ objects' = (objects \ Of(objects, b, k)) \cup {n}
  BY DEF WriteObject
<1>2. n \in Rows
  BY <1>1, NextVersionFacts DEF Inv, TypeOK, Rows
<1>3. n.bucket = b /\ n.key = k /\ n.vid = VersionId(b) /\ n.seq = seq + 1 /\ ~n.marker
  OBVIOUS
<1> HIDE DEF n
<1>4. /\ objects' = (objects \ Of(objects, b, k)) \cup {v \in {n} : ~n.marker}
      /\ versions' = Superseded(b, k) \cup {v \in {n} : n.marker}
  BY <1>1, <1>3
<1> QED BY <1>1, <1>2, <1>3, <1>4, NewVersion

\* A version deleted for good, when s3_objects holds what is then current.
LEMMA Removed ==
    ASSUME Inv, NEW g \in All, All' = All \ {g}, objects' = H!Current(All \ {g}),
           objects' \cap versions' = {}, seq' = seq + 1, UNCHANGED <<buckets, nextVersion>>
    PROVE  Kept
<1>1. /\ All \in SUBSET Rows /\ Ordered(All) /\ objects = H!Current(All)
      /\ \A r \in All : r.seq <= seq /\ r.vid < nextVersion
      /\ \A r \in All : r.bucket \in DOMAIN buckets
      /\ \A r \in All : buckets[r.bucket] = "Unversioned" => r.vid = 0 /\ r \in objects
      /\ seq \in Nat /\ nextVersion \in Nat \ {0}
  BY InvFacts
<1>2. All' \in SUBSET Rows /\ \A r \in All' : r \in All /\ r.bucket \in DOMAIN buckets'
  BY <1>1
<1>3. Ordered(All)' /\ objects' = H!Current(All)'
  BY <1>1 DEF Ordered, H!Current, H!SameKey
<1>4. \A r \in All' : r.seq <= seq' /\ r.vid < nextVersion'
  BY <1>1, <1>2 DEF Rows
<1>5. \A r \in All' : buckets'[r.bucket] = "Unversioned" => r.vid = 0 /\ r \in objects'
  BY <1>1 DEF H!Current
<1>6. RowsHaveBucket' /\ CurrentInObjects'
  BY <1>2, <1>3, <1>4, <1>5, KeptFacts
<1>7. H!Remove
  BY DEF H!Remove, All
<1> QED BY <1>3, <1>6, <1>7 DEF Kept, H!Next, All

LEMMA DeleteCurrentKept ==
    ASSUME Inv, NEW b \in Buckets, NEW k \in Keys, DeleteCurrent(b, k)
    PROVE  Kept
<1>1. b \in DOMAIN buckets /\ NextSeq /\ objects' = objects \ Of(objects, b, k)
      /\ buckets' = buckets
  BY DEF DeleteCurrent
<1>2. CASE buckets[b] = "Unversioned"
  <2>1. versions' = versions /\ nextVersion' = nextVersion /\ seq' = seq + 1
    BY <1>1, <1>2 DEF DeleteCurrent, NextSeq
  <2>2. CASE Of(objects, b, k) = {}
    <3>1. objects' = objects
      BY <1>1, <2>2
    <3>2. seq \in Nat /\ nextVersion \in Nat
      BY InvFacts
    <3> QED BY <1>1, <2>1, <3>1, <3>2, InvFacts, TablesKept
  <2>3. ASSUME NEW g \in Of(objects, b, k)
        PROVE  Kept
    <3>1. Of(objects, b, k) = {g}
      BY CurrentFacts
    <3>2. /\ All \in SUBSET Rows /\ Ordered(All) /\ objects = H!Current(All)
          /\ objects \cap versions = {}
          /\ \A r \in All : buckets[r.bucket] = "Unversioned" => r \in objects
      BY InvFacts
    <3>3. g \in All /\ g \notin versions /\ KeyIs(g, b, k)
      BY <3>2 DEF Of, All
    <3>4. All' = All \ {g}
      BY <1>1, <2>1, <3>1, <3>3 DEF All
    <3>5. objects' \cap versions' = {}
      BY <1>1, <2>1, <3>2
    <3>6. Of(All \ {g}, b, k) = {}
      BY <1>2, <3>1, <3>2 DEF Of, KeyIs
    <3>7. objects' = H!Current(All \ {g})
      <4>1. H!Current(All \ {g}) = {r \in H!Current(All) : ~H!SameKey(g, r)}
              \cup {r \in Newest(Of(All \ {g}, g.bucket, g.key)) : ~r.marker}
        BY <3>2, <3>3, RemoveCurrent
      <4>2. Newest(Of(All \ {g}, g.bucket, g.key)) = {}
        BY <3>3, <3>6 DEF Newest, KeyIs
      <4>3. {r \in objects : ~H!SameKey(g, r)} = objects \ Of(objects, b, k)
        BY <3>3 DEF Of, KeyIs, H!SameKey
      <4> QED BY <1>1, <3>2, <4>1, <4>2, <4>3
    <3> QED BY <1>1, <2>1, <3>3, <3>4, <3>5, <3>7, Removed
  <2> QED BY <2>2, <2>3
<1>3. CASE buckets[b] # "Unversioned"
  <2> DEFINE n == [bucket |-> b, key |-> k, vid |-> VersionId(b), seq |-> seq + 1,
                   marker |-> TRUE, content |-> NoContent, tags |-> NoTags]
  <2>1. NextVersion(b) /\ versions' = Superseded(b, k) \cup {n}
    BY <1>3 DEF DeleteCurrent
  <2>2. n \in Rows
    BY <2>1, NextVersionFacts, EmptyContent, S3Constants DEF Inv, TypeOK, Rows
  <2>3. n.bucket = b /\ n.key = k /\ n.vid = VersionId(b) /\ n.seq = seq + 1 /\ n.marker
    OBVIOUS
  <2> HIDE DEF n
  <2>4. /\ objects' = (objects \ Of(objects, b, k)) \cup {v \in {n} : ~n.marker}
        /\ versions' = Superseded(b, k) \cup {v \in {n} : n.marker}
    BY <1>1, <2>1, <2>3
  <2> QED BY <1>1, <1>3, <2>1, <2>2, <2>3, <2>4, NewVersion
<1> QED BY <1>2, <1>3

\* What restore_latest makes current.
Up(vers, b, k) == {l \in Newest(Of(vers, b, k)) : ~l.marker}

\* restore_latest for a key without a current version.
LEMMA RestoredHidden ==
    ASSUME NEW objs, NEW vers, NEW b, NEW k, Of(objs, b, k) = {}
    PROVE  /\ Restored(objs, vers, b, k).objects = objs \cup Up(vers, b, k)
           /\ Restored(objs, vers, b, k).versions = vers \ Up(vers, b, k)
<1> DEFINE latest == Newest(Of(vers, b, k))
           up == {l \in latest : ~l.marker}
<1>0. up = Up(vers, b, k)
  BY DEF Up
<1>1. Archived(vers, {}) = vers
  BY DEF Archived
<1>2. CASE latest = {}
  <2>1. objs \cup up = objs /\ vers \ up = vers
    BY <1>2
  <2>2. Restored(objs, vers, b, k) = [objects |-> objs, versions |-> vers]
    BY <1>2 DEF Restored
  <2> HIDE DEF up
  <2> QED BY <1>0, <2>1, <2>2
<1>3. CASE latest # {}
  <2>1. Restored(objs, vers, b, k)
          = [objects |-> (objs \ {}) \cup up, versions |-> Archived(vers, {}) \ up]
    BY <1>3 DEF Restored
  <2> HIDE DEF up
  <2>2. objs \ {} = objs
    OBVIOUS
  <2>3. Restored(objs, vers, b, k) = [objects |-> objs \cup up, versions |-> vers \ up]
    BY <1>1, <2>1, <2>2
  <2> QED BY <1>0, <2>3
<1> QED BY <1>2, <1>3

LEMMA DeleteVersionKept ==
    ASSUME Inv, NEW b \in Buckets, NEW k \in Keys, NEW vid, DeleteVersion(b, k, vid)
    PROVE  Kept
<1> DEFINE cur == {o \in Of(objects, b, k) : o.vid = vid}
           old == {v \in Of(versions, b, k) : v.vid = vid}
           kept == IF cur = {} THEN versions \ old ELSE versions
           left == Restored(objects \ cur, kept, b, k)
<1>1. /\ All \in SUBSET Rows /\ Ordered(All) /\ objects = H!Current(All)
      /\ objects \cap versions = {} /\ seq \in Nat /\ nextVersion \in Nat
      /\ \A r \in All : r.bucket \in DOMAIN buckets
  BY InvFacts
<1>2. seq' = seq + 1 /\ UNCHANGED <<buckets, nextVersion>>
  BY DEF DeleteVersion, NextSeq
<1>3. IF cur \cup old = {} THEN UNCHANGED <<objects, versions>>
      ELSE objects' = left.objects /\ versions' = left.versions
  BY DEF DeleteVersion
<1>4. CASE cur \cup old = {}
  <2>1. UNCHANGED <<objects, versions>>
    BY <1>3, <1>4
  <2> QED BY <1>1, <1>2, <2>1, TablesKept
<1>5. ASSUME NEW g \in cur \cup old PROVE Kept
  <2>1. g \in All /\ KeyIs(g, b, k) /\ g.vid = vid
    BY <1>5 DEF Of, All
  <2>2. cur \cup old = {g}
    BY <1>1, <2>1 DEF Of, All, Ordered, KeyIs, H!SameKey
  <2>3. objects' = left.objects /\ versions' = left.versions
    BY <1>3, <1>5
  <2>4. (objects \ cur) \cup kept = All \ {g} /\ (objects \ cur) \cap kept = {}
    <3>1. g \in objects => g \in cur /\ g \notin versions
      BY <1>1, <2>1 DEF Of
    <3>2. g \in versions => g \in old /\ g \notin objects
      BY <1>1, <2>1 DEF Of
    <3>3. cur \subseteq objects /\ old \subseteq versions
      BY DEF Of
    <3> HIDE DEF cur, old
    <3> QED BY <1>1, <2>1, <2>2, <3>1, <3>2, <3>3 DEF All
  <2>5. H!Current(All \ {g}) = {r \in objects : ~H!SameKey(g, r)}
           \cup {r \in Newest(Of(All \ {g}, b, k)) : ~r.marker}
    <3>1. H!Current(All \ {g}) = {r \in H!Current(All) : ~H!SameKey(g, r)}
             \cup {r \in Newest(Of(All \ {g}, g.bucket, g.key)) : ~r.marker}
      BY <1>1, <2>1, RemoveCurrent
    <3>2. g.bucket = b /\ g.key = k
      BY <2>1 DEF KeyIs
    <3> QED BY <1>1, <3>1, <3>2
  <2>6. \A r \in objects : KeyIs(r, b, k) <=> H!SameKey(g, r)
    BY <2>1 DEF KeyIs, H!SameKey
  <2>7. CASE Of(objects \ cur, b, k) = {}
    <3> DEFINE up == Up(kept, b, k)
    <3>1. left.objects = (objects \ cur) \cup up /\ left.versions = kept \ up
      <4> DEFINE O == objects \ cur
      <4>1. Of(O, b, k) = {} /\ left = Restored(O, kept, b, k)
        BY <2>7
      <4> HIDE DEF O, kept
      <4>2. /\ Restored(O, kept, b, k).objects = O \cup Up(kept, b, k)
            /\ Restored(O, kept, b, k).versions = kept \ Up(kept, b, k)
        BY <4>1, RestoredHidden
      <4> QED BY <4>1, <4>2 DEF O
    <3>2. Of(kept, b, k) = Of(All \ {g}, b, k)
      <4> HIDE DEF kept, cur
      <4> QED BY <2>4, <2>7 DEF Of
    <3>3. objects \ cur = {r \in objects : ~H!SameKey(g, r)}
      <4>1. \A r \in cur : KeyIs(r, b, k)
        BY DEF Of
      <4> HIDE DEF cur
      <4> QED BY <2>6, <2>7, <4>1 DEF Of
    <3>4. objects' = (objects \ cur) \cup up /\ versions' = kept \ up
      <4> HIDE DEF left, up, kept, cur
      <4> QED BY <2>3, <3>1
    <3>5. up \subseteq kept
      <4> HIDE DEF kept
      <4> QED BY DEF Up, Newest, Of
    <3>6. objects' = H!Current(All \ {g})
      <4>1. up = {r \in Newest(Of(All \ {g}, b, k)) : ~r.marker}
        BY <3>2 DEF Up
      <4> HIDE DEF up, cur, kept
      <4> QED BY <2>5, <3>3, <3>4, <4>1
    <3> HIDE DEF up, kept, cur, old, left
    <3>7. All' = All \ {g}
      BY <2>4, <3>4, <3>5 DEF All
    <3>8. objects' \cap versions' = {}
      BY <2>4, <3>4
    <3> QED BY <1>2, <2>1, <3>6, <3>7, <3>8, Removed
  <2>8. ASSUME NEW c \in Of(objects \ cur, b, k) PROVE Kept
    <3>1. c \in Of(objects, b, k) /\ c \notin cur
      BY <2>8 DEF Of
    <3>2. /\ Of(objects, b, k) = {c} /\ c \in Rows
          /\ \A r \in Of(All, b, k) : r # c => r.seq < c.seq
      BY <3>1, CurrentFacts
    <3>3. cur = {}
      BY <3>1, <3>2
    <3>4. c # g /\ g.seq < c.seq /\ H!SameKey(g, c) /\ c \in All
      <4>1. g \in Of(All, b, k) /\ c \in All /\ KeyIs(c, b, k)
        BY <2>1, <3>1 DEF Of, All
      <4>2. c # g
        BY <2>1, <3>1
      <4> QED BY <2>1, <3>2, <4>1, <4>2 DEF KeyIs, H!SameKey
    <3>5. objects \ cur = objects /\ kept = versions \ old
      BY <3>3
    <3>6. left = [objects |-> objects, versions |-> kept]
      <4> DEFINE latest == Newest(Of(kept, b, k))
      <4>1. \A l \in latest : l \in Of(All, b, k) /\ l # c
        BY <1>1, <3>1, <3>5 DEF Newest, Of, All
      <4>2. \A l \in latest : c.seq > l.seq
        BY <1>1, <3>2, <4>1 DEF Of, Rows
      <4>3. latest = {} \/ (\E d \in Of(objects, b, k), l \in latest : d.seq > l.seq)
        BY <3>1, <4>2
      <4> QED BY <3>5, <4>3 DEF Restored
    <3>7. objects' = objects /\ versions' = kept
      <4> HIDE DEF left, kept
      <4> QED BY <2>3, <3>6
    <3>8. All' = All \ {g} /\ objects' \cap versions' = {}
      BY <2>4, <3>5, <3>7 DEF All
    <3>9. H!Current(All \ {g}) = H!Current(All)
      BY <1>1, <2>1, <3>4, RemoveHidden
    <3> QED BY <1>1, <1>2, <2>1, <3>7, <3>8, <3>9, Removed
  <2> QED BY <2>7, <2>8
<1> QED BY <1>4, <1>5

LEMMA TagsKept ==
    ASSUME Inv, NEW b \in Buckets, NEW k \in Keys, NEW vid, NEW tags \in TagSets,
           SetObjectTags(b, k, vid, tags)
    PROVE  Kept
<1> DEFINE Hit(r, i) == KeyIs(r, b, k) /\ r.vid = i.vid /\ r.seq = i.seq
           Tagged(rows, i) == {IF Hit(r, i) THEN [r EXCEPT !.tags = tags] ELSE r : r \in rows}
<1>1. /\ All \in SUBSET Rows /\ Ordered(All) /\ objects = H!Current(All)
      /\ objects \cap versions = {}
      /\ \A r \in All : r.seq <= seq /\ r.vid < nextVersion
      /\ \A r \in All : r.bucket \in DOMAIN buckets
      /\ \A r \in All : buckets[r.bucket] = "Unversioned" => r.vid = 0 /\ r \in objects
  BY InvFacts
<1>2. PICK i \in Resolved(b, k, vid) :
         objects' = Tagged(objects, i) /\ versions' = Tagged(versions, i)
  BY DEF SetObjectTags
<1>3. UNCHANGED <<buckets, seq, nextVersion>>
  BY DEF SetObjectTags
<1>4. i \in All /\ i \in Rows /\ KeyIs(i, b, k) /\ ~i.marker
  BY <1>1, <1>2 DEF Resolved, FirstOf, Of, All, H!Current
<1> DEFINE j == [i EXCEPT !.tags = tags]
<1>5. /\ j \in Rows /\ j.bucket = i.bucket /\ j.key = i.key /\ j.seq = i.seq
      /\ j.vid = i.vid /\ j.marker = i.marker /\ j.tags = tags
      /\ j = [i EXCEPT !.tags = j.tags]
  BY <1>4 DEF Rows
<1>6. \A r \in All : Hit(r, i) <=> r = i
  BY <1>1, <1>4 DEF Ordered, KeyIs, H!SameKey
<1> HIDE DEF j
<1>7. ASSUME NEW S, S = objects \/ S = versions
      PROVE  /\ i \in S => Tagged(S, i) = (S \ {i}) \cup {j}
             /\ i \notin S => Tagged(S, i) = S
  <2>1. S \subseteq All
    BY <1>7 DEF All
  <2>2. \A r \in S : Hit(r, i) <=> r = i
    BY <1>6, <2>1
  <2> HIDE DEF Hit
  <2> QED BY <2>2 DEF j
<1>8. /\ i \in objects => objects' = (objects \ {i}) \cup {j}
      /\ i \notin objects => objects' = objects
      /\ i \in versions => versions' = (versions \ {i}) \cup {j}
      /\ i \notin versions => versions' = versions
  <2> HIDE DEF Tagged
  <2> QED BY <1>2, <1>7
<1>9. j \in All => j = i
  BY <1>1, <1>4, <1>5 DEF Ordered, H!SameKey
<1>10. All' = (All \ {i}) \cup {j} /\ objects' \cap versions' = {}
  <2>1. CASE i \in objects
    BY <1>1, <1>8, <1>9, <2>1 DEF All
  <2>2. CASE i \in versions
    BY <1>1, <1>8, <1>9, <2>2 DEF All
  <2> QED BY <1>4, <2>1, <2>2 DEF All
<1>11. /\ Ordered((All \ {i}) \cup {j})
       /\ i \in H!Current(All) =>
             H!Current((All \ {i}) \cup {j}) = (H!Current(All) \ {i}) \cup {j}
       /\ i \notin H!Current(All) =>
             H!Current((All \ {i}) \cup {j}) = H!Current(All)
  <2>1. H!SameKey(i, j)
    BY <1>5 DEF H!SameKey
  <2> QED BY <1>1, <1>4, <1>5, <2>1, RetagCurrent
<1>12. objects' = H!Current((All \ {i}) \cup {j})
  BY <1>1, <1>8, <1>11
<1>13. Ordered(All)' /\ objects' = H!Current(All)'
  BY <1>10, <1>11, <1>12 DEF Ordered, H!Current, H!SameKey
<1>14. All' \in SUBSET Rows
  BY <1>1, <1>5, <1>10
<1>15. \A r \in All' : r.seq <= seq' /\ r.vid < nextVersion'
  BY <1>1, <1>3, <1>4, <1>5, <1>10
<1>16. \A r \in All' : r.bucket \in DOMAIN buckets'
  BY <1>1, <1>3, <1>4, <1>5, <1>10
<1>17. \A r \in All' : buckets'[r.bucket] = "Unversioned" => r.vid = 0 /\ r \in objects'
  <2>1. ASSUME NEW r \in All, r # i, buckets[r.bucket] = "Unversioned"
        PROVE  r.vid = 0 /\ r \in objects'
    <3>1. r.vid = 0 /\ r \in objects
      BY <1>1, <2>1
    <3> QED BY <1>8, <2>1, <3>1
  <2>2. ASSUME buckets[j.bucket] = "Unversioned"
        PROVE  j.vid = 0 /\ j \in objects'
    <3>1. i.vid = 0 /\ i \in objects
      BY <1>1, <1>4, <1>5, <2>2
    <3> QED BY <1>5, <1>8, <3>1
  <2> QED BY <1>3, <1>10, <2>1, <2>2
<1>18. RowsHaveBucket' /\ CurrentInObjects'
  BY <1>10, <1>13, <1>14, <1>15, <1>16, <1>17, KeptFacts
<1>19. H!Retag
  <2>1. j \in All'
    BY <1>10
  <2> QED BY <1>4, <1>5, <1>10, <2>1 DEF H!Retag, All
<1> QED BY <1>13, <1>18, <1>19 DEF Kept, H!Next, All

\* A step that changes neither table, nor a bucket or a counter.
LEMMA OthersKept ==
    ASSUME Inv, UNCHANGED <<buckets, objects, versions, seq, nextVersion>>
    PROVE  Kept
BY InvFacts, TablesKept

-----------------------------------------------------------------------------
(* Every step *)

LEMMA BucketKept ==
    ASSUME Inv, NEW b \in Buckets,
           \/ CreateBucket(b) \/ DeleteBucket(b)
           \/ \E status \in {"Enabled", "Suspended"} : PutVersioning(b, status)
    PROVE  Kept
<1>1. /\ seq \in Nat /\ nextVersion \in Nat
      /\ \A r \in All : r.bucket \in DOMAIN buckets
  BY InvFacts
<1>2. CASE CreateBucket(b)
  BY <1>1, <1>2, TablesKept DEF CreateBucket
<1>3. CASE DeleteBucket(b)
  <2>1. DOMAIN buckets' = DOMAIN buckets \ {b}
        /\ \A x \in DOMAIN buckets' : buckets'[x] = buckets[x]
    BY <1>3 DEF DeleteBucket, Restrict
  <2>2. \A r \in All : r.bucket # b
    BY <1>3 DEF DeleteBucket, BucketEmpty, All
  <2>3. \A r \in All : r.bucket \in DOMAIN buckets' /\ buckets'[r.bucket] = buckets[r.bucket]
    BY <1>1, <2>1, <2>2
  <2>4. UNCHANGED <<objects, versions, seq, nextVersion>>
    BY <1>3 DEF DeleteBucket
  <2> QED BY <1>1, <2>3, <2>4, TablesKept
<1>4. ASSUME NEW status \in {"Enabled", "Suspended"}, PutVersioning(b, status)
      PROVE  Kept
  BY <1>1, <1>4, TablesKept DEF PutVersioning
<1> QED BY <1>2, <1>3, <1>4

LEMMA KeyKept ==
    ASSUME Inv, NEW b \in Buckets, NEW k \in Keys, KeyStep(b, k)
    PROVE  Kept
<1>1. ASSUME NEW x \in Bytes, NEW tags \in TagSets, PutObject(b, k, x, tags)
      PROVE  Kept
  BY <1>1, WriteKept, ContentTypes DEF PutObject
<1>2. ASSUME NEW tags \in TagSets, CreateUpload(b, k, tags)
      PROVE  Kept
  BY <1>2, OthersKept DEF CreateUpload
<1>3. ASSUME NEW vid \in VersionIds \cup {None}, NEW tags \in TagSets,
             SetObjectTags(b, k, vid, tags)
      PROVE  Kept
  BY <1>3, TagsKept
<1>4. ASSUME NEW vid \in VersionIds, DeleteVersion(b, k, vid)
      PROVE  Kept
  BY <1>4, DeleteVersionKept
<1>5. CASE DeleteCurrent(b, k)
  BY <1>5, DeleteCurrentKept
<1> QED BY <1>1, <1>2, <1>3, <1>4, <1>5 DEF KeyStep

LEMMA ClientKept ==
    ASSUME Inv, NEW c \in Clients, ClientStep(c)
    PROVE  Kept
<1>0. reqs[c] \in Requests
  BY DEF Inv, TypeOK
<1>1. ASSUME NEW b \in Buckets, NEW k \in Keys,
             CheckCondition(c, b, k) \/ \E vid \in VersionIds \cup {None} : ObjectInfo(c, b, k, vid)
      PROVE  Kept
  BY <1>1, OthersKept DEF CheckCondition, ObjectInfo, tables
<1>2. ASSUME NEW b \in Buckets, NEW k \in Keys, CopyObject(c, b, k)
      PROVE  Kept
  <2>1. reqs[c].content \in Contents
    BY <1>0, <1>2 DEF CopyObject, Requests
  <2>2. ASSUME NEW tags \in TagSets, WriteObject(b, k, reqs[c].content, tags)
        PROVE  Kept
    BY <1>2, <2>1, <2>2, WriteKept DEF CopyObject
  <2> QED BY <1>2, <2>2, OthersKept DEF CopyObject
<1>3. ASSUME NEW x \in Bytes, CreateObject(c, x)
      PROVE  Kept
  <2>1. reqs[c].bucket \in Buckets /\ reqs[c].key \in Keys
    BY <1>0, <1>3 DEF CreateObject, Requests
  <2>2. CASE WriteObject(reqs[c].bucket, reqs[c].key, Whole(x), NoTags)
    BY <1>3, <2>1, <2>2, WriteKept, ContentTypes, S3Constants DEF CreateObject
  <2> QED BY <1>3, <2>2, OthersKept DEF CreateObject
<1>4. CASE ReadContent(c) \/ Return(c)
  BY <1>4, OthersKept DEF ReadContent, Return, tables
<1>5. ASSUME NEW u \in uploads, NEW n \in PartNumbers, UploadPartCopy(c, u, n)
      PROVE  Kept
  BY <1>5, OthersKept DEF UploadPartCopy, WritePart
<1> QED BY <1>1, <1>2, <1>3, <1>4, <1>5 DEF ClientStep

LEMMA UploadKept ==
    ASSUME Inv, NEW u \in uploads, UploadStep(u)
    PROVE  Kept
<1>1. u \in UploadRows
  BY DEF Inv, TypeOK
<1>2. ASSUME NEW S \in SUBSET PartNumbers, WriteParts(u, S), buckets' = buckets
      PROVE  Kept
  <2> DEFINE content == [n \in S |-> parts[<<u.id, n>>]]
  <2>1. content \in [S -> Bytes]
    BY <1>2 DEF WriteParts, Inv, TypeOK
  <2>2. content \in Contents
    BY <2>1 DEF Contents
  <2>3. WriteObject(u.bucket, u.key, content, u.tags)
    BY <1>2 DEF WriteParts
  <2> HIDE DEF content
  <2>4. u.bucket \in Buckets /\ u.key \in Keys /\ u.tags \in TagSets
    BY <1>1 DEF UploadRows
  <2> QED BY <1>2, <2>2, <2>3, <2>4, WriteKept
<1>3. ASSUME NEW S \in SUBSET PartNumbers, CompleteUpload(u, S) \/ CrashInComplete(u, S)
      PROVE  Kept
  BY <1>2, <1>3 DEF CompleteUpload, CrashInComplete
<1>4. CASE AbortUpload(u) \/ CrashInAbort(u)
  BY <1>4, OthersKept DEF AbortUpload, CrashInAbort
<1>5. ASSUME NEW n \in PartNumbers, NEW x \in Bytes, UploadPart(u, n, x)
      PROVE  Kept
  BY <1>5, OthersKept DEF UploadPart, WritePart
<1> QED BY <1>3, <1>4, <1>5 DEF UploadStep

LEMMA ResetKept ==
    ASSUME Inv, Reset
    PROVE  Kept
<1>1. objects' = {} /\ versions' = {} /\ All' = {}
  BY DEF Reset, All
<1>2. Ordered(All)' /\ H!Current(All)' = {}
  BY <1>1 DEF Ordered, H!Current
<1>3. RowsHaveBucket' /\ CurrentInObjects'
  BY <1>1, <1>2, KeptFacts
<1> QED BY <1>1, <1>2, <1>3 DEF Kept, H!Next, H!Clear, All

LEMMA NextKept == Inv /\ [Next]_vars => Kept
<1> SUFFICES ASSUME Inv, [Next]_vars PROVE Kept
  OBVIOUS
<1>1. ASSUME NEW b \in Buckets,
             \/ CreateBucket(b) \/ DeleteBucket(b)
             \/ \E status \in {"Enabled", "Suspended"} : PutVersioning(b, status)
      PROVE  Kept
  BY <1>1, BucketKept
<1>2. ASSUME NEW b \in Buckets, NEW k \in Keys, KeyStep(b, k)
      PROVE  Kept
  BY <1>2, KeyKept
<1>3. ASSUME NEW c \in Clients, ClientStep(c)
      PROVE  Kept
  BY <1>3, ClientKept
<1>4. ASSUME NEW u \in uploads, UploadStep(u)
      PROVE  Kept
  BY <1>4, UploadKept
<1>5. CASE Restart
  BY <1>5, OthersKept DEF Restart, tables
<1>6. CASE Reset
  BY <1>6, ResetKept
<1>7. CASE UNCHANGED vars
  BY <1>7, OthersKept DEF vars
<1> QED BY <1>1, <1>2, <1>3, <1>4, <1>5, <1>6, <1>7 DEF Next

LEMMA InitInv == Init => Inv /\ H!Init
<1> SUFFICES ASSUME Init PROVE Inv /\ H!Init
  OBVIOUS
<1>1. objects = {} /\ versions = {}
  BY DEF Init
<1>2. RowsHaveBucket /\ VersionsUnique /\ CountersAhead /\ UnversionedIsFlat
  BY <1>1 DEF RowsHaveBucket, VersionsUnique, CountersAhead, UnversionedIsFlat
<1>3. CurrentInObjects
  BY <1>1, <1>2 DEF CurrentInObjects, H!Current
<1> QED BY <1>1, <1>2, <1>3, InitType DEF Inv, H!Init

LEMMA Invariance == Spec => []Inv
<1>1. Inv /\ [Next]_vars => Inv'
  BY NextType, NextKept DEF Inv, Kept
<1> QED BY <1>1, InitInv, PTL DEF Spec

\* The current version of every key is in s3_objects and nothing else is: what
\* the comment of schema.rs says of the tables, for any number of buckets, keys,
\* versions and clients.
THEOREM Current == Spec => []CurrentInObjects
<1>1. Inv => CurrentInObjects
  BY DEF Inv
<1> QED BY <1>1, Invariance, PTL

\* No row of either table outlives its bucket (delete_bucket).
THEOREM NoOrphanRows == Spec => []RowsHaveBucket
<1>1. Inv => RowsHaveBucket
  BY DEF Inv
<1> QED BY <1>1, Invariance, PTL

\* The version tables stay sound under every operation on objects, versions, uploads and
\* buckets, and under reset.
THEOREM Sound == Spec => []TablesSound
<1>1. Inv => TablesSound
  BY DEF Inv, TablesSound
<1> QED BY <1>1, Invariance, PTL

\* The tables s3_objects and s3_object_versions, with the archiving, dropping
\* and restoring of write_object_tx, delete_object and restore_latest,
\* implement the one history of versions of S3History.
THEOREM Implements == Spec => History
<1>1. Init => H!Init
  BY InitInv
<1>2. Inv /\ [Next]_vars => [H!Next]_(H!vars)
  BY NextKept DEF Kept
<1> QED BY <1>1, <1>2, Invariance, PTL DEF Spec, History, H!Spec

-----------------------------------------------------------------------------
(* Multipart uploads *)

\* What leaves every upload its bucket and every part its upload: the uploads that go
\* take their parts along, and a bucket takes its uploads.
LEMMA PartsKept ==
    ASSUME NoOrphanParts,
           \A u \in uploads' : u.bucket \in DOMAIN buckets',
           \A p \in DOMAIN parts' :
               (p \in DOMAIN parts /\ \A u \in uploads \ uploads' : u.id # p[1])
               \/ \E u \in uploads' : u.id = p[1]
    PROVE  NoOrphanParts'
BY DEF NoOrphanParts

LEMMA UploadsStand ==
    ASSUME NoOrphanParts, uploads' = uploads, parts' = parts,
           DOMAIN buckets \subseteq DOMAIN buckets'
    PROVE  NoOrphanParts'
BY DEF NoOrphanParts

LEMMA BucketParts ==
    ASSUME TypeOK, NoOrphanParts, NEW b \in Buckets,
           \/ CreateBucket(b) \/ DeleteBucket(b)
           \/ \E status \in {"Enabled", "Suspended"} : PutVersioning(b, status)
    PROVE  NoOrphanParts'
<1>1. CASE CreateBucket(b)
  <2>1. DOMAIN buckets' = DOMAIN buckets \cup {b} /\ uploads' = uploads /\ parts' = parts
    BY <1>1 DEF CreateBucket
  <2> QED BY <2>1, UploadsStand
<1>2. CASE DeleteBucket(b)
  <2>1. DOMAIN buckets' = DOMAIN buckets \ {b} /\ uploads' = {u \in uploads : u.bucket # b}
    BY <1>2 DEF DeleteBucket, Restrict
  <2>2. DOMAIN parts' = {p \in DOMAIN parts : \A u \in uploads : u.id = p[1] => u.bucket # b}
    BY <1>2 DEF DeleteBucket, Restrict
  <2>3. \A u \in uploads' : u.bucket \in DOMAIN buckets'
    BY <2>1 DEF NoOrphanParts
  <2>4. \A p \in DOMAIN parts' : p \in DOMAIN parts /\ \A u \in uploads \ uploads' : u.id # p[1]
    BY <2>1, <2>2
  <2> QED BY <2>3, <2>4, PartsKept
<1>3. ASSUME NEW status \in {"Enabled", "Suspended"}, PutVersioning(b, status)
      PROVE  NoOrphanParts'
  <2>1. DOMAIN buckets' = DOMAIN buckets /\ uploads' = uploads /\ parts' = parts
    BY <1>3 DEF PutVersioning
  <2> QED BY <2>1, UploadsStand
<1> QED BY <1>1, <1>2, <1>3

LEMMA KeyParts ==
    ASSUME NoOrphanParts, NEW b \in Buckets, NEW k \in Keys, KeyStep(b, k)
    PROVE  NoOrphanParts'
<1>1. ASSUME NEW tags \in TagSets, CreateUpload(b, k, tags)
      PROVE  NoOrphanParts'
  <2> DEFINE new == [id |-> nextUpload, bucket |-> b, key |-> k, tags |-> tags]
  <2>1. /\ b \in DOMAIN buckets /\ new.bucket = b
        /\ uploads' = uploads \cup {new} /\ parts' = parts /\ buckets' = buckets
    BY <1>1 DEF CreateUpload
  <2> HIDE DEF new
  <2>2. \A u \in uploads' : u.bucket \in DOMAIN buckets'
    BY <2>1 DEF NoOrphanParts
  <2> QED BY <2>1, <2>2, PartsKept
<1>2. CASE uploads' = uploads /\ parts' = parts /\ buckets' = buckets
  BY <1>2, UploadsStand
<1> QED BY <1>1, <1>2 DEF KeyStep, PutObject, DeleteCurrent, DeleteVersion, SetObjectTags

\* upload_part writes to an upload that is there.
LEMMA WriteParted ==
    ASSUME NoOrphanParts, NEW u \in uploads, NEW n, NEW x, WritePart(u, n, x)
    PROVE  NoOrphanParts'
<1>1. /\ DOMAIN parts' = DOMAIN parts \cup {<<u.id, n>>}
      /\ uploads' = uploads /\ buckets' = buckets
  BY DEF WritePart
<1>2. \A p \in DOMAIN parts' : p \in DOMAIN parts \/ p[1] = u.id
  BY <1>1
<1>3. \A v \in uploads' : v.bucket \in DOMAIN buckets'
  BY <1>1 DEF NoOrphanParts
<1> QED BY <1>1, <1>2, <1>3, PartsKept

LEMMA ClientParts ==
    ASSUME NoOrphanParts, NEW c \in Clients, ClientStep(c)
    PROVE  NoOrphanParts'
<1>1. ASSUME NEW u \in uploads, NEW n \in PartNumbers, UploadPartCopy(c, u, n)
      PROVE  NoOrphanParts'
  <2>1. PICK x \in Range(reqs[c].content) : WritePart(u, n, x)
    BY <1>1 DEF UploadPartCopy
  <2> QED BY <2>1, WriteParted
<1>2. CASE uploads' = uploads /\ parts' = parts /\ buckets' = buckets
  BY <1>2, UploadsStand
<1> QED BY <1>1, <1>2
        DEF ClientStep, CheckCondition, ObjectInfo, CopyObject, CreateObject, ReadContent,
            Return, tables

\* The parts go before their upload: wherever complete_upload or abort_upload stops, no
\* part is left behind.
LEMMA CleanedUp ==
    ASSUME NoOrphanParts, NEW u \in uploads, buckets' = buckets,
           <<uploads', parts'>> \in Cleanup(u)
    PROVE  NoOrphanParts'
<1>1. DOMAIN PartsWithout(u) = {p \in DOMAIN parts : p[1] # u.id}
  BY DEF PartsWithout, Restrict
<1>2. /\ uploads' = uploads \/ (uploads' = uploads \ {u} /\ parts' = PartsWithout(u))
      /\ parts' = parts \/ parts' = PartsWithout(u)
  BY DEF Cleanup
<1>3. \A v \in uploads' : v.bucket \in DOMAIN buckets'
  BY <1>2 DEF NoOrphanParts
<1>4. \A p \in DOMAIN parts' : p \in DOMAIN parts /\ \A v \in uploads \ uploads' : v.id # p[1]
  BY <1>1, <1>2
<1> QED BY <1>3, <1>4, PartsKept

LEMMA UploadParts ==
    ASSUME NoOrphanParts, NEW u \in uploads, UploadStep(u)
    PROVE  NoOrphanParts'
<1>1. ASSUME NEW n \in PartNumbers, NEW x \in Bytes, UploadPart(u, n, x)
      PROVE  NoOrphanParts'
  BY <1>1, WriteParted DEF UploadPart
<1>2. CASE buckets' = buckets /\ <<uploads', parts'>> \in Cleanup(u)
  BY <1>2, CleanedUp
<1>3. ASSUME NEW S \in SUBSET PartNumbers, CompleteUpload(u, S)
      PROVE  NoOrphanParts'
  BY <1>2, <1>3 DEF CompleteUpload, Cleanup
<1>4. ASSUME NEW S \in SUBSET PartNumbers, CrashInComplete(u, S)
      PROVE  NoOrphanParts'
  BY <1>2, <1>4 DEF CrashInComplete, Cleanup
<1>5. CASE AbortUpload(u)
  BY <1>2, <1>5 DEF AbortUpload, Cleanup
<1>6. CASE CrashInAbort(u)
  BY <1>2, <1>6 DEF CrashInAbort, Cleanup
<1> QED BY <1>1, <1>3, <1>4, <1>5, <1>6 DEF UploadStep

\* An upload never outlives its bucket, nor a part its upload: delete_bucket takes both
\* along, and the statements of complete_upload and abort_upload come in an order that a
\* crash may cut anywhere.
THEOREM PartsHaveUpload == Spec => []NoOrphanParts
<1>1. Init => NoOrphanParts
  BY DEF Init, NoOrphanParts
<1>2. TypeOK /\ NoOrphanParts /\ [Next]_vars => NoOrphanParts'
  <2> SUFFICES ASSUME TypeOK, NoOrphanParts, [Next]_vars PROVE NoOrphanParts'
    OBVIOUS
  <2>1. ASSUME NEW b \in Buckets,
               \/ CreateBucket(b) \/ DeleteBucket(b)
               \/ \E status \in {"Enabled", "Suspended"} : PutVersioning(b, status)
        PROVE  NoOrphanParts'
    BY <2>1, BucketParts
  <2>2. ASSUME NEW b \in Buckets, NEW k \in Keys, KeyStep(b, k)
        PROVE  NoOrphanParts'
    BY <2>2, KeyParts
  <2>3. ASSUME NEW c \in Clients, ClientStep(c)
        PROVE  NoOrphanParts'
    BY <2>3, ClientParts
  <2>4. ASSUME NEW u \in uploads, UploadStep(u)
        PROVE  NoOrphanParts'
    BY <2>4, UploadParts
  <2>5. CASE Restart \/ UNCHANGED vars
    BY <2>5, UploadsStand DEF Restart, tables, vars
  <2>6. CASE Reset
    BY <2>6 DEF Reset, NoOrphanParts
  <2> QED BY <2>1, <2>2, <2>3, <2>4, <2>5, <2>6 DEF Next
<1> QED BY <1>1, <1>2, TypeCorrect, PTL DEF Spec

-----------------------------------------------------------------------------
(* Reads in two calls *)

SameVersion(r, s) == KeyIs(r, s.bucket, s.key) /\ r.vid = s.vid /\ r.seq = s.seq

\* The rows now are the rows before, but for their tags, and rows written since.
Traced ==
    /\ seq' \in Nat /\ seq <= seq'
    /\ \A r \in objects' \cup versions' :
          \/ r.seq > seq
          \/ \E o \in All : SameVersion(r, o) /\ r.content = o.content

\* What object_info read is still the content of any row with that id and that seq.
Described(r, rows, last) ==
    /\ r.seq \in Nat /\ r.seq <= last
    /\ \A o \in rows : SameVersion(o, r) => o.content = r.content

InfoInv == \A c \in Clients : reqs[c].pc = "info" => Described(reqs[c].info, All, seq)

LEMMA RowsTraced ==
    ASSUME seq \in Nat, seq' \in Nat, seq <= seq',
           \A r \in objects' \cup versions' : r \in All \/ r.seq > seq
    PROVE  Traced
BY DEF Traced, SameVersion, KeyIs

LEMMA DescribedKept ==
    ASSUME seq \in Nat, Traced, NEW r, Described(r, All, seq)
    PROVE  Described(r, All', seq')
<1>1. ASSUME NEW o \in All', SameVersion(o, r)
      PROVE  o.content = r.content
  <2>1. ~(o.seq > seq)
    BY <1>1 DEF Described, SameVersion
  <2>2. PICK p \in All : SameVersion(o, p) /\ o.content = p.content
    BY <2>1 DEF Traced, All
  <2>3. SameVersion(p, r)
    BY <1>1, <2>2 DEF SameVersion, KeyIs
  <2> QED BY <2>2, <2>3 DEF Described
<1>2. r.seq <= seq'
  BY DEF Described, Traced
<1> QED BY <1>1, <1>2 DEF Described, SameVersion, KeyIs

LEMMA SupersededRows ==
    ASSUME NEW b, NEW k
    PROVE  Superseded(b, k) \subseteq All
BY DEF Superseded, WithoutNull, Archived, Of, Dropped, All

LEMMA WriteTraced ==
    ASSUME TypeOK, NEW b, NEW k, NEW content, NEW tags, WriteObject(b, k, content, tags)
    PROVE  Traced
<1>1. seq \in Nat /\ seq' = seq + 1
  BY DEF TypeOK, WriteObject, NextSeq
<1> DEFINE new == [bucket |-> b, key |-> k, vid |-> VersionId(b), seq |-> seq + 1,
                   marker |-> FALSE, content |-> content, tags |-> tags]
<1>2. versions' \subseteq All /\ objects' \subseteq objects \cup {new}
  BY SupersededRows DEF WriteObject
<1>3. new.seq > seq
  BY <1>1
<1> HIDE DEF new
<1> QED BY <1>1, <1>2, <1>3, RowsTraced DEF All

LEMMA DeleteTraced ==
    ASSUME TypeOK, NEW b, NEW k, DeleteCurrent(b, k)
    PROVE  Traced
<1>1. seq \in Nat /\ seq' = seq + 1
  BY DEF TypeOK, DeleteCurrent, NextSeq
<1> DEFINE new == [bucket |-> b, key |-> k, vid |-> VersionId(b), seq |-> seq + 1,
                   marker |-> TRUE, content |-> NoContent, tags |-> NoTags]
<1>2. versions' \subseteq All \cup {new} /\ objects' \subseteq objects
  BY SupersededRows DEF DeleteCurrent, All
<1>3. new.seq > seq
  BY <1>1
<1> HIDE DEF new
<1> QED BY <1>1, <1>2, <1>3, RowsTraced DEF All

LEMMA DeleteVersionTraced ==
    ASSUME TypeOK, NEW b, NEW k, NEW vid, DeleteVersion(b, k, vid)
    PROVE  Traced
<1>1. seq \in Nat /\ seq' = seq + 1
  BY DEF TypeOK, DeleteVersion, NextSeq
<1>2. ASSUME NEW objs, NEW vers
      PROVE  /\ Restored(objs, vers, b, k).objects \subseteq objs \cup vers
             /\ Restored(objs, vers, b, k).versions \subseteq objs \cup vers
  BY DEF Restored, Archived, Newest, Of
<1> DEFINE cur == {o \in Of(objects, b, k) : o.vid = vid}
           old == {v \in Of(versions, b, k) : v.vid = vid}
           kept == IF cur = {} THEN versions \ old ELSE versions
           left == Restored(objects \ cur, kept, b, k)
<1>3. \/ objects' = objects /\ versions' = versions
      \/ objects' = left.objects /\ versions' = left.versions
  BY DEF DeleteVersion
<1>4. left.objects \subseteq All /\ left.versions \subseteq All
  <2>1. (objects \ cur) \cup kept \subseteq All
    BY DEF All
  <2> HIDE DEF cur, kept
  <2> QED BY <2>1, <1>2
<1> HIDE DEF left
<1> QED BY <1>1, <1>3, <1>4, RowsTraced DEF All

LEMMA TagsTraced ==
    ASSUME TypeOK, NEW b, NEW k, NEW vid, NEW tags, SetObjectTags(b, k, vid, tags)
    PROVE  Traced
<1>1. PICK info \in Resolved(b, k, vid) :
        LET Tagged(rows) == {IF KeyIs(r, b, k) /\ r.vid = info.vid /\ r.seq = info.seq
                             THEN [r EXCEPT !.tags = tags] ELSE r : r \in rows}
        IN  objects' = Tagged(objects) /\ versions' = Tagged(versions)
  BY DEF SetObjectTags
<1>2. ASSUME NEW r \in objects' \cup versions'
      PROVE  \E o \in All : SameVersion(r, o) /\ r.content = o.content
  <2>1. PICK o \in All : r = o \/ r = [o EXCEPT !.tags = tags]
    BY <1>1, <1>2 DEF All
  <2>2. o \in Rows
    BY DEF TypeOK, All
  <2>3. /\ r.bucket = o.bucket /\ r.key = o.key /\ r.vid = o.vid /\ r.seq = o.seq
        /\ r.content = o.content
    BY <2>1, <2>2 DEF Rows
  <2> QED BY <2>3 DEF SameVersion, KeyIs
<1>3. seq \in Nat /\ seq' = seq
  BY DEF TypeOK, SetObjectTags
<1> QED BY <1>2, <1>3 DEF Traced

LEMMA StandTraced ==
    ASSUME TypeOK, objects' \subseteq objects, versions' \subseteq versions, seq' = seq
    PROVE  Traced
BY RowsTraced DEF TypeOK, All

\* Only reset takes the numbers of the versions back.
LEMMA NextTraced ==
    ASSUME TypeOK, Next, ~Reset
    PROVE  Traced
<1>1. CASE objects' = objects /\ versions' = versions /\ seq' = seq
  BY <1>1, StandTraced
<1>2. ASSUME NEW b, NEW k, NEW content, NEW tags, WriteObject(b, k, content, tags)
      PROVE  Traced
  BY <1>2, WriteTraced
<1>3. ASSUME NEW b \in Buckets, NEW k \in Keys, KeyStep(b, k)
      PROVE  Traced
  <2>1. ASSUME NEW x \in Bytes, NEW tags \in TagSets, PutObject(b, k, x, tags)
        PROVE  Traced
    BY <1>2, <2>1 DEF PutObject
  <2>2. ASSUME NEW tags \in TagSets, CreateUpload(b, k, tags)
        PROVE  Traced
    BY <1>1, <2>2 DEF CreateUpload
  <2> QED BY <1>3, <2>1, <2>2, DeleteTraced, DeleteVersionTraced, TagsTraced DEF KeyStep
<1>4. ASSUME NEW c \in Clients, ClientStep(c)
      PROVE  Traced
  <2>1. ASSUME NEW b \in Buckets, NEW k \in Keys, CopyObject(c, b, k)
        PROVE  Traced
    BY <1>1, <1>2, <2>1 DEF CopyObject
  <2>2. ASSUME NEW x \in Bytes, CreateObject(c, x)
        PROVE  Traced
    BY <1>1, <1>2, <2>2 DEF CreateObject
  <2>3. CASE \E u \in uploads, n \in PartNumbers : UploadPartCopy(c, u, n)
    BY <1>1, <2>3 DEF UploadPartCopy, WritePart
  <2>4. CASE ReadContent(c) \/ Return(c)
    BY <1>1, <2>4 DEF ReadContent, Return, tables
  <2>5. ASSUME NEW b \in Buckets, NEW k \in Keys,
               CheckCondition(c, b, k) \/ \E vid \in VersionIds \cup {None} : ObjectInfo(c, b, k, vid)
        PROVE  Traced
    BY <1>1, <2>5 DEF CheckCondition, ObjectInfo, tables
  <2> QED BY <1>4, <2>1, <2>2, <2>3, <2>4, <2>5 DEF ClientStep
<1>5. ASSUME NEW u \in uploads, UploadStep(u)
      PROVE  Traced
  <2>1. ASSUME NEW S \in SUBSET PartNumbers, CompleteUpload(u, S) \/ CrashInComplete(u, S)
        PROVE  Traced
    BY <1>2, <2>1 DEF CompleteUpload, CrashInComplete, WriteParts
  <2>2. ASSUME NEW n \in PartNumbers, NEW x \in Bytes, UploadPart(u, n, x)
        PROVE  Traced
    BY <1>1, <2>2 DEF UploadPart, WritePart
  <2>3. CASE AbortUpload(u) \/ CrashInAbort(u)
    BY <1>1, <2>3 DEF AbortUpload, CrashInAbort
  <2> QED BY <1>5, <2>1, <2>2, <2>3 DEF UploadStep
<1>6. ASSUME NEW b \in Buckets,
             \/ CreateBucket(b) \/ DeleteBucket(b)
             \/ \E status \in {"Enabled", "Suspended"} : PutVersioning(b, status)
      PROVE  Traced
  BY <1>1, <1>6 DEF CreateBucket, DeleteBucket, PutVersioning
<1>7. CASE Restart
  BY <1>1, <1>7 DEF Restart, tables
<1> QED BY <1>3, <1>4, <1>5, <1>6, <1>7 DEF Next

\* How the request of client c goes on, as far as its read is concerned.
ReadMove(c) ==
    \/ reqs'[c] = reqs[c]
    \/ reqs'[c].pc \notin {"info", "read"}
    \/ reqs'[c].pc = "info" /\ reqs'[c].info \in All /\ UNCHANGED <<objects, versions, seq>>
    \/ /\ reqs[c].pc = "info" /\ reqs'[c].pc = "read" /\ reqs'[c].info = reqs[c].info
       /\ \E r \in All : SameVersion(r, reqs[c].info) /\ reqs'[c].content = r.content

LEMMA OthersMove ==
    ASSUME NEW c \in Clients, NEW r, reqs \in [Clients -> Requests],
           reqs' = [reqs EXCEPT ![c] = r],
           r.pc \notin {"info", "read"} \/ ReadMove(c)
    PROVE  \A d \in Clients : ReadMove(d)
BY DEF ReadMove

LEMMA ClientMove ==
    ASSUME Inv, NEW c \in Clients, ClientStep(c)
    PROVE  \A d \in Clients : ReadMove(d)
<1>1. reqs \in [Clients -> Requests]
  BY DEF Inv, TypeOK
<1>2. ASSUME Answer(c)
      PROVE  \A d \in Clients : ReadMove(d)
  <2>1. Idle.pc \notin {"info", "read"}
    BY DEF Idle
  <2> QED BY <1>1, <1>2, <2>1, OthersMove DEF Answer
<1>3. ASSUME NEW b \in Buckets, NEW k \in Keys, CheckCondition(c, b, k)
      PROVE  \A d \in Clients : ReadMove(d)
  <2>1. PICK etag : reqs' = [reqs EXCEPT ![c] = [pc |-> "create", bucket |-> b, key |-> k,
                                                 etag |-> etag]]
    BY <1>3 DEF CheckCondition
  <2> QED BY <1>1, <2>1, OthersMove
<1>4. ASSUME NEW b \in Buckets, NEW k \in Keys, NEW vid \in VersionIds \cup {None},
             ObjectInfo(c, b, k, vid)
      PROVE  \A d \in Clients : ReadMove(d)
  <2>1. CASE Answer(c)
    BY <1>2, <2>1
  <2>2. ASSUME NEW r \in Resolved(b, k, vid), NEW try,
               reqs' = [reqs EXCEPT ![c] = [pc |-> "info", bucket |-> b, key |-> k,
                                            vid |-> vid, info |-> r, try |-> try + 1]]
        PROVE  \A d \in Clients : ReadMove(d)
    <3>1. r \in All
      BY DEF Resolved, FirstOf, Of, All
    <3>2. UNCHANGED <<objects, versions, seq>>
      BY <1>4 DEF ObjectInfo, tables
    <3>3. reqs'[c].pc = "info" /\ reqs'[c].info = r
      BY <1>1, <2>2
    <3>4. ReadMove(c)
      BY <3>1, <3>2, <3>3 DEF ReadMove
    <3> QED BY <1>1, <2>2, <3>4, OthersMove
  <2> QED BY <1>4, <2>1, <2>2 DEF ObjectInfo
<1>5. CASE ReadContent(c)
  <2>1. ASSUME NEW r \in Found(reqs[c].info),
               reqs' = [reqs EXCEPT ![c] = [pc |-> "read", info |-> reqs[c].info,
                                            content |-> r.content]]
        PROVE  \A d \in Clients : ReadMove(d)
    <3>1. r \in All /\ SameVersion(r, reqs[c].info)
      BY DEF Found, FirstOf, Of, All, SameVersion, KeyIs
    <3>2. reqs[c].pc = "info"
      BY <1>5 DEF ReadContent
    <3>3. reqs'[c].pc = "read" /\ reqs'[c].info = reqs[c].info /\ reqs'[c].content = r.content
      BY <1>1, <2>1
    <3>4. ReadMove(c)
      BY <3>1, <3>2, <3>3 DEF ReadMove
    <3> QED BY <1>1, <2>1, <3>4, OthersMove
  <2>2. ASSUME reqs' = [reqs EXCEPT ![c] =
                  [pc |-> "retry", bucket |-> reqs[c].bucket, key |-> reqs[c].key,
                   vid |-> reqs[c].vid, try |-> reqs[c].try]]
        PROVE  \A d \in Clients : ReadMove(d)
    BY <1>1, <2>2, OthersMove
  <2> QED BY <1>5, <2>1, <2>2 DEF ReadContent
<1>6. CASE Return(c) \/ (\E b \in Buckets, k \in Keys : CopyObject(c, b, k))
           \/ (\E x \in Bytes : CreateObject(c, x))
           \/ (\E u \in uploads, n \in PartNumbers : UploadPartCopy(c, u, n))
  BY <1>2, <1>6 DEF Return, CopyObject, CreateObject, UploadPartCopy
<1> QED BY <1>3, <1>4, <1>5, <1>6 DEF ClientStep

LEMMA NextMove ==
    ASSUME Inv, Next
    PROVE  \A d \in Clients : ReadMove(d)
<1>1. CASE reqs' = reqs
  BY <1>1 DEF ReadMove
<1>2. CASE Crashed
  BY <1>2 DEF Crashed, ReadMove, Idle
<1>3. CASE \E c \in Clients : ClientStep(c)
  BY <1>3, ClientMove
<1>4. ASSUME NEW b \in Buckets, NEW k \in Keys, KeyStep(b, k)
      PROVE  reqs' = reqs
  BY <1>4 DEF KeyStep, PutObject, DeleteCurrent, DeleteVersion, SetObjectTags, CreateUpload
<1>5. ASSUME NEW u \in uploads, UploadStep(u)
      PROVE  reqs' = reqs \/ Crashed
  BY <1>5 DEF UploadStep, UploadPart, CompleteUpload, AbortUpload, CrashInComplete, CrashInAbort
<1>6. ASSUME NEW b \in Buckets,
             \/ CreateBucket(b) \/ DeleteBucket(b)
             \/ \E status \in {"Enabled", "Suspended"} : PutVersioning(b, status)
      PROVE  reqs' = reqs
  BY <1>6 DEF CreateBucket, DeleteBucket, PutVersioning
<1>7. CASE Restart \/ Reset
  BY <1>1, <1>2, <1>7 DEF Restart, Reset
<1> QED BY <1>1, <1>2, <1>3, <1>4, <1>5, <1>6, <1>7 DEF Next

LEMMA ReadKept ==
    ASSUME Inv, Traced, InfoInv, ReadMatchesInfo, \A d \in Clients : ReadMove(d)
    PROVE  InfoInv' /\ ReadMatchesInfo'
<1>1. seq \in Nat /\ \A r \in All : r.seq \in Nat /\ r.seq <= seq
  BY DEF Inv, TypeOK, Rows, CurrentInObjects, CountersAhead, All
<1>2. \A r, s \in All : SameVersion(r, s) => r = s
  BY DEF Inv, CurrentInObjects, VersionsUnique, H!SameKey, SameVersion, KeyIs, All
<1>3. \A r \in All : Described(r, All, seq)
  BY <1>1, <1>2 DEF Described
<1>4. ASSUME NEW c \in Clients, reqs'[c].pc = "info"
      PROVE  Described(reqs'[c].info, All', seq')
  <2> DEFINE i == reqs'[c].info
  <2>1. CASE reqs'[c] = reqs[c]
    <3>1. Described(i, All, seq)
      BY <1>4, <2>1 DEF InfoInv
    <3> QED BY <1>1, <3>1, DescribedKept
  <2>2. CASE reqs'[c].info \in All
    <3>1. Described(i, All, seq)
      BY <2>2, <1>3
    <3> QED BY <1>1, <3>1, DescribedKept
  <2> QED BY <1>4, <2>1, <2>2 DEF ReadMove
<1>5. InfoInv'
  BY <1>4 DEF InfoInv
<1>6. ReadMatchesInfo'
  BY DEF ReadMatchesInfo, ReadMove, InfoInv, Described
<1> QED BY <1>5, <1>6

\* GetObject, CopyObject and UploadPartCopy: while nobody resets the server, the content
\* that read_content finds in the second call is that of the version object_info described
\* in the first: the id "null" is used again, the number of the write is not.
THEOREM ReadsMatch == "reset" \notin Operations => (Spec => []ReadMatchesInfo)
<1>1. Init => InfoInv /\ ReadMatchesInfo
  BY DEF Init, InfoInv, ReadMatchesInfo, Idle
<1> SUFFICES ASSUME "reset" \notin Operations PROVE Spec => []ReadMatchesInfo
  OBVIOUS
<1>2. Inv /\ InfoInv /\ ReadMatchesInfo /\ [Next]_vars => InfoInv' /\ ReadMatchesInfo'
  <2> SUFFICES ASSUME Inv, InfoInv, ReadMatchesInfo, [Next]_vars
               PROVE  InfoInv' /\ ReadMatchesInfo'
    OBVIOUS
  <2>1. TypeOK
    BY DEF Inv
  <2>2. CASE Next
    <3>1. ~Reset
      BY DEF Reset
    <3> QED BY <2>1, <2>2, <3>1, NextTraced, NextMove, ReadKept
  <2>3. CASE UNCHANGED vars
    <3>1. Traced
      BY <2>1, <2>3, StandTraced DEF vars
    <3>2. \A d \in Clients : ReadMove(d)
      BY <2>3 DEF ReadMove, vars
    <3> QED BY <3>1, <3>2, ReadKept
  <2> QED BY <2>2, <2>3
<1> QED BY <1>1, <1>2, Invariance, PTL DEF Spec
====
