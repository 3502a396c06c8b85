-------------------------------- MODULE Gcs --------------------------------
(***************************************************************************)
(* The Cloud Storage emulation: src/src/gcp/storage/service.rs, whose      *)
(* operations are one closure each, and the upload handlers of handlers.rs *)
(* with the sessions of resumable uploads, which live in memory behind a   *)
(* mutex.  The chunks of a session may be lost, repeated, delayed and      *)
(* reordered on their way.                                                 *)
(***************************************************************************)
EXTENDS Integers, Sequences, FiniteSets, Functions, ServiceConstants

CONSTANTS
    Buckets, Objects,   \* names
    Uploads,            \* ids of uploads, each used once
    UploadLength,       \* bytes of an upload
    MaxUploads          \* bound of the generations a request names

ASSUME GcsConstants ==
    /\ UploadLength \in Nat \ {0} /\ MaxUploads \in Nat
    /\ None \notin Nat /\ None \notin Nat \X Nat

VARIABLES
    gcsBuckets,    \* table gcs_buckets
    gcsObjects,    \* table gcs_objects: <<bucket, name>> -> row
    gcsSessions,   \* SESSIONS: id -> ResumableSession
    gcsStoring,    \* uploads that are complete and not stored yet
    gcsClock,      \* the created_at the next upload takes, in microseconds
    gcsStarted,    \* history: ids of sessions ever started
    gcsStored      \* history: ids in the order in which their objects were stored

gcsVars == <<gcsBuckets, gcsObjects, gcsSessions, gcsStoring, gcsClock, gcsStarted, gcsStored>>

\* The bytes that the client of session s means to upload.
Whole(s) == [i \in 1..UploadLength |-> <<s, i>>]

\* A created_at is also the generation; patched stands for the properties.
GcsRows == [content : Seq(Uploads \X Nat), created_at : Nat, patched : BOOLEAN]

Wants == {None, 0} \cup 1..MaxUploads

-----------------------------------------------------------------------------
(* Buckets and objects *)

CreateBucket(b) ==
    /\ b \notin gcsBuckets
    /\ gcsBuckets' = gcsBuckets \cup {b}
    /\ UNCHANGED <<gcsObjects, gcsSessions, gcsStoring, gcsClock, gcsStarted, gcsStored>>

\* Mutant: the bucket goes with objects in it.
BucketGone(b) == b \in gcsBuckets

BucketDeletable(b) == b \in gcsBuckets /\ ~\E o \in DOMAIN gcsObjects : o[1] = b

DeleteBucket(b) ==
    /\ BucketDeletable(b)
    /\ gcsBuckets' = gcsBuckets \ {b}
    /\ UNCHANGED <<gcsObjects, gcsSessions, gcsStoring, gcsClock, gcsStarted, gcsStored>>

\* check_generation: 0 means that there must be no object.
CheckGeneration(o, want) ==
    \/ want = None
    \/ want = 0 /\ o \notin DOMAIN gcsObjects
    \/ o \in DOMAIN gcsObjects /\ gcsObjects[o].created_at = want

\* The closure of upload_object.  A refused upload is gone: the session was removed
\* when it was complete.
StoreObject(u) ==
    /\ u \in gcsStoring
    /\ gcsStoring' = gcsStoring \ {u}
    /\ IF u.object[1] \in gcsBuckets /\ CheckGeneration(u.object, u.want)
       THEN /\ gcsObjects' = [o \in DOMAIN gcsObjects \cup {u.object} |->
                  IF o = u.object
                  THEN [content |-> u.data, created_at |-> u.created_at, patched |-> FALSE]
                  ELSE gcsObjects[o]]
            /\ gcsStored' = Append(gcsStored, u.id)
       ELSE UNCHANGED <<gcsObjects, gcsStored>>
    /\ UNCHANGED <<gcsBuckets, gcsSessions, gcsClock, gcsStarted>>

PatchObject(o) ==
    /\ o \in DOMAIN gcsObjects /\ o[1] \in gcsBuckets
    /\ gcsObjects' = [gcsObjects EXCEPT ![o] =
          [content |-> @.content, created_at |-> @.created_at, patched |-> TRUE]]
    /\ UNCHANGED <<gcsBuckets, gcsSessions, gcsStoring, gcsClock, gcsStarted, gcsStored>>

DeleteObject(o, want) ==
    /\ o \in DOMAIN gcsObjects /\ o[1] \in gcsBuckets
    /\ CheckGeneration(o, want)
    /\ gcsObjects' = Restrict(gcsObjects, DOMAIN gcsObjects \ {o})
    /\ UNCHANGED <<gcsBuckets, gcsSessions, gcsStoring, gcsClock, gcsStarted, gcsStored>>

-----------------------------------------------------------------------------
(* Uploads *)

\* created_at is taken before the closure is queued.  Two uploads within one
\* microsecond are not modelled.
Storing(s, o, want, data) ==
    [id |-> s, object |-> o, want |-> want, data |-> data, created_at |-> gcsClock]

\* uploadType=media and multipart: the object arrives in one request.
UploadObject(s, o, want) ==
    /\ s \notin gcsStarted
    /\ gcsStarted' = gcsStarted \cup {s}
    /\ gcsStoring' = gcsStoring \cup {Storing(s, o, want, Whole(s))}
    /\ gcsClock' = gcsClock + 1
    /\ UNCHANGED <<gcsBuckets, gcsObjects, gcsSessions, gcsStored>>

StartResumable(s, o, want) ==
    /\ s \notin gcsStarted
    /\ o[1] \in gcsBuckets
    /\ gcsStarted' = gcsStarted \cup {s}
    /\ gcsSessions' = [x \in DOMAIN gcsSessions \cup {s} |->
          IF x = s THEN [object |-> o, want |-> want, data |-> <<>>] ELSE gcsSessions[x]]
    /\ UNCHANGED <<gcsBuckets, gcsObjects, gcsStoring, gcsClock, gcsStored>>

\* Mutant: the chunk is appended to what there is.
AppendChunk(data, start, chunk) == data \o chunk

\* The data is cut to the chunk's start, which may be an earlier one sent again.
AddChunk(data, start, chunk) == SubSeq(data, 1, start) \o chunk

\* Mutant: the session stays until the object is stored.
KeptSessions(s) == gcsSessions

WithoutSession(s) == Restrict(gcsSessions, DOMAIN gcsSessions \ {s})

\* The critical section of resumable_put: the session either keeps the data or, once
\* the data is complete, is removed.
Received(s, data, complete) ==
    /\ IF complete
       THEN /\ gcsSessions' = WithoutSession(s)
            /\ gcsStoring' = gcsStoring \cup
                 {Storing(s, gcsSessions[s].object, gcsSessions[s].want, data)}
            /\ gcsClock' = gcsClock + 1
       ELSE /\ gcsSessions' = [gcsSessions EXCEPT ![s].data = data]
            /\ UNCHANGED <<gcsStoring, gcsClock>>
    /\ UNCHANGED <<gcsBuckets, gcsObjects, gcsStarted, gcsStored>>

\* A request without Content-Range carries the whole object.
PutWhole(s) ==
    /\ s \in DOMAIN gcsSessions
    /\ Received(s, Whole(s), TRUE)

\* Bytes start+1 to end of the object, with its size when the client gives it.  Which
\* chunks come, how often and in which order is up to the network.
PutChunk(s, start, end, total) ==
    /\ s \in DOMAIN gcsSessions
    /\ start <= Len(gcsSessions[s].data)
    /\ LET data == AddChunk(gcsSessions[s].data, start, SubSeq(Whole(s), start + 1, end))
       IN  Received(s, data, total # None /\ Len(data) >= total)

\* bytes */total asks how much was received.
PutStatus(s, total) ==
    /\ s \in DOMAIN gcsSessions
    /\ Received(s, gcsSessions[s].data, total # None /\ Len(gcsSessions[s].data) >= total)

ResumableCancel(s) ==
    /\ s \in DOMAIN gcsSessions
    /\ gcsSessions' = Restrict(gcsSessions, DOMAIN gcsSessions \ {s})
    /\ UNCHANGED <<gcsBuckets, gcsObjects, gcsStoring, gcsClock, gcsStarted, gcsStored>>

\* The process stops: the sessions are lost, and what was not stored yet.
CrashStorage ==
    /\ gcsSessions # <<>> \/ gcsStoring # {}
    /\ gcsSessions' = <<>> /\ gcsStoring' = {}
    /\ UNCHANGED <<gcsBuckets, gcsObjects, gcsClock, gcsStarted, gcsStored>>

\* /_cloudtwin/reset clears the tables; the sessions are in memory and stay.
ResetStorage ==
    /\ gcsBuckets # {}
    /\ gcsBuckets' = {} /\ gcsObjects' = <<>>
    /\ UNCHANGED <<gcsSessions, gcsStoring, gcsClock, gcsStarted, gcsStored>>

GcsInit ==
    /\ gcsBuckets = {} /\ gcsObjects = <<>> /\ gcsSessions = <<>> /\ gcsStoring = {}
    /\ gcsClock = 1 /\ gcsStarted = {} /\ gcsStored = <<>>

GcsNext ==
    \/ \E b \in Buckets : CreateBucket(b) \/ DeleteBucket(b)
    \/ \E u \in gcsStoring : StoreObject(u)
    \/ \E o \in Buckets \X Objects :
          \/ PatchObject(o)
          \/ \E want \in Wants :
                \/ DeleteObject(o, want)
                \/ \E s \in Uploads : UploadObject(s, o, want) \/ StartResumable(s, o, want)
    \/ \E s \in Uploads :
          \/ PutWhole(s) \/ ResumableCancel(s)
          \/ \E total \in {None, UploadLength} :
                \/ PutStatus(s, total)
                \/ \E start \in 0..UploadLength : \E end \in start..UploadLength :
                      PutChunk(s, start, end, total)
    \/ CrashStorage \/ ResetStorage

GcsSpec == GcsInit /\ [][GcsNext]_gcsVars

-----------------------------------------------------------------------------
(* Range requests: parse_range for "a-b", "a-" and "-b" of len bytes; the    *)
(* bytes that are served, None for 416.                                      *)

\* Mutant: the end is cut at the length.
ByteRangePast(a, b, len) ==
    IF a = None THEN IF b = 0 \/ len = 0 THEN None ELSE <<IF b > len THEN 0 ELSE len - b, len - 1>>
    ELSE LET end == IF b = None \/ b > len THEN len ELSE b
         IN  IF a >= len \/ end < a THEN None ELSE <<a, end>>

ByteRange(a, b, len) ==
    LET top == IF len = 0 THEN 0 ELSE len - 1 IN
    IF a = None THEN IF b = 0 \/ len = 0 THEN None ELSE <<IF b > len THEN 0 ELSE len - b, top>>
    ELSE LET end == IF b = None \/ b > top THEN top ELSE b
         IN  IF a >= len \/ end < a THEN None ELSE <<a, end>>

\* What the request asks for, of the positions there are.
Asked(a, b, len) ==
    {i \in 0..(len - 1) : IF a = None THEN i >= len - b ELSE a <= i /\ (b = None \/ i <= b)}

-----------------------------------------------------------------------------
(* Properties *)

\* An object holds every byte of one upload, in order, whatever chunks of its session
\* were repeated, delayed or lost, and whoever asked for the status meanwhile.
ObjectsWhole ==
    \A o \in DOMAIN gcsObjects : \E s \in Uploads : gcsObjects[o].content = Whole(s)

\* A session is stored once at most: a repeated last chunk finds no session.
StoredOnce ==
    \A i, j \in DOMAIN gcsStored : gcsStored[i] = gcsStored[j] => i = j

\* No object without a bucket, though uploads outlive the bucket they began with.
ObjectsHaveBucket == \A o \in DOMAIN gcsObjects : o[1] \in gcsBuckets

\* A range request is served the bytes it asks for, and 416 when there are none: for
\* empty objects, suffixes longer than the object and ends beyond it.
RangesExact ==
    \A len \in 0..UploadLength : \A a, b \in 0..(UploadLength + 1) \cup {None} :
        (a # None \/ b # None) =>
        LET r == ByteRange(a, b, len) IN
        Asked(a, b, len) = IF r = None THEN {} ELSE r[1]..r[2]
=============================================================================
