---------------------------- MODULE StoresProofs ----------------------------
(***************************************************************************)
(* Theorems about the stores: Azure Blob Storage and Secrets Manager,      *)
(* Cloud Storage, DynamoDB, the paged listings and the Bedrock simulation, *)
(* for every number of clients, names, bytes, entries and requests.        *)
(***************************************************************************)
EXTENDS MCStores, FiniteSetTheorems, SequenceTheorems, TLAPS

-----------------------------------------------------------------------------
(* Azure Blob Storage and Secrets Manager *)

\* History follows the tables: only what is there has a first writer, and a secret that
\* is there has one creator.
BlobInv ==
    /\ DOMAIN firstBlob \subseteq DOMAIN blobs
    /\ BlobsHaveContainer
    /\ DOMAIN firstSecret = DOMAIN secrets
    /\ \A n \in DOMAIN firstSecret : \E c \in BlobClients : firstSecret[n] = {c}

LEMMA BlobInvInit == BlobInit => BlobInv
BY DEF BlobInit, BlobInv, BlobsHaveContainer

LEMMA BlobInvNext == BlobInv /\ [BlobNext]_blobVars => BlobInv' /\ [FirstWriterStays]_blobVars
<1> SUFFICES ASSUME BlobInv, [BlobNext]_blobVars PROVE BlobInv' /\ [FirstWriterStays]_blobVars
  OBVIOUS
<1>1. CASE ResetBlobs
  BY <1>1 DEF ResetBlobs, BlobInv, BlobsHaveContainer, FirstWriterStays, sm
<1>2. ASSUME NEW n \in Containers, DeleteContainer(n) PROVE BlobInv' /\ FirstWriterStays
  BY <1>2 DEF DeleteContainer, BlobInv, BlobsHaveContainer, FirstWriterStays, BlobsNotIn,
              Restrict, sm
<1>3. ASSUME NEW n \in Containers, NEW c \in BlobClients, CreateContainer(c, n)
      PROVE  BlobInv' /\ FirstWriterStays
  BY <1>3 DEF CreateContainer, BlobInv, BlobsHaveContainer, FirstWriterStays, sm
<1>4. ASSUME NEW c \in BlobClients, ContainerCreated(c) PROVE BlobInv' /\ FirstWriterStays
  BY <1>4 DEF ContainerCreated, BlobInv, BlobsHaveContainer, FirstWriterStays, azure, sm
<1>5. ASSUME NEW b \in Containers \X BlobNames, DeleteBlob(b) PROVE BlobInv' /\ FirstWriterStays
  BY <1>5 DEF DeleteBlob, BlobInv, BlobsHaveContainer, FirstWriterStays, Restrict, sm
<1>6. ASSUME NEW b \in Containers \X BlobNames, NEW c \in BlobClients, NEW absent \in BOOLEAN,
             PutBlob(c, b, absent)
      PROVE  BlobInv' /\ FirstWriterStays
  <2>1. /\ b[1] \in containers /\ containers' = containers
        /\ absent => b \notin DOMAIN blobs
        /\ DOMAIN blobs' = DOMAIN blobs \cup {b}
        /\ UNCHANGED <<secrets, firstSecret>>
    BY <1>6 DEF PutBlob, Storable, Put, sm
  <2>2. CASE absent
    <3>1. /\ DOMAIN firstBlob' = DOMAIN firstBlob \cup {b} /\ b \notin DOMAIN firstBlob
          /\ \A x \in DOMAIN firstBlob : x # b => firstBlob'[x] = firstBlob[x]
      BY <1>6, <2>1, <2>2 DEF PutBlob, Put, BlobInv
    <3> QED
      BY <2>1, <3>1 DEF BlobInv, BlobsHaveContainer, FirstWriterStays
  <2>3. CASE ~absent
    <3>1. firstBlob' = Restrict(firstBlob, DOMAIN firstBlob \ {b})
      BY <1>6, <2>3 DEF PutBlob
    <3> QED
      BY <2>1, <3>1 DEF BlobInv, BlobsHaveContainer, FirstWriterStays, Restrict
  <2> QED
    BY <2>2, <2>3
<1>7. ASSUME NEW c \in BlobClients, InsertSecret(c) PROVE BlobInv' /\ FirstWriterStays
  <2> DEFINE n == blobReq[c].name
  <2>1. UNCHANGED <<containers, blobs, firstBlob>>
    BY <1>7 DEF InsertSecret, azure
  <2>2. CASE n \in DOMAIN secrets
    BY <1>7, <2>1, <2>2 DEF InsertSecret, SecretAbsent, BlobInv, BlobsHaveContainer,
                            FirstWriterStays, sm
  <2>3. CASE n \notin DOMAIN secrets
    <3>1. /\ secrets' = Put(secrets, n, c)
          /\ firstSecret' = Put(firstSecret, n, {c})
      BY <1>7, <2>3 DEF InsertSecret, SecretAbsent, BlobInv
    <3> QED
      BY <2>1, <2>3, <3>1 DEF BlobInv, BlobsHaveContainer, FirstWriterStays, Put
  <2> QED
    BY <2>2, <2>3
<1>8. ASSUME NEW c \in BlobClients, NEW n \in SecretNames,
             SecretCreated(c) \/ CreateSecret(c, n) \/ PutSecretValue(c, n)
      PROVE  BlobInv' /\ FirstWriterStays
  BY <1>8 DEF SecretCreated, CreateSecret, PutSecretValue, BlobInv, BlobsHaveContainer,
              FirstWriterStays, azure, sm
<1>9. ASSUME NEW c \in BlobClients, SecretCreated(c) PROVE BlobInv' /\ FirstWriterStays
  BY <1>9 DEF SecretCreated, BlobInv, BlobsHaveContainer, FirstWriterStays, azure, sm
<1>10. ASSUME NEW n \in SecretNames, DeleteSecret(n) PROVE BlobInv' /\ FirstWriterStays
  BY <1>10 DEF DeleteSecret, BlobInv, BlobsHaveContainer, FirstWriterStays, Restrict, azure
<1>11. CASE ResetSecrets
  BY <1>11 DEF ResetSecrets, BlobInv, BlobsHaveContainer, FirstWriterStays, azure
<1>12. CASE UNCHANGED blobVars
  BY <1>12 DEF blobVars, BlobInv, BlobsHaveContainer
<1> QED
  BY <1>1, <1>2, <1>3, <1>4, <1>5, <1>6, <1>7, <1>8, <1>9, <1>10, <1>11, <1>12
     DEF BlobNext, BlobRequest, SecretRequest

\* Create-if-absent has one winner: put_blob decides and writes in one transaction, and the
\* primary key of secrets refuses the second INSERT of two create_secret calls that both
\* found the name free; delete_container takes the container's blobs along.
THEOREM OneWinner == BlobSpec => CreatedIfAbsent
<1>1. BlobInv /\ [BlobNext]_blobVars => BlobInv'
  BY BlobInvNext
<1>2. BlobInv /\ [BlobNext]_blobVars
      => [FirstWriterStays /\ OneCreator' /\ BlobsHaveContainer']_blobVars
  <2>1. BlobInv' => OneCreator' /\ BlobsHaveContainer'
    BY FS_Singleton DEF BlobInv, OneCreator
  <2> QED
    BY <2>1, BlobInvNext
<1> QED
  BY <1>1, <1>2, BlobInvInit, PTL DEF BlobSpec, CreatedIfAbsent

-----------------------------------------------------------------------------
(* Cloud Storage *)

\* The first n bytes of the upload s.
FirstBytes(s, n) == [i \in 1..n |-> <<s, i>>]

\* What a session has received is the beginning of its upload; an upload that waits to be
\* stored is whole, has left its session, and was not stored before.
GcsInv ==
    /\ ObjectsHaveBucket
    /\ ObjectsWhole
    /\ gcsStarted \subseteq Uploads
    /\ DOMAIN gcsSessions \subseteq gcsStarted
    /\ \A s \in DOMAIN gcsSessions : \E n \in 0..UploadLength :
          gcsSessions[s].data = FirstBytes(s, n)
    /\ \A u \in gcsStoring : u.id \in gcsStarted /\ u.data = Whole(u.id)
                             /\ u.id \notin DOMAIN gcsSessions
    /\ \A u, v \in gcsStoring : u.id = v.id => u = v
    /\ gcsStored \in Seq(gcsStarted)
    /\ \A i \in DOMAIN gcsStored : /\ gcsStored[i] \notin DOMAIN gcsSessions
                                   /\ \A u \in gcsStoring : u.id # gcsStored[i]
    /\ StoredOnce

LEMMA BytesFacts ==
    ASSUME NEW s, NEW n \in Nat
    PROVE  /\ FirstBytes(s, n) \in Seq({s} \X Nat)
           /\ Len(FirstBytes(s, n)) = n
           /\ \A i \in 1..n : FirstBytes(s, n)[i] = <<s, i>>
<1>1. \A i \in 1..n : <<s, i>> \in {s} \X Nat
  OBVIOUS
<1> QED
  BY <1>1 DEF FirstBytes

LEMMA ChunkFacts ==
    ASSUME NEW s, NEW n \in 0..UploadLength, NEW start \in 0..n, NEW end \in start..UploadLength
    PROVE  AddChunk(FirstBytes(s, n), start, SubSeq(Whole(s), start + 1, end))
           = FirstBytes(s, end)
<1> DEFINE T == {s} \X Nat
           w == FirstBytes(s, UploadLength)
           a == SubSeq(FirstBytes(s, n), 1, start)
           b == SubSeq(w, start + 1, end)
<1>0. n \in Nat /\ start \in Nat /\ end \in Nat /\ UploadLength \in Nat
      /\ start <= n /\ n <= UploadLength /\ start <= end /\ end <= UploadLength
  BY GcsConstants
<1>1. /\ \A i \in 1..start : FirstBytes(s, n)[i] = <<s, i>>
      /\ \A i \in start + 1..end : w[i] = <<s, i>>
      /\ Whole(s) = w
  BY <1>0, BytesFacts DEF FirstBytes, Whole
<1> HIDE DEF w
<1>2. a \in Seq(T) /\ Len(a) = start /\ \A i \in 1..start : a[i] = <<s, i>>
  <2>1. \A i \in 1..start : FirstBytes(s, n)[i] \in T
    <3>1. \A i \in 1..start : i \in Nat /\ <<s, i>> \in T
      BY <1>0
    <3> QED
      BY <1>1, <3>1
  <2> QED
    BY <1>0, <1>1, <2>1, SubSeqProperties
<1>3. b \in Seq(T) /\ Len(b) = end - start /\ \A i \in 1..end - start : b[i] = <<s, start + i>>
  <2>1. \A i \in start + 1..end : w[i] \in T
    BY <1>0, <1>1
  <2>2. /\ b \in Seq(T) /\ Len(b) = IF start + 1 <= end THEN end - (start + 1) + 1 ELSE 0
        /\ \A i \in 1..end - (start + 1) + 1 : b[i] = w[start + 1 + i - 1]
    BY <1>0, <2>1, SubSeqProperties
  <2>3. \A i \in 1..end - start : start + 1 + i - 1 = start + i /\ start + i \in start + 1..end
    BY <1>0
  <2> QED
    BY <1>0, <1>1, <2>2, <2>3
<1> HIDE DEF a, b, T
<1>4. /\ a \o b \in Seq(T)
      /\ Len(a \o b) = end
      /\ \A i \in 1..end : (a \o b)[i] = IF i <= start THEN a[i] ELSE b[i - start]
  <2>1. /\ a \o b \in Seq(T)
        /\ Len(a \o b) = start + (end - start)
        /\ \A i \in 1..start + (end - start) :
              (a \o b)[i] = IF i <= start THEN a[i] ELSE b[i - start]
    <3>1. a \in Seq(T) /\ b \in Seq(T)
      BY <1>2, <1>3
    <3>2. /\ a \o b \in Seq(T)
          /\ Len(a \o b) = Len(a) + Len(b)
          /\ \A i \in 1..Len(a) + Len(b) :
                (a \o b)[i] = IF i <= Len(a) THEN a[i] ELSE b[i - Len(a)]
      BY <3>1, ConcatProperties, Zenon
    <3>3. Len(a) = start /\ Len(b) = end - start
      BY <1>2, <1>3
    <3> QED
      BY <3>2, <3>3, Zenon
  <2>2. start + (end - start) = end
    BY <1>0
  <2> QED
    BY <2>1, <2>2
<1>5. \A i \in 1..end : (a \o b)[i] = <<s, i>>
  <2> SUFFICES ASSUME NEW i \in 1..end PROVE (a \o b)[i] = <<s, i>>
    OBVIOUS
  <2>1. CASE i <= start
    BY <2>1, <1>0, <1>2, <1>4
  <2>2. CASE ~(i <= start)
    <3>1. i - start \in 1..end - start /\ start + (i - start) = i
      BY <2>2, <1>0
    <3>2. (a \o b)[i] = b[i - start] /\ b[i - start] = <<s, start + (i - start)>>
      BY <2>2, <3>1, <1>3, <1>4
    <3> QED
      BY <3>1, <3>2
  <2> QED
    BY <2>1, <2>2
<1>6. /\ FirstBytes(s, end) \in Seq(T) /\ Len(FirstBytes(s, end)) = end
      /\ \A i \in 1..end : FirstBytes(s, end)[i] = <<s, i>>
  BY <1>0, BytesFacts DEF T
<1>7. a \o b = FirstBytes(s, end)
  BY <1>4, <1>5, <1>6, SeqEqual
<1> QED
  BY <1>1, <1>7 DEF AddChunk, a, b

LEMMA RangesHold == RangesExact
<1> SUFFICES ASSUME NEW len \in 0..UploadLength,
                    NEW a \in 0..(UploadLength + 1) \cup {None},
                    NEW b \in 0..(UploadLength + 1) \cup {None},
                    a # None \/ b # None
             PROVE  LET r == ByteRange(a, b, len) IN
                    Asked(a, b, len) = IF r = None THEN {} ELSE r[1]..r[2]
  BY DEF RangesExact
<1>0. UploadLength \in Nat /\ None \notin Nat /\ None \notin Nat \X Nat /\ len \in Nat
  BY GcsConstants
<1>1. CASE a = None
  <2>1. b \in Nat
    BY <1>0, <1>1
  <2>2. CASE b = 0 \/ len = 0
    <3>1. ByteRange(a, b, len) = None
      BY <1>1, <2>2 DEF ByteRange
    <3>2. Asked(a, b, len) = {}
      BY <1>0, <1>1, <2>1, <2>2 DEF Asked
    <3> QED
      BY <3>1, <3>2
  <2>3. CASE ~(b = 0 \/ len = 0)
    <3>1. ByteRange(a, b, len) = <<IF b > len THEN 0 ELSE len - b, len - 1>>
      BY <1>1, <2>3 DEF ByteRange
    <3>2. /\ <<IF b > len THEN 0 ELSE len - b, len - 1>> \in Nat \X Nat
          /\ len - 1 \in Nat
      BY <1>0, <2>1, <2>3
    <3>3. Asked(a, b, len) = (IF b > len THEN 0 ELSE len - b)..(len - 1)
      BY <1>0, <1>1, <2>1, <2>3 DEF Asked
    <3> QED
      BY <1>0, <3>1, <3>2, <3>3
  <2> QED
    BY <2>2, <2>3
<1>2. CASE a # None
  <2> DEFINE top == IF len = 0 THEN 0 ELSE len - 1
             end == IF b = None \/ b > top THEN top ELSE b
  <2>1. /\ a \in Nat /\ top \in Nat /\ end \in Nat
        /\ b # None => b \in Nat
    BY <1>0, <1>2
  <2>2. ByteRange(a, b, len) = IF a >= len \/ end < a THEN None ELSE <<a, end>>
    BY <1>2 DEF ByteRange
  <2>3. Asked(a, b, len) = IF a >= len \/ end < a THEN {} ELSE a..end
    BY <1>0, <1>2, <2>1 DEF Asked
  <2>4. <<a, end>> # None
    BY <1>0, <2>1
  <2> HIDE DEF end
  <2> QED
    BY <2>2, <2>3, <2>4
<1> QED
  BY <1>1, <1>2

LEMMA GcsInvInit == GcsInit => GcsInv
<1> SUFFICES ASSUME GcsInit PROVE GcsInv
  OBVIOUS
<1>1. gcsStored \in Seq(gcsStarted) /\ DOMAIN gcsStored = {}
  BY DEF GcsInit
<1> QED
  BY <1>1 DEF GcsInit, GcsInv, ObjectsHaveBucket, ObjectsWhole, StoredOnce

\* An upload is complete when a session has every byte of it.
LEMMA CompleteWhole ==
    ASSUME NEW s, NEW n \in 0..UploadLength, NEW total \in {None, UploadLength},
           total # None /\ Len(FirstBytes(s, n)) >= total
    PROVE  FirstBytes(s, n) = Whole(s)
<1>1. n \in Nat /\ UploadLength \in Nat /\ n <= UploadLength /\ total = UploadLength
  BY GcsConstants
<1>2. Len(FirstBytes(s, n)) = n
  BY <1>1, BytesFacts
<1>3. n = UploadLength
  BY <1>1, <1>2
<1> QED
  BY <1>3 DEF FirstBytes, Whole

\* What one request of resumable_put does to its session.
LEMMA GcsReceived ==
    ASSUME GcsInv, NEW s \in DOMAIN gcsSessions, NEW n \in 0..UploadLength, NEW data,
           data = FirstBytes(s, n), NEW complete \in BOOLEAN, complete => data = Whole(s),
           Received(s, data, complete)
    PROVE  GcsInv'
<1>1. UNCHANGED <<gcsBuckets, gcsObjects, gcsStarted, gcsStored>>
  BY DEF Received
<1>2. CASE complete
  <2> DEFINE u == Storing(s, gcsSessions[s].object, gcsSessions[s].want, data)
  <2>1. /\ gcsSessions' = WithoutSession(s)
        /\ gcsStoring' = gcsStoring \cup {u}
    BY <1>2 DEF Received
  <2>2. u.id = s /\ u.data = Whole(s)
    BY <1>2 DEF Storing
  <2>3. /\ DOMAIN gcsSessions' = DOMAIN gcsSessions \ {s}
        /\ \A x \in DOMAIN gcsSessions' : gcsSessions'[x] = gcsSessions[x]
    BY <2>1 DEF WithoutSession, Restrict
  <2>4. /\ \A v \in gcsStoring : v.id # s
        /\ \A i \in DOMAIN gcsStored : gcsStored[i] # s
    BY DEF GcsInv
  <2> HIDE DEF u
  <2> QED
    BY <1>1, <2>1, <2>2, <2>3, <2>4 DEF GcsInv, ObjectsHaveBucket, ObjectsWhole, StoredOnce
<1>3. CASE ~complete
  <2>1. /\ gcsSessions' = [gcsSessions EXCEPT ![s].data = data]
        /\ gcsStoring' = gcsStoring
    BY <1>3 DEF Received
  <2> QED
    BY <1>1, <2>1 DEF GcsInv, ObjectsHaveBucket, ObjectsWhole, StoredOnce
<1> QED
  BY <1>2, <1>3

LEMMA GcsStore ==
    ASSUME GcsInv, NEW u \in gcsStoring, StoreObject(u)
    PROVE  GcsInv'
<1>1. /\ UNCHANGED <<gcsBuckets, gcsSessions, gcsStarted>>
      /\ gcsStoring' = gcsStoring \ {u}
  BY DEF StoreObject
<1>2. CASE u.object[1] \in gcsBuckets /\ CheckGeneration(u.object, u.want)
  <2>1. /\ gcsObjects' = [o \in DOMAIN gcsObjects \cup {u.object} |->
               IF o = u.object
               THEN [content |-> u.data, created_at |-> u.created_at, patched |-> FALSE]
               ELSE gcsObjects[o]]
        /\ gcsStored' = Append(gcsStored, u.id)
    BY <1>2 DEF StoreObject
  <2>2. u.id \in gcsStarted /\ u.id \in Uploads /\ u.data = Whole(u.id)
        /\ u.id \notin DOMAIN gcsSessions
    BY DEF GcsInv
  <2>3. ObjectsHaveBucket' /\ ObjectsWhole'
    BY <1>1, <1>2, <2>1, <2>2 DEF GcsInv, ObjectsHaveBucket, ObjectsWhole
  <2>4. gcsStored \in Seq(gcsStarted)
    BY DEF GcsInv
  <2>5. /\ gcsStored' \in Seq(gcsStarted) /\ Len(gcsStored') = Len(gcsStored) + 1
        /\ \A i \in 1..Len(gcsStored) : gcsStored'[i] = gcsStored[i]
        /\ gcsStored'[Len(gcsStored) + 1] = u.id
    BY <2>1, <2>2, <2>4, AppendProperties
  <2>6. /\ DOMAIN gcsStored = 1..Len(gcsStored) /\ DOMAIN gcsStored' = 1..Len(gcsStored) + 1
        /\ Len(gcsStored) \in Nat
    BY <2>4, <2>5
  <2>7. \A i \in DOMAIN gcsStored' : \/ i \in DOMAIN gcsStored /\ gcsStored'[i] = gcsStored[i]
                                     \/ i = Len(gcsStored) + 1 /\ gcsStored'[i] = u.id
    BY <2>5, <2>6
  <2>8. StoredOnce'
    BY <2>7 DEF GcsInv, StoredOnce
  <2>9. \A i \in DOMAIN gcsStored' : /\ gcsStored'[i] \notin DOMAIN gcsSessions
                                     /\ \A v \in gcsStoring \ {u} : v.id # gcsStored'[i]
    BY <2>2, <2>7 DEF GcsInv
  <2> QED
    BY <1>1, <2>3, <2>5, <2>8, <2>9 DEF GcsInv
<1>3. CASE ~(u.object[1] \in gcsBuckets /\ CheckGeneration(u.object, u.want))
  <2>1. UNCHANGED <<gcsObjects, gcsStored>>
    BY <1>3 DEF StoreObject
  <2> QED
    BY <1>1, <2>1 DEF GcsInv, ObjectsHaveBucket, ObjectsWhole, StoredOnce
<1> QED
  BY <1>2, <1>3

LEMMA GcsUpload ==
    ASSUME GcsInv, NEW s \in Uploads, NEW o, NEW want,
           UploadObject(s, o, want) \/ StartResumable(s, o, want)
    PROVE  GcsInv'
<1>1. s \notin gcsStarted /\ gcsStarted' = gcsStarted \cup {s}
      /\ UNCHANGED <<gcsBuckets, gcsObjects, gcsStored>>
  BY DEF UploadObject, StartResumable
<1>2. gcsStored \in Seq(gcsStarted')
  BY <1>1, SeqMonotonic DEF GcsInv
<1>3. /\ \A i \in DOMAIN gcsStored : gcsStored[i] # s
      /\ \A v \in gcsStoring : v.id # s
      /\ s \notin DOMAIN gcsSessions
  <2>1. gcsStored \in Seq(gcsStarted)
    BY DEF GcsInv
  <2>2. \A i \in DOMAIN gcsStored : gcsStored[i] \in gcsStarted
    BY <2>1
  <2> QED
    BY <1>1, <2>2 DEF GcsInv
<1>4. CASE UploadObject(s, o, want)
  <2> DEFINE u == Storing(s, o, want, Whole(s))
  <2>1. gcsSessions' = gcsSessions /\ gcsStoring' = gcsStoring \cup {u}
        /\ u.id = s /\ u.data = Whole(s)
    BY <1>4 DEF UploadObject, Storing
  <2> HIDE DEF u
  <2> QED
    BY <1>1, <1>2, <1>3, <2>1 DEF GcsInv, ObjectsHaveBucket, ObjectsWhole, StoredOnce
<1>5. CASE StartResumable(s, o, want)
  <2>1. /\ DOMAIN gcsSessions' = DOMAIN gcsSessions \cup {s}
        /\ \A x \in DOMAIN gcsSessions : gcsSessions'[x] = gcsSessions[x]
        /\ gcsSessions'[s].data = <<>>
        /\ gcsStoring' = gcsStoring
    BY <1>3, <1>5 DEF StartResumable
  <2>2. 0 \in 0..UploadLength /\ <<>> = FirstBytes(s, 0)
    BY GcsConstants DEF FirstBytes
  <2> QED
    BY <1>1, <1>2, <1>3, <2>1, <2>2 DEF GcsInv, ObjectsHaveBucket, ObjectsWhole, StoredOnce
<1> QED
  BY <1>4, <1>5

LEMMA GcsInvNext == GcsInv /\ [GcsNext]_gcsVars => GcsInv'
<1> SUFFICES ASSUME GcsInv, [GcsNext]_gcsVars PROVE GcsInv'
  OBVIOUS
<1> USE DEF GcsInv, ObjectsHaveBucket, ObjectsWhole, StoredOnce
<1>1. ASSUME NEW b \in Buckets, CreateBucket(b) \/ DeleteBucket(b) PROVE GcsInv'
  BY <1>1 DEF CreateBucket, DeleteBucket, BucketDeletable
<1>2. ASSUME NEW o \in Buckets \X Objects, PatchObject(o) PROVE GcsInv'
  BY <1>2 DEF PatchObject
<1>3. ASSUME NEW o \in Buckets \X Objects, NEW want \in Wants, DeleteObject(o, want) PROVE GcsInv'
  BY <1>3 DEF DeleteObject, Restrict
<1>4. ASSUME NEW s \in Uploads, ResumableCancel(s) PROVE GcsInv'
  BY <1>4 DEF ResumableCancel, Restrict
<1>5. CASE CrashStorage \/ ResetStorage
  BY <1>5 DEF CrashStorage, ResetStorage
<1>6. CASE UNCHANGED gcsVars
  BY <1>6 DEF gcsVars
<1> HIDE DEF GcsInv, ObjectsHaveBucket, ObjectsWhole, StoredOnce
<1>7. ASSUME NEW s \in Uploads, PutWhole(s) PROVE GcsInv'
  <2>1. UploadLength \in 0..UploadLength /\ Whole(s) = FirstBytes(s, UploadLength)
    BY GcsConstants DEF Whole, FirstBytes
  <2> QED
    BY <1>7, <2>1, GcsReceived DEF PutWhole
<1>8. ASSUME NEW s \in Uploads, NEW total \in {None, UploadLength}, PutStatus(s, total)
      PROVE  GcsInv'
  <2>1. s \in DOMAIN gcsSessions
    BY <1>8 DEF PutStatus
  <2>2. PICK n \in 0..UploadLength : gcsSessions[s].data = FirstBytes(s, n)
    BY <2>1 DEF GcsInv
  <2> DEFINE complete == total # None /\ Len(FirstBytes(s, n)) >= total
  <2>3. complete \in BOOLEAN /\ Received(s, FirstBytes(s, n), complete)
    BY <1>8, <2>2 DEF PutStatus
  <2>4. complete => FirstBytes(s, n) = Whole(s)
    BY CompleteWhole
  <2> HIDE DEF complete
  <2> QED
    BY <2>1, <2>3, <2>4, GcsReceived
<1>9. ASSUME NEW s \in Uploads, NEW total \in {None, UploadLength}, NEW start \in 0..UploadLength,
             NEW end \in start..UploadLength, PutChunk(s, start, end, total)
      PROVE  GcsInv'
  <2>1. s \in DOMAIN gcsSessions /\ start <= Len(gcsSessions[s].data)
    BY <1>9 DEF PutChunk
  <2>2. PICK n \in 0..UploadLength : gcsSessions[s].data = FirstBytes(s, n)
    BY <2>1 DEF GcsInv
  <2>3. n \in Nat /\ start \in Nat /\ end \in 0..UploadLength
    BY GcsConstants
  <2>4. start \in 0..n
    <3>1. Len(FirstBytes(s, n)) = n
      BY <2>3, BytesFacts
    <3> QED
      BY <2>1, <2>2, <2>3, <3>1
  <2> DEFINE complete == total # None /\ Len(FirstBytes(s, end)) >= total
  <2>5. AddChunk(gcsSessions[s].data, start, SubSeq(Whole(s), start + 1, end)) = FirstBytes(s, end)
    BY <2>2, <2>4, ChunkFacts
  <2>6. complete \in BOOLEAN /\ Received(s, FirstBytes(s, end), complete)
    BY <1>9, <2>5 DEF PutChunk
  <2>7. complete => FirstBytes(s, end) = Whole(s)
    BY <2>3, CompleteWhole
  <2> HIDE DEF complete
  <2> QED
    BY <2>1, <2>3, <2>6, <2>7, GcsReceived
<1> QED
  BY <1>1, <1>2, <1>3, <1>4, <1>5, <1>6, <1>7, <1>8, <1>9, GcsStore, GcsUpload DEF GcsNext

\* Cloud Storage stores what clients upload: a session's data is always the beginning of
\* its upload, whatever chunks resumable_put got again, late or not at all, the critical
\* section that completes it removes the session, and delete_bucket refuses a bucket with
\* objects, upload_object one that is gone.  parse_range answers with the bytes asked for.
THEOREM UploadsStored == GcsSpec => []UploadsExact
<1>1. GcsInv => UploadsExact
  BY RangesHold DEF GcsInv, UploadsExact, StorageRanges
<1> QED
  BY <1>1, GcsInvInit, GcsInvNext, PTL DEF GcsSpec

-----------------------------------------------------------------------------
(* DynamoDB *)

\* The keys an item may have, and the requests that are between two of their calls.
DynKeys == TableNames \X (HashKeys \cup {None}) \X (SortKeys \cup {None})

DynRequests ==
    {DynIdle}
    \cup [at : {"create"}, table : TableNames, ranged : BOOLEAN]
    \cup [at : {"update", "delete"}, key : DynKeys, item : DynItems]
    \cup [at : {"again"}, key : DynKeys, item : DynItems, kept : SUBSET Attrs,
          overtaken : BOOLEAN]
    \cup [at : {"put"}, key : DynKeys, item : DynItems, kept : SUBSET Attrs,
          overtaken : BOOLEAN, born : Nat]

DynTypeOK ==
    /\ dynMade \in Nat
    /\ DOMAIN dynTables \subseteq TableNames
    /\ \A t \in DOMAIN dynTables : dynTables[t] \in TableRows
    /\ DOMAIN dynItems \subseteq DynKeys
    /\ \A k \in DOMAIN dynItems : dynItems[k] \in DynItems
    /\ DOMAIN dynKept = DOMAIN dynItems
    /\ \A k \in DOMAIN dynKept : dynKept[k] \subseteq Attrs
    /\ dynReq \in [DynClients -> DynRequests]

\* What requests hold is true of the table they read, as long as it is there: an item
\* about to be written is under its key, and has the attributes it is to keep.
HeldItems ==
    /\ \A t \in DOMAIN dynTables : dynTables[t].born < dynMade
    /\ \A c \in DynClients : dynReq[c].at \in {"put", "again"} =>
          dynReq[c].kept \subseteq dynReq[c].item.attrs
    /\ \A c \in DynClients : dynReq[c].at = "put" =>
          LET r == dynReq[c]
              t == r.key[1] IN
          /\ r.born < dynMade
          /\ t \in DOMAIN dynTables /\ dynTables[t].born = r.born =>
                r.key = ExtractKey(t, dynTables[t], r.item)

DynInv == DynTypeOK /\ HeldItems /\ ItemsUnderTheirKey /\ UpdatesKept

LEMMA DynInvInit == DynInit => DynInv
BY DEF DynInit, DynInv, DynTypeOK, HeldItems, ItemsUnderTheirKey, UpdatesKept, DynIdle, DynRequests

\* What a request holds, by how far it is.
LEMMA RequestFacts ==
    ASSUME DynTypeOK, NEW c \in DynClients
    PROVE  LET r == dynReq[c] IN
           /\ r.at = "create" => r \in [at : {"create"}, table : TableNames, ranged : BOOLEAN]
           /\ r.at \in {"update", "delete"} =>
                 r \in [at : {"update", "delete"}, key : DynKeys, item : DynItems]
           /\ r.at = "again" =>
                 r \in [at : {"again"}, key : DynKeys, item : DynItems, kept : SUBSET Attrs,
                        overtaken : BOOLEAN]
           /\ r.at = "put" =>
                 r \in [at : {"put"}, key : DynKeys, item : DynItems, kept : SUBSET Attrs,
                        overtaken : BOOLEAN, born : Nat]
BY DEF DynTypeOK, DynRequests, DynIdle

LEMMA ExtractKeyFacts ==
    ASSUME NEW t \in TableNames, NEW row, NEW item \in DynItems
    PROVE  ExtractKey(t, row, item) \in DynKeys /\ ExtractKey(t, row, item)[1] = t
BY DEF ExtractKey, DynKeys, DynItems

\* Requests that are overtaken hold what they held.
LEMMA OvertakenFacts ==
    ASSUME DynTypeOK, NEW c \in DynClients, NEW k, dynReq' = Overtaken(c, k)
    PROVE  /\ dynReq' \in [DynClients -> DynRequests]
           /\ \A d \in DynClients : dynReq'[d].at \in {"put", "again"} =>
                 /\ dynReq'[d].at = dynReq[d].at
                 /\ dynReq'[d].key = dynReq[d].key
                 /\ dynReq'[d].item = dynReq[d].item
                 /\ dynReq'[d].kept = dynReq[d].kept
                 /\ dynReq[d].at = "put" => dynReq'[d].born = dynReq[d].born
<1>1. \A d \in DynClients : \/ dynReq'[d] = DynIdle
                            \/ dynReq'[d] = dynReq[d]
                            \/ /\ dynReq[d].at \in {"again", "put"}
                               /\ dynReq'[d] = [dynReq[d] EXCEPT !.overtaken = TRUE]
  BY DEF Overtaken
<1>2. ASSUME NEW d \in DynClients, dynReq[d].at \in {"again", "put"},
             dynReq'[d] = [dynReq[d] EXCEPT !.overtaken = TRUE]
      PROVE  /\ dynReq'[d] \in DynRequests
             /\ dynReq'[d].at = dynReq[d].at
             /\ dynReq'[d].key = dynReq[d].key
             /\ dynReq'[d].item = dynReq[d].item
             /\ dynReq'[d].kept = dynReq[d].kept
             /\ dynReq[d].at = "put" => dynReq'[d].born = dynReq[d].born
  <2>1. CASE dynReq[d].at = "again"
    BY <1>2, <2>1, RequestFacts DEF DynRequests
  <2>2. CASE dynReq[d].at = "put"
    BY <1>2, <2>2, RequestFacts DEF DynRequests
  <2> QED
    BY <1>2, <2>1, <2>2
<1>3. DynIdle \in DynRequests /\ DynIdle.at = "idle" /\ \A d \in DynClients : dynReq[d] \in DynRequests
  BY DEF DynIdle, DynRequests, DynTypeOK
<1>4. DOMAIN dynReq' = DynClients /\ dynReq' = [d \in DynClients |-> dynReq'[d]]
  BY DEF Overtaken
<1>5. dynReq' \in [DynClients -> DynRequests]
  BY <1>1, <1>2, <1>3, <1>4
<1> QED
  BY <1>1, <1>2, <1>3, <1>5

LEMMA DynWriteItem ==
    ASSUME DynInv, NEW c \in DynClients, WriteItem(c)
    PROVE  DynInv'
<1> DEFINE r == dynReq[c]
           k == r.key
           dom == DOMAIN dynItems \cup {k}
<1>1. /\ r \in [at : {"put"}, key : DynKeys, item : DynItems, kept : SUBSET Attrs,
                overtaken : BOOLEAN, born : Nat]
      /\ r.kept \subseteq r.item.attrs /\ r.item.attrs \subseteq Attrs
  BY RequestFacts DEF WriteItem, DynInv, HeldItems, DynItems
<1>2. /\ dynItems' = [x \in dom |-> IF x = k THEN r.item ELSE dynItems[x]]
      /\ dynKept' = [x \in dom |-> IF x # k THEN dynKept[x]
                                   ELSE IF r.overtaken \/ k \notin DOMAIN dynKept
                                        THEN r.item.attrs ELSE r.kept]
      /\ dynLoose' = IF k[1] \in DOMAIN dynTables /\ dynTables[k[1]].born = r.born
                     THEN dynLoose \ {k} ELSE dynLoose \cup {k}
      /\ dynReq' = Overtaken(c, k)
      /\ UNCHANGED <<dynTables, dynMade>>
  BY DEF WriteItem
<1>3. /\ k[1] \in DOMAIN dynTables /\ dynTables[k[1]].born = r.born =>
            k = ExtractKey(k[1], dynTables[k[1]], r.item)
  BY DEF WriteItem, DynInv, HeldItems
<1> HIDE DEF r, k
<1>4. DynTypeOK'
  <2>1. dynReq' \in [DynClients -> DynRequests]
    BY <1>2, OvertakenFacts DEF DynInv
  <2>2. DOMAIN dynItems' \subseteq DynKeys /\ DOMAIN dynKept' = DOMAIN dynItems'
    <3>1. k \in DynKeys
      BY <1>1 DEF k
    <3>2. DOMAIN dynItems' = dom /\ DOMAIN dynKept' = dom
      BY <1>2
    <3> QED
      BY <3>1, <3>2 DEF DynInv, DynTypeOK
  <2>3. /\ \A x \in DOMAIN dynItems' : dynItems'[x] \in DynItems
        /\ \A x \in DOMAIN dynKept' : dynKept'[x] \subseteq Attrs
    BY <1>1, <1>2 DEF DynInv, DynTypeOK
  <2> QED
    BY <1>2, <2>1, <2>2, <2>3 DEF DynInv, DynTypeOK
<1>5. HeldItems'
  BY <1>2, OvertakenFacts DEF DynInv, HeldItems
<1>6. ItemsUnderTheirKey'
  BY <1>2, <1>3 DEF DynInv, ItemsUnderTheirKey
<1>7. UpdatesKept'
  BY <1>1, <1>2 DEF DynInv, DynTypeOK, UpdatesKept
<1> QED
  BY <1>4, <1>5, <1>6, <1>7 DEF DynInv

\* Requests that go on, and tables and items that stay.
LEMMA DynGoes ==
    ASSUME DynInv, NEW c \in DynClients, NEW r \in DynRequests, DynGo(c, r),
           UNCHANGED dynStore,
           r.at \in {"put", "again"} => r.kept \subseteq r.item.attrs,
           r.at = "put" =>
              LET t == r.key[1] IN
              /\ r.born < dynMade
              /\ t \in DOMAIN dynTables /\ dynTables[t].born = r.born =>
                    r.key = ExtractKey(t, dynTables[t], r.item)
    PROVE  DynInv'
<1>1. dynReq' = [dynReq EXCEPT ![c] = r] /\ UNCHANGED <<dynTables, dynItems, dynMade, dynKept, dynLoose>>
  BY DEF DynGo, dynStore
<1>2. dynReq' \in [DynClients -> DynRequests]
      /\ \A d \in DynClients : dynReq'[d] = IF d = c THEN r ELSE dynReq[d]
  BY <1>1 DEF DynInv, DynTypeOK
<1>3. DynTypeOK'
  BY <1>1, <1>2 DEF DynInv, DynTypeOK
<1>4. HeldItems'
  BY <1>1, <1>2 DEF DynInv, HeldItems, ExtractKey
<1> QED
  BY <1>1, <1>3, <1>4 DEF DynInv, ItemsUnderTheirKey, UpdatesKept, ExtractKey

LEMMA DynInsertTable ==
    ASSUME DynInv, NEW c \in DynClients, InsertTable(c)
    PROVE  DynInv'
<1> DEFINE t == dynReq[c].table
           row == [ranged |-> dynReq[c].ranged, born |-> dynMade]
<1>1. t \in TableNames /\ dynReq[c].ranged \in BOOLEAN
  BY RequestFacts DEF InsertTable, DynInv
<1>2. /\ dynReq' = [dynReq EXCEPT ![c] = DynIdle]
      /\ UNCHANGED <<dynItems, dynKept, dynLoose>>
  BY DEF InsertTable, DynGo
<1>3. /\ dynReq' \in [DynClients -> DynRequests]
      /\ \A d \in DynClients : dynReq'[d].at # "idle" => dynReq'[d] = dynReq[d]
  BY <1>2 DEF DynInv, DynTypeOK, DynRequests, DynIdle
<1>4. CASE t \in DOMAIN dynTables
  <2>1. UNCHANGED <<dynTables, dynMade>>
    BY <1>4 DEF InsertTable, Inserts
  <2>2. DynTypeOK' /\ HeldItems'
    BY <1>2, <1>3, <2>1 DEF DynInv, DynTypeOK, HeldItems, ExtractKey
  <2> QED
    BY <1>2, <2>1, <2>2 DEF DynInv, ItemsUnderTheirKey, UpdatesKept, ExtractKey
<1>5. CASE t \notin DOMAIN dynTables
  <2>1. /\ dynMade' = dynMade + 1
        /\ dynTables' = [x \in DOMAIN dynTables \cup {t} |-> IF x = t THEN row ELSE dynTables[x]]
    BY <1>5 DEF InsertTable, Inserts
  <2>2. row \in TableRows /\ row.born = dynMade /\ dynMade \in Nat
    BY <1>1 DEF DynInv, DynTypeOK, TableRows
  <2>3. /\ DOMAIN dynTables' = DOMAIN dynTables \cup {t}
        /\ dynTables'[t] = row
        /\ \A x \in DOMAIN dynTables : x # t /\ dynTables'[x] = dynTables[x]
    BY <1>5, <2>1
  <2> HIDE DEF row, t
  <2>4. DynTypeOK'
    BY <1>1, <1>2, <1>3, <2>1, <2>2, <2>3 DEF DynInv, DynTypeOK
  <2>5. \A x \in DOMAIN dynTables' : dynTables'[x].born < dynMade'
    BY <2>1, <2>2, <2>3 DEF DynInv, DynTypeOK, HeldItems, TableRows
  <2>6. ASSUME NEW d \in DynClients, dynReq'[d].at = "put"
        PROVE  LET r == dynReq'[d]
                   x == r.key[1] IN
               /\ r.born < dynMade'
               /\ x \in DOMAIN dynTables' /\ dynTables'[x].born = r.born =>
                     r.key = ExtractKey(x, dynTables'[x], r.item)
    <3>1. dynReq'[d] = dynReq[d] /\ dynReq[d].born \in Nat /\ dynReq[d].born < dynMade
      BY <2>6, <1>3, RequestFacts DEF DynInv, HeldItems
    <3> QED
      BY <2>1, <2>2, <2>3, <2>6, <3>1 DEF DynInv, HeldItems
  <2>7. \A d \in DynClients : dynReq'[d].at \in {"put", "again"} =>
           dynReq'[d].kept \subseteq dynReq'[d].item.attrs
    BY <1>3 DEF DynInv, HeldItems
  <2>8. HeldItems'
    BY <2>5, <2>6, <2>7 DEF HeldItems, ExtractKey
  <2>9. ItemsUnderTheirKey'
    BY <1>2, <2>3 DEF DynInv, ItemsUnderTheirKey, ExtractKey
  <2> QED
    BY <1>2, <2>4, <2>8, <2>9 DEF DynInv, UpdatesKept
<1> QED
  BY <1>4, <1>5

LEMMA DynRemoval ==
    ASSUME DynInv,
           \/ ResetTables
           \/ \E t \in TableNames : DeleteTable(t) \/ CrashInDeleteTable(t)
    PROVE  DynInv'
<1> DEFINE Removed ==
       /\ dynMade' = dynMade
       /\ dynReq' = dynReq \/ dynReq' = [c \in DynClients |-> DynIdle]
       /\ DOMAIN dynTables' \subseteq DOMAIN dynTables
       /\ \A t \in DOMAIN dynTables' : dynTables'[t] = dynTables[t]
       /\ DOMAIN dynItems' \subseteq DOMAIN dynItems
       /\ \A k \in DOMAIN dynItems' : dynItems'[k] = dynItems[k] /\ dynKept'[k] = dynKept[k]
       /\ DOMAIN dynKept' = DOMAIN dynItems'
       /\ \A k \in DOMAIN dynItems' : k \notin dynLoose' =>
            k \notin dynLoose /\ (k[1] \in DOMAIN dynTables => k[1] \in DOMAIN dynTables')
<1>1. ASSUME ResetTables PROVE Removed
  <2>1. /\ dynMade' = dynMade
        /\ dynReq' = dynReq
        /\ dynTables' = <<>> /\ dynItems' = <<>> /\ dynKept' = <<>>
    BY <1>1 DEF ResetTables
  <2>2. DOMAIN <<>> = {}
    OBVIOUS
  <2> QED
    BY <2>1, <2>2
<1>2. ASSUME NEW t \in TableNames, DeleteTable(t) \/ CrashInDeleteTable(t)
      PROVE  Removed
  <2>1. /\ dynItems' = Restrict(dynItems, ItemsNotOf(t))
        /\ dynKept' = Restrict(dynKept, DOMAIN dynItems')
        /\ dynLoose' = dynLoose \cap DOMAIN dynItems'
    BY <1>2 DEF DeleteTable, CrashInDeleteTable, DropItems
  <2>2. /\ DOMAIN dynItems' = {k \in DOMAIN dynItems : k[1] # t}
        /\ \A k \in DOMAIN dynItems' : dynItems'[k] = dynItems[k]
    BY <2>1 DEF Restrict, ItemsNotOf
  <2>3. /\ DOMAIN dynKept' = DOMAIN dynItems'
        /\ \A k \in DOMAIN dynKept' : dynKept'[k] = dynKept[k]
    BY <2>1, <2>2 DEF Restrict, DynInv, DynTypeOK
  <2>4. /\ dynMade' = dynMade
        /\ dynReq' = dynReq \/ dynReq' = [c \in DynClients |-> DynIdle]
        /\ dynTables' = Restrict(dynTables, DOMAIN dynTables \ {t}) \/ dynTables' = dynTables
    BY <1>2 DEF DeleteTable, CrashInDeleteTable
  <2>5. /\ DOMAIN dynTables' \subseteq DOMAIN dynTables
        /\ \A x \in DOMAIN dynTables' : dynTables'[x] = dynTables[x]
        /\ \A x \in DOMAIN dynTables : x # t => x \in DOMAIN dynTables'
    BY <2>4 DEF Restrict
  <2> QED
    BY <2>1, <2>2, <2>3, <2>4, <2>5
<1>0. Removed
  BY <1>1, <1>2
<1>3. \A c \in DynClients : dynReq'[c].at # "idle" => dynReq'[c] = dynReq[c]
  BY <1>0 DEF DynInv, DynTypeOK, DynIdle
<1>4. DynTypeOK'
  BY <1>0, <1>3 DEF DynInv, DynTypeOK, DynRequests
<1>5. HeldItems'
  BY <1>0, <1>3 DEF DynInv, HeldItems, ExtractKey
<1>6. ItemsUnderTheirKey'
  BY <1>0 DEF DynInv, ItemsUnderTheirKey, ExtractKey
<1> QED
  BY <1>0, <1>4, <1>5, <1>6 DEF DynInv, UpdatesKept

LEMMA DynDeleteItem ==
    ASSUME DynInv, NEW c \in DynClients, DeleteItem(c)
    PROVE  DynInv'
<1> DEFINE k == dynReq[c].key
<1>1. /\ dynItems' = Restrict(dynItems, DOMAIN dynItems \ {k})
      /\ dynKept' = Restrict(dynKept, DOMAIN dynItems')
      /\ dynLoose' = dynLoose \ {k}
      /\ dynReq' = Overtaken(c, k)
      /\ UNCHANGED <<dynTables, dynMade>>
  BY DEF DeleteItem
<1>2. /\ DOMAIN dynItems' = DOMAIN dynItems \ {k} /\ DOMAIN dynKept' = DOMAIN dynItems'
      /\ \A x \in DOMAIN dynItems' : dynItems'[x] = dynItems[x] /\ dynKept'[x] = dynKept[x]
  BY <1>1 DEF Restrict, DynInv, DynTypeOK
<1> HIDE DEF k
<1>3. DynTypeOK'
  BY <1>1, <1>2, OvertakenFacts DEF DynInv, DynTypeOK
<1>4. HeldItems'
  BY <1>1, OvertakenFacts DEF DynInv, HeldItems, ExtractKey
<1> QED
  BY <1>1, <1>2, <1>3, <1>4 DEF DynInv, ItemsUnderTheirKey, UpdatesKept, ExtractKey

\* A SET leaves an item, with the attributes of both.
LEMMA AssignedItem ==
    ASSUME NEW i \in DynItems, NEW u \in DynItems
    PROVE  Assigned(i, u) \in DynItems /\ Assigned(i, u).attrs = i.attrs \cup u.attrs
BY DEF Assigned, DynItems

LEMMA DynInvNext == DynInv /\ [DynNext]_dynVars => DynInv'
<1> SUFFICES ASSUME DynInv, [DynNext]_dynVars PROVE DynInv'
  OBVIOUS
<1>0. DynTypeOK
  BY DEF DynInv
<1>1. ASSUME NEW c \in DynClients, NEW t \in TableNames, NEW ranged \in BOOLEAN,
             CreateTable(c, t, ranged)
      PROVE  DynInv'
  <2> DEFINE r == [at |-> "create", table |-> t, ranged |-> ranged]
  <2>1. r \in DynRequests /\ r.at = "create"
    BY DEF DynRequests
  <2> HIDE DEF r
  <2> QED
    BY <1>1, <2>1, DynGoes DEF CreateTable, r
<1>2. ASSUME NEW c \in DynClients, NEW t \in TableNames, NEW item \in DynItems,
             PutItem(c, t, item)
      PROVE  DynInv'
  <2> DEFINE key == ExtractKey(t, dynTables[t], item)
             r == [at |-> "put", key |-> key, item |-> item, born |-> dynTables[t].born,
                   kept |-> {}, overtaken |-> FALSE]
  <2>1. /\ key \in DynKeys /\ key[1] = t
        /\ dynTables[t].born \in Nat /\ dynTables[t].born < dynMade
    BY <1>2, ExtractKeyFacts DEF PutItem, DynInv, DynTypeOK, HeldItems, TableRows
  <2>2. r \in DynRequests
    BY <2>1 DEF DynRequests
  <2>3. DynGo(c, r) /\ UNCHANGED dynStore
    BY <1>2 DEF PutItem
  <2>4. /\ r.at = "put" /\ r.kept = {} /\ r.key = key /\ r.born = dynTables[t].born
        /\ r.item = item
    OBVIOUS
  <2> HIDE DEF r
  <2>5. r.key = ExtractKey(r.key[1], dynTables[r.key[1]], r.item)
    BY <2>1, <2>4
  <2> QED
    BY <2>1, <2>2, <2>3, <2>4, <2>5, DynGoes
<1>3. ASSUME NEW c \in DynClients, NEW t \in TableNames, NEW item \in DynItems,
             NEW op \in {"delete", "update"}, ReadTable(c, t, item, op)
      PROVE  DynInv'
  <2> DEFINE r == [at |-> op, key |-> ExtractKey(t, dynTables[t], item), item |-> item]
  <2>1. r \in DynRequests /\ r.at = op
    BY ExtractKeyFacts DEF DynRequests
  <2> HIDE DEF r
  <2> QED
    BY <1>3, <2>1, DynGoes DEF ReadTable, r
<1>4. ASSUME NEW c \in DynClients, NEW u \in Sets, ReadItem(c, u) PROVE DynInv'
  <2> DEFINE q == dynReq[c]
             kept == u.attrs \cup IF q.key \in DOMAIN dynKept THEN dynKept[q.key] ELSE {}
             r == [at |-> "again", key |-> q.key, item |-> Updated(q, u), overtaken |-> FALSE,
                   kept |-> kept]
  <2>1. q \in [at : {"update", "delete"}, key : DynKeys, item : DynItems] /\ u \in DynItems
    BY <1>0, <1>4, RequestFacts, DynamoConstants DEF ReadItem
  <2>2. Updated(q, u) \in DynItems /\ kept \subseteq Updated(q, u).attrs /\ kept \subseteq Attrs
    <3>1. CASE q.key \in DOMAIN dynItems
      <4>1. dynItems[q.key] \in DynItems /\ dynKept[q.key] \subseteq dynItems[q.key].attrs
        BY <1>0, <3>1 DEF DynInv, UpdatesKept, DynTypeOK
      <4>2. Updated(q, u) = Assigned(dynItems[q.key], u)
        BY <3>1 DEF Updated
      <4>3. kept = u.attrs \cup dynKept[q.key] /\ dynKept[q.key] \subseteq Attrs
        BY <1>0, <3>1 DEF DynTypeOK
      <4> HIDE DEF q, kept
      <4>4. Updated(q, u) \in DynItems /\ Updated(q, u).attrs = dynItems[q.key].attrs \cup u.attrs
        BY <2>1, <4>1, <4>2, AssignedItem
      <4> QED
        BY <2>1, <4>1, <4>3, <4>4 DEF DynItems
    <3>2. CASE q.key \notin DOMAIN dynItems
      <4>1. Updated(q, u) = Assigned(q.item, u) /\ kept = u.attrs
        BY <1>0, <3>2 DEF Updated, DynTypeOK
      <4>2. q.item \in DynItems
        BY <2>1
      <4> HIDE DEF q, kept
      <4>3. Updated(q, u) \in DynItems /\ Updated(q, u).attrs = q.item.attrs \cup u.attrs
        BY <2>1, <4>1, <4>2, AssignedItem
      <4> QED
        BY <2>1, <4>1, <4>3 DEF DynItems
    <3> QED
      BY <3>1, <3>2
  <2> HIDE DEF q, kept
  <2>3. r \in DynRequests
    BY <2>1, <2>2 DEF DynRequests
  <2>4. DynGo(c, r) /\ UNCHANGED dynStore
    BY <1>4 DEF ReadItem, q, kept
  <2>5. r.at = "again" /\ r.kept = kept /\ r.item = Updated(q, u)
    OBVIOUS
  <2> HIDE DEF r
  <2> QED
    BY <2>2, <2>3, <2>4, <2>5, DynGoes
<1>5. ASSUME NEW c \in DynClients, ReadTableAgain(c) PROVE DynInv'
  <2> DEFINE q == dynReq[c]
             t == q.key[1]
             key == ExtractKey(t, dynTables[t], q.item)
             r == [at |-> "put", key |-> key, item |-> q.item, born |-> dynTables[t].born,
                   kept |-> q.kept, overtaken |-> q.overtaken \/ q.key # key]
  <2>1. /\ q \in [at : {"again"}, key : DynKeys, item : DynItems, kept : SUBSET Attrs,
                  overtaken : BOOLEAN]
        /\ q.kept \subseteq q.item.attrs
    BY <1>0, <1>5, RequestFacts DEF ReadTableAgain, DynInv, HeldItems
  <2>2. CASE t \in DOMAIN dynTables
    <3>1. /\ key \in DynKeys /\ key[1] = t
          /\ dynTables[t].born \in Nat /\ dynTables[t].born < dynMade
      BY <1>0, <2>1, <2>2, ExtractKeyFacts DEF DynInv, DynTypeOK, HeldItems, TableRows
    <3>2. r \in DynRequests
      BY <2>1, <3>1 DEF DynRequests
    <3>3. DynGo(c, r) /\ UNCHANGED dynStore
      BY <1>5, <2>2 DEF ReadTableAgain, PutKey
    <3>4. /\ r.at = "put" /\ r.kept = q.kept /\ r.key = key /\ r.born = dynTables[t].born
          /\ r.item = q.item
      OBVIOUS
    <3> HIDE DEF r
    <3>5. r.key = ExtractKey(r.key[1], dynTables[r.key[1]], r.item)
      BY <3>1, <3>4
    <3> QED
      BY <2>1, <3>1, <3>2, <3>3, <3>4, <3>5, DynGoes
  <2>3. CASE t \notin DOMAIN dynTables
    <3>1. DynGo(c, DynIdle) /\ UNCHANGED dynStore
      BY <1>5, <2>3 DEF ReadTableAgain
    <3>2. DynIdle \in DynRequests /\ DynIdle.at = "idle"
      BY DEF DynRequests, DynIdle
    <3> QED
      BY <3>1, <3>2, DynGoes
  <2> QED
    BY <2>2, <2>3
<1>6. \A item \in Sent : item \in DynItems
  BY DynamoConstants
<1>7. ASSUME NEW c \in DynClients, DynRequest(c) PROVE DynInv'
  BY <1>1, <1>2, <1>3, <1>4, <1>5, <1>6, <1>7, DynInsertTable, DynWriteItem, DynDeleteItem
     DEF DynRequest
<1>8. CASE UNCHANGED dynVars
  BY <1>8 DEF dynVars, DynInv, DynTypeOK, HeldItems, ItemsUnderTheirKey, UpdatesKept, ExtractKey
<1> QED
  BY <1>7, <1>8, DynRemoval DEF DynNext

\* In a table whose items are all under their keys, another row with the same HASH attribute
\* has another RANGE attribute; that compares equal only if both are numbers.
LEMMA QueryFinds == DynInv => QueryAgreesWithKey
<1> SUFFICES ASSUME DynInv, NEW k \in DOMAIN dynItems, k \notin dynLoose,
                    \A x \in dynLoose : x[1] # k[1],
                    dynItems[k].p # None,
                    dynTables[k[1]].ranged => dynItems[k].s # None
             PROVE  LET i == dynItems[k]
                        ranged == dynTables[k[1]].ranged
                        found == Query(k[1], i.p, IF ranged THEN "=" ELSE "none", i.s)
                    IN  /\ k \in found <=> (ranged => SortType[i.s] # "other")
                        /\ \A x \in found \ {k} :
                              /\ k \in found /\ ranged
                              /\ SortType[i.s] = "N" /\ SortType[dynItems[x].s] = "N"
                              /\ SortRank[dynItems[x].s] = SortRank[i.s]
  BY DEF QueryAgreesWithKey
<1> DEFINE i == dynItems[k]
           row == dynTables[k[1]]
           found == Query(k[1], i.p, IF row.ranged THEN "=" ELSE "none", i.s)
<1>1. /\ k[1] \in DOMAIN dynTables /\ k = ExtractKey(k[1], row, i)
      /\ i \in DynItems /\ row.ranged \in BOOLEAN
  BY DEF DynInv, ItemsUnderTheirKey, DynTypeOK, TableRows
<1>2. \A x \in found : x \in DOMAIN dynItems /\ x[1] = k[1] /\ dynItems[x].p = i.p
  BY DEF Query, Matches
<1>3. \A x \in found : x = ExtractKey(k[1], row, dynItems[x]) /\ dynItems[x] \in DynItems
  BY <1>2 DEF DynInv, ItemsUnderTheirKey, DynTypeOK
<1>4. CASE ~row.ranged
  <2>1. \A x \in found : x = k
    BY <1>1, <1>2, <1>3, <1>4 DEF ExtractKey
  <2>2. k \in found
    BY <1>4 DEF Query, Matches
  <2> QED
    BY <1>4, <2>1, <2>2
<1>5. CASE row.ranged
  <2>1. i.s \in SortKeys
    BY <1>1, <1>5 DEF DynItems
  <2>2. k \in found <=> SortType[i.s] # "other"
    BY <1>5, <2>1 DEF Query, Matches, Compares
  <2>3. ASSUME NEW x \in found, x # k
        PROVE  /\ SortType[i.s] = "N" /\ SortType[dynItems[x].s] = "N"
               /\ SortRank[dynItems[x].s] = SortRank[i.s]
    <3>1. /\ dynItems[x].s # None
          /\ SortType[dynItems[x].s] = SortType[i.s] /\ SortType[dynItems[x].s] # "other"
          /\ SortRank[dynItems[x].s] = SortRank[i.s]
      BY <1>5 DEF Query, Matches, Compares
    <3>2. dynItems[x].s # i.s
      BY <1>1, <1>2, <1>3, <1>5, <2>3 DEF ExtractKey
    <3>3. dynItems[x].s \in SortKeys
      BY <1>3, <3>1 DEF DynItems
    <3>4. SortType[i.s] \in {"N", "S", "B", "other"}
      BY <2>1, DynamoConstants
    <3>5. SortType[i.s] \notin {"S", "B"}
      BY <2>1, <3>1, <3>2, <3>3, DynamoConstants
    <3> QED
      BY <3>1, <3>4, <3>5
  <2> QED
    BY <1>5, <2>2, <2>3
<1> QED
  BY <1>1, <1>4, <1>5

\* Every item of a table is under the key that the table's schema gives it, whatever tables
\* are deleted and made again while requests are between their calls, and whatever SET does
\* to key attributes; by that alone Query by its key finds it, and other rows only for other
\* texts of the same number.  An update is lost only to one that overtook it or that was
\* moved onto its row.
THEOREM ItemsAreKept == DynSpec => []ItemsKept
<1>1. DynInv => ItemsKept
  BY QueryFinds DEF DynInv, ItemsKept
<1> QED
  BY <1>1, DynInvInit, DynInvNext, PTL DEF DynSpec

-----------------------------------------------------------------------------
(* Listings *)

\* A set of naturals has a least element.
LEMMA LeastNat ==
    ASSUME NEW T, T \subseteq Nat, T # {}
    PROVE  \E x \in T : \A y \in T : x <= y
<1> DEFINE R == {p \in Nat \X Nat : p[1] < p[2]}
<1>1. IsWellFoundedOn(R, Nat)
  BY NatLessThanWellFounded DEF OpToRel
<1>2. \E x \in T : \A y \in T : <<y, x>> \notin R
  <2> HIDE DEF R
  <2> QED
    BY <1>1, WFMin
<1>3. PICK x \in T : \A y \in T : <<y, x>> \notin R
  BY <1>2
<1>4. ASSUME NEW y \in T PROVE x <= y
  <2>1. x \in Nat /\ y \in Nat /\ ~(y < x)
    BY <1>3
  <2> QED
    BY <2>1
<1> QED
  BY <1>3, <1>4

Pairs == Int \X Int

\* Entries are in a strict total order.
LEMMA BeforeOrder ==
    /\ \A a \in Pairs : ~Before(a, a)
    /\ \A a, b \in Pairs : Before(a, b) => ~Before(b, a)
    /\ \A a, b \in Pairs : a = b \/ Before(a, b) \/ Before(b, a)
    /\ \A a, b, c \in Pairs : Before(a, b) /\ Before(b, c) => Before(a, c)
<1>1. \A a, b \in Pairs : a[1] = b[1] /\ a[2] = b[2] => a = b
  BY DEF Pairs
<1>2. \A a \in Pairs : a[1] \in Int /\ a[2] \in Int
  BY DEF Pairs
<1>3. \A a \in Pairs : ~Before(a, a)
  BY <1>2 DEF Before
<1>4. \A a, b \in Pairs : Before(a, b) => ~Before(b, a)
  BY <1>2 DEF Before
<1>5. \A a, b \in Pairs : a = b \/ Before(a, b) \/ Before(b, a)
  BY <1>1, <1>2 DEF Before
<1>6. \A a, b, c \in Pairs : Before(a, b) /\ Before(b, c) => Before(a, c)
  BY <1>2 DEF Before
<1> QED
  BY <1>3, <1>4, <1>5, <1>6

\* How many entries of s come before e.
Rank(s, e) == Cardinality({f \in s : Before(f, e)})

LEMMA RankGrows ==
    ASSUME NEW s \in SUBSET Pairs, IsFiniteSet(s), NEW d \in s, NEW e \in s
    PROVE  /\ Rank(s, e) \in Nat /\ Rank(s, e) < Cardinality(s)
           /\ Before(d, e) => Rank(s, d) < Rank(s, e)
           /\ Rank(s, d) < Rank(s, e) => Before(d, e)
<1>0. ASSUME NEW a \in s
      PROVE  Rank(s, a) \in Nat /\ Rank(s, a) < Cardinality(s) /\ IsFiniteSet({f \in s : Before(f, a)})
  <2>1. {f \in s : Before(f, a)} \subseteq s /\ a \notin {f \in s : Before(f, a)}
    BY BeforeOrder
  <2>2. /\ IsFiniteSet({f \in s : Before(f, a)})
        /\ Cardinality({f \in s : Before(f, a)}) <= Cardinality(s)
        /\ Cardinality({f \in s : Before(f, a)}) # Cardinality(s)
    BY <2>1, FS_Subset
  <2>3. Cardinality({f \in s : Before(f, a)}) \in Nat /\ Cardinality(s) \in Nat
    BY <2>2, FS_CardinalityType
  <2> QED
    BY <2>2, <2>3 DEF Rank
<1>1. ASSUME NEW a \in s, NEW b \in s, Before(a, b) PROVE Rank(s, a) < Rank(s, b)
  <2>1. /\ {f \in s : Before(f, a)} \subseteq {f \in s : Before(f, b)}
        /\ a \in {f \in s : Before(f, b)} /\ a \notin {f \in s : Before(f, a)}
    BY <1>1, BeforeOrder
  <2>2. Rank(s, a) <= Rank(s, b) /\ Rank(s, a) # Rank(s, b)
    BY <2>1, <1>0, FS_Subset DEF Rank
  <2>3. Rank(s, a) \in Nat /\ Rank(s, b) \in Nat
    BY <1>0
  <2> QED
    BY <2>2, <2>3
<1>2. ASSUME Rank(s, d) < Rank(s, e) PROVE Before(d, e)
  <2>0. Rank(s, d) \in Nat /\ Rank(s, e) \in Nat
    BY <1>0
  <2>1. d = e \/ Before(d, e) \/ Before(e, d)
    BY BeforeOrder
  <2>2. CASE Before(e, d)
    <3>1. Rank(s, e) < Rank(s, d)
      BY <1>1, <2>2
    <3> QED
      BY <3>1, <1>2, <2>0
  <2>3. CASE d = e
    BY <2>3, <1>2, <2>0
  <2> QED
    BY <2>1, <2>2, <2>3
<1> QED
  BY <1>0, <1>1, <1>2

\* A finite set of entries has a first and a last one.
LEMMA LeastEntry ==
    ASSUME NEW s \in SUBSET Pairs, IsFiniteSet(s), s # {}
    PROVE  Least(s) \in s /\ \A f \in s \ {Least(s)} : Before(Least(s), f)
<1>1. PICK e \in s : \A f \in s : Rank(s, e) <= Rank(s, f)
  <2> DEFINE T == {Rank(s, f) : f \in s}
  <2>1. T \subseteq Nat /\ T # {}
    BY RankGrows
  <2>2. PICK n \in T : \A m \in T : n <= m
    <3> HIDE DEF T
    <3> QED
      BY <2>1, LeastNat
  <2> QED
    BY <2>2
<1>2. ASSUME NEW f \in s \ {e} PROVE Before(e, f)
  <2>1. e = f \/ Before(e, f) \/ Before(f, e)
    BY BeforeOrder
  <2>2. Before(f, e) => Rank(s, f) < Rank(s, e)
    BY RankGrows
  <2>3. Rank(s, f) \in Nat /\ Rank(s, e) \in Nat /\ Rank(s, e) <= Rank(s, f)
    BY <1>1, RankGrows
  <2> QED
    BY <2>1, <2>2, <2>3
<1>3. \E x \in s : \A f \in s \ {x} : Before(x, f)
  BY <1>2
<1> QED
  BY <1>3 DEF Least

LEMMA LastEntry ==
    ASSUME NEW s \in SUBSET Pairs, IsFiniteSet(s), s # {}
    PROVE  LastOf(s) \in s /\ \A f \in s \ {LastOf(s)} : Before(f, LastOf(s))
<1>1. PICK e \in s : \A f \in s : Rank(s, f) <= Rank(s, e)
  <2> DEFINE T == {Cardinality(s) - Rank(s, f) : f \in s}
  <2>0. Cardinality(s) \in Nat /\ \A f \in s : Rank(s, f) \in Nat /\ Rank(s, f) < Cardinality(s)
    BY RankGrows, FS_CardinalityType
  <2>1. T \subseteq Nat /\ T # {}
    BY <2>0
  <2>2. PICK n \in T : \A m \in T : n <= m
    <3> HIDE DEF T
    <3> QED
      BY <2>1, LeastNat
  <2>3. PICK e \in s : n = Cardinality(s) - Rank(s, e)
    BY <2>2
  <2>4. ASSUME NEW f \in s PROVE Rank(s, f) <= Rank(s, e)
    <3>1. Cardinality(s) - Rank(s, e) <= Cardinality(s) - Rank(s, f)
      BY <2>2, <2>3
    <3> QED
      BY <3>1, <2>0
  <2> QED
    BY <2>4
<1>2. ASSUME NEW f \in s \ {e} PROVE Before(f, e)
  <2>1. e = f \/ Before(e, f) \/ Before(f, e)
    BY BeforeOrder
  <2>2. Before(e, f) => Rank(s, e) < Rank(s, f)
    BY RankGrows
  <2>3. Rank(s, f) \in Nat /\ Rank(s, e) \in Nat /\ Rank(s, f) <= Rank(s, e)
    BY <1>1, RankGrows
  <2> QED
    BY <2>1, <2>2, <2>3
<1>3. \E x \in s : \A f \in s \ {x} : Before(f, x)
  BY <1>2
<1> QED
  BY <1>3 DEF LastOf

\* A page is a beginning of the entries that are left, and not an empty one.
LEMMA PageIsFirst ==
    ASSUME NEW s \in SUBSET Pairs, IsFiniteSet(s), NEW n \in Nat \ {0}
    PROVE  /\ First(s, n) \subseteq s /\ IsFiniteSet(First(s, n))
           /\ \A e \in First(s, n), f \in s \ First(s, n) : Before(e, f)
           /\ s # {} => First(s, n) # {}
<1>1. First(s, n) \subseteq s /\ IsFiniteSet(First(s, n))
  BY FS_Subset DEF First
<1>2. ASSUME NEW e \in First(s, n), NEW f \in s \ First(s, n) PROVE Before(e, f)
  <2>1. Rank(s, e) < n /\ ~(Rank(s, f) < n) /\ e \in s
    BY DEF First, Rank
  <2>2. Rank(s, e) \in Nat /\ Rank(s, f) \in Nat
    BY <2>1, RankGrows
  <2>3. Rank(s, e) < Rank(s, f)
    BY <2>1, <2>2
  <2> QED
    BY <2>1, <2>3, RankGrows
<1>3. ASSUME s # {} PROVE First(s, n) # {}
  <2>1. Least(s) \in s /\ \A f \in s \ {Least(s)} : Before(Least(s), f)
    BY <1>3, LeastEntry
  <2>2. {f \in s : Before(f, Least(s))} = {}
    BY <2>1, BeforeOrder
  <2>3. Cardinality({f \in s : Before(f, Least(s))}) < n
    BY <2>2, FS_EmptySet
  <2> QED
    BY <2>1, <2>3 DEF First
<1> QED
  BY <1>1, <1>2, <1>3

\* Ranks are counted without gaps.
LEMMA RankCount ==
    ASSUME NEW s \in SUBSET Pairs, IsFiniteSet(s), NEW n \in Nat, n <= Cardinality(s)
    PROVE  Cardinality({e \in s : Rank(s, e) < n}) = n
<1> DEFINE Low(m) == {e \in s : Rank(s, e) < m}
           T == {m \in Nat : m <= Cardinality(s) /\ Cardinality(Low(m)) # m}
<1>0. Cardinality(s) \in Nat /\ \A e \in s : Rank(s, e) \in Nat
  BY RankGrows, FS_CardinalityType
<1> SUFFICES ASSUME T # {} PROVE FALSE
  BY DEF Rank
<1>1. PICK m \in T : \A k \in T : m <= k
  <2>1. T \subseteq Nat
    OBVIOUS
  <2> HIDE DEF T
  <2> QED
    BY <2>1, LeastNat
<1>2. m \in Nat /\ m <= Cardinality(s) /\ Cardinality(Low(m)) # m
  BY <1>1
<1>3. m # 0
  <2>1. Low(0) = {}
    BY <1>0
  <2> QED
    BY <2>1, <1>2, FS_EmptySet
<1> DEFINE k == m - 1
<1>4. k \in Nat /\ k < m /\ k < Cardinality(s) /\ m = k + 1
  BY <1>0, <1>2, <1>3
<1>5. Cardinality(Low(k)) = k
  <2>1. k \notin T
    BY <1>1, <1>4
  <2> QED
    BY <2>1, <1>4, <1>0
<1>6. Low(k) \subseteq s /\ IsFiniteSet(Low(k)) /\ s \ Low(k) # {} /\ IsFiniteSet(s \ Low(k))
  <2>1. Low(k) \subseteq s
    OBVIOUS
  <2> HIDE DEF Low
  <2>2. IsFiniteSet(Low(k)) /\ Low(k) # s /\ IsFiniteSet(s \ Low(k))
    BY <2>1, <1>4, <1>5, FS_Subset, FS_Difference
  <2> QED
    BY <2>1, <2>2
<1> DEFINE e == Least(s \ Low(k))
<1>7. e \in s /\ e \notin Low(k) /\ \A f \in s \ Low(k) : f = e \/ Before(e, f)
  <2>1. s \ Low(k) \in SUBSET Pairs
    OBVIOUS
  <2> HIDE DEF Low
  <2> QED
    BY <2>1, <1>6, LeastEntry
<1> HIDE DEF e
<1>8. {f \in s : Before(f, e)} = Low(k)
  <2>1. ASSUME NEW f \in s, Before(f, e) PROVE f \in Low(k)
    <3>1. f # e /\ ~Before(e, f)
      BY <2>1, <1>7, BeforeOrder
    <3> QED
      BY <3>1, <1>7
  <2>2. ASSUME NEW f \in Low(k) PROVE Before(f, e)
    <3>1. Rank(s, f) < k /\ ~(Rank(s, e) < k) /\ f \in s
      BY <1>7
    <3>2. Rank(s, f) < Rank(s, e)
      BY <3>1, <1>0, <1>4, <1>7
    <3> QED
      BY <3>1, <3>2, <1>7, RankGrows
  <2> QED
    BY <2>1, <2>2
<1>9. Rank(s, e) = k
  BY <1>5, <1>8 DEF Rank
<1>10. Low(m) = Low(k) \cup {e}
  <2>1. ASSUME NEW f \in Low(m), f # e PROVE f \in Low(k)
    <3>1. f \in s /\ Rank(s, f) \in Nat /\ Rank(s, f) <= k
      BY <2>1, <1>0, <1>4
    <3>2. ~Before(e, f)
      <4>1. Before(e, f) => Rank(s, e) < Rank(s, f)
        BY <1>7, <3>1, RankGrows
      <4> QED
        BY <4>1, <1>9, <3>1, <1>4
    <3> QED
      BY <3>1, <3>2, <2>1, <1>7
  <2>2. e \in Low(m)
    BY <1>7, <1>9, <1>4
  <2>3. Low(k) \subseteq Low(m)
    BY <1>0, <1>4
  <2> QED
    BY <2>1, <2>2, <2>3
<1>11. Cardinality(Low(m)) = k + 1
  <2> HIDE DEF Low, k
  <2>1. Cardinality(Low(k) \cup {e}) = Cardinality(Low(k)) + 1
    BY <1>6, <1>7, FS_AddElement
  <2> QED
    BY <1>5, <1>10, <2>1
<1> QED
  BY <1>2, <1>4, <1>11

\* The page from the m-th entry on.
LEMMA OffsetPage ==
    ASSUME NEW s \in SUBSET Pairs, IsFiniteSet(s), NEW m \in Nat, m <= Cardinality(s), NEW n \in Nat
    PROVE  First({i \in s : Rank(s, i) >= m}, n) = {i \in s : m <= Rank(s, i) /\ Rank(s, i) < m + n}
<1> DEFINE B == {i \in s : Rank(s, i) >= m}
           Low == {i \in s : Rank(s, i) < m}
<1>0. \A e \in s : Rank(s, e) \in Nat
  BY RankGrows
<1>1. Cardinality(Low) = m
  BY RankCount
<1>2. ASSUME NEW i \in B PROVE Rank(B, i) = Rank(s, i) - m
  <2> DEFINE P == {j \in s : Before(j, i)}
  <2>1. Low \subseteq P
    <3>1. ASSUME NEW j \in Low PROVE Before(j, i)
      <4>1. Rank(s, j) < Rank(s, i)
        BY <1>0
      <4> QED
        BY <4>1, RankGrows
    <3> QED
      BY <3>1
  <2>2. {j \in B : Before(j, i)} = P \ Low
    BY <1>0
  <2>3. IsFiniteSet(P)
    BY FS_Subset
  <2>4. Cardinality(P \ Low) = Cardinality(P) - Cardinality(Low)
    <3>1. P \cap Low = Low
      BY <2>1
    <3> HIDE DEF P, Low
    <3> QED
      BY <2>3, <3>1, FS_Difference
  <2> QED
    BY <2>2, <2>4, <1>1 DEF Rank
<1>3. First(B, n) = {i \in B : Rank(B, i) < n}
  BY DEF First, Rank
<1>4. ASSUME NEW i \in B PROVE Rank(B, i) < n <=> Rank(s, i) < m + n
  <2>1. Rank(B, i) = Rank(s, i) - m
    BY <1>2
  <2> QED
    BY <2>1, <1>0
<1> QED
  BY <1>0, <1>3, <1>4

\* Positions of names and of common prefixes do not interleave.
Position(n) == IF delimited /\ Folder[n] # None THEN Folder[n] ELSE n

LEMMA Blocks ==
    ASSUME NEW i \in ListNames, NEW j \in ListNames
    PROVE  /\ Position(i) \in Int /\ Position(i) <= i
           /\ delimited /\ Folder[i] # None =>
                 /\ ~(Position(i) < Position(j) /\ Position(j) <= i)
                 /\ Position(j) = Position(i) => Folder[j] # None
  BY ListingConstants DEF Position

\* An entry that an item shows up as.
LEMMA ShownFacts ==
    ASSUME NEW i \in Items
    PROVE  /\ i \in Pairs /\ i[1] \in ListNames /\ i[1] \in Int /\ i[2] \in Nat
           /\ kind \notin {"versions", "uploads"} => i[2] = 0
           /\ Shown(i) \in Pairs /\ Shown(i)[1] = Position(i[1])
           /\ Shown(i)[2] = IF delimited /\ Folder[i[1]] # None THEN -1 ELSE i[2]
           /\ Shown(i)[2] # -1 => Shown(i) = i
<1>1. /\ i \in Pairs /\ i[1] \in ListNames /\ i[1] \in Int /\ i[2] \in Nat
      /\ kind \notin {"versions", "uploads"} => i[2] = 0
  <2>0. /\ VersionedNames \subseteq ListNames /\ ListNames \subseteq Int /\ ListSeqs \subseteq Nat
    BY ListingConstants
  <2>1. CASE kind \in {"versions", "uploads"}
    <3>1. i \in VersionedNames \X ListSeqs
      BY <2>1 DEF Items
    <3>2. i[1] \in VersionedNames /\ i[2] \in ListSeqs /\ i = <<i[1], i[2]>>
      BY <3>1
    <3>3. i[1] \in ListNames /\ i[1] \in Int /\ i[2] \in Nat
      BY <2>0, <3>2
    <3>4. i \in Int \X Int
      BY <3>2, <3>3
    <3> QED
      BY <2>1, <3>3, <3>4 DEF Pairs
  <2>2. CASE kind \notin {"versions", "uploads"}
    <3>1. i \in ListNames \X {0}
      BY <2>2 DEF Items
    <3>2. i[1] \in ListNames /\ i[2] = 0 /\ i = <<i[1], i[2]>>
      BY <3>1
    <3>3. i[1] \in Int
      BY <2>0, <3>2
    <3>4. i \in Int \X Int
      BY <3>2, <3>3
    <3> QED
      BY <3>2, <3>3, <3>4 DEF Pairs
  <2> QED
    BY <2>1, <2>2
<1>2. Position(i[1]) \in Int
  BY <1>1, Blocks
<1>3. CASE delimited /\ Folder[i[1]] # None
  BY <1>1, <1>2, <1>3 DEF Shown, Position, Pairs
<1>4. CASE ~(delimited /\ Folder[i[1]] # None)
  BY <1>1, <1>2, <1>4 DEF Shown, Position, Pairs
<1> QED
  BY <1>1, <1>3, <1>4

\* One entry at each position, except in listings of versions and uploads.
LEMMA OneAtPosition ==
    ASSUME NEW i \in Items, NEW j \in Items, kind \notin {"versions", "uploads"},
           Shown(i)[1] = Shown(j)[1]
    PROVE  Shown(i) = Shown(j)
<1>1. Position(i[1]) = Position(j[1]) /\ i[1] \in ListNames /\ j[1] \in ListNames
  BY ShownFacts
<1>2. (delimited /\ Folder[i[1]] # None) = (delimited /\ Folder[j[1]] # None)
  BY <1>1, Blocks
<1>3. i[2] = 0 /\ j[2] = 0
  BY ShownFacts
<1>4. Shown(i)[2] = Shown(j)[2]
  BY <1>2, <1>3, ShownFacts
<1>5. Shown(i) \in Pairs /\ Shown(j) \in Pairs
  BY ShownFacts
<1> QED
  BY <1>4, <1>5 DEF Pairs

\* The entry e was listed before the marker was given.
Past(e) == IF kind = "blob" THEN Before(e, marker) ELSE ~Before(marker, e)

\* What is known of a marker that is an entry.
MarkerOK ==
    /\ \E j \in Items : marker = Shown(j)
    /\ ~shaken /\ kind = "versions" /\ marker[2] # -1 => marker \in items

ListTypeOK ==
    /\ kind \in Kinds /\ delimited \in BOOLEAN /\ size \in Nat \ {0} /\ done \in BOOLEAN
    /\ shaken \in BOOLEAN /\ (kind \in {"uploads", "offset"} => ~delimited)
    /\ items \subseteq Items /\ IsFiniteSet(items) /\ steady \subseteq items

\* What is listed is what lies before the marker.
ListInv ==
    /\ ListTypeOK /\ PagesExact
    /\ seen \subseteq Pairs
    /\ done => marker = None
    /\ ~done /\ marker = None => seen = {}
    /\ marker # None /\ kind = "offset" =>
          /\ marker \in Nat
          /\ ~shaken => /\ marker <= Cardinality(items)
                        /\ seen = {i \in items : Rank(items, i) < marker}
    /\ marker # None /\ kind # "offset" =>
          /\ MarkerOK
          /\ ~shaken => /\ \A e \in seen : Past(e)
                        /\ \A i \in steady : Past(Shown(i)) => Shown(i) \in seen

\* The comparison of every listing goes on where the page before ended.
LEMMA RestIsAfter ==
    ASSUME ListTypeOK, kind # "offset", ~shaken, marker # None, MarkerOK
    PROVE  Rest = {e \in AllShown(items) : ~Past(e)}
<1>0. PICK j \in Items : marker = Shown(j)
  BY DEF MarkerOK
<1>1. /\ marker \in Pairs /\ marker[1] = Position(j[1]) /\ j[1] \in ListNames /\ marker[1] \in Int
      /\ marker[2] \in Int /\ (marker[2] = -1) = (delimited /\ Folder[j[1]] # None)
  BY <1>0, ShownFacts, Blocks DEF Pairs
<1>2. ASSUME NEW i \in items
      PROVE  /\ i \in Items /\ i \in Pairs /\ i[1] \in ListNames /\ i[1] \in Int /\ i[2] \in Nat
             /\ Shown(i) \in Pairs /\ Shown(i)[1] = Position(i[1]) /\ Shown(i)[1] \in Int
             /\ Shown(i)[2] = IF delimited /\ Folder[i[1]] # None THEN -1 ELSE i[2]
  BY ShownFacts, Blocks DEF ListTypeOK
<1>3. CASE kind \in {"blob", "gcs"}
  <2>1. ASSUME NEW i \in items
        PROVE  /\ kind = "blob" => (Shown(i)[1] >= marker[1] <=> ~Past(Shown(i)))
               /\ kind = "gcs" => (Shown(i)[1] > marker[1] <=> ~Past(Shown(i)))
    <3>1. Shown(i)[1] = marker[1] => Shown(i) = marker
      BY <1>0, <1>2, <1>3, OneAtPosition
    <3>2. ~Before(marker, marker)
      BY <1>1, BeforeOrder
    <3> QED
      BY <3>1, <3>2, <1>1, <1>2 DEF Past, Before
  <2>2. \A e \in AllShown(items) : \E i \in items : e = Shown(i)
    BY DEF AllShown
  <2>3. CASE kind = "blob"
    BY <2>1, <2>2, <2>3 DEF Rest, FromMarker
  <2>4. CASE kind = "gcs"
    BY <2>1, <2>2, <2>4 DEF Rest, AfterToken
  <2> QED
    BY <1>3, <2>3, <2>4
<1>4. ASSUME NEW i \in items, kind \in {"s3", "versions"}, i[1] >= marker[1],
             ~(delimited /\ Folder[i[1]] = marker[1]), delimited /\ Folder[i[1]] # None
      PROVE  Shown(i)[1] > marker[1]
  <2>1. ~(Position(i[1]) < marker[1]) /\ Position(i[1]) = Folder[i[1]]
    BY <1>1, <1>2, <1>4, Blocks DEF Position
  <2> QED
    BY <2>1, <1>1, <1>2, <1>4
<1>5. ASSUME NEW i \in items, delimited /\ Folder[i[1]] # None, Shown(i)[1] = marker[1]
      PROVE  marker[2] = -1
  BY <1>1, <1>2, <1>5, Blocks
<1>6. ASSUME NEW i \in items
      PROVE  Shown(i)[1] <= i[1] /\ (Shown(i)[2] # -1 => Shown(i) = i)
  BY <1>2, Blocks, ShownFacts
<1>7. CASE kind = "s3"
  <2>1. ASSUME NEW i \in items
        PROVE  (i[1] > marker[1] /\ ~(delimited /\ Folder[i[1]] = marker[1])) <=> ~Past(Shown(i))
    <3>1. Shown(i)[1] = marker[1] => Shown(i) = marker
      BY <1>0, <1>2, <1>7, OneAtPosition
    <3>2. ~Before(marker, marker)
      BY <1>1, BeforeOrder
    <3>3. ~Past(Shown(i)) <=> Shown(i)[1] > marker[1]
      BY <3>1, <3>2, <1>1, <1>2, <1>7 DEF Past, Before
    <3>4. CASE delimited /\ Folder[i[1]] # None
      <4>1. Shown(i)[1] = Folder[i[1]] /\ Shown(i)[1] <= i[1]
        BY <1>2, <1>6, <3>4 DEF Position
      <4>2. i[1] > marker[1] /\ Folder[i[1]] # marker[1] => Shown(i)[1] > marker[1]
        BY <1>1, <1>2, <1>4, <1>7, <3>4
      <4> QED
        BY <4>1, <4>2, <3>3, <3>4, <1>1, <1>2
    <3>5. CASE ~(delimited /\ Folder[i[1]] # None)
      <4>1. Shown(i)[1] = i[1] /\ ~(delimited /\ Folder[i[1]] = marker[1])
        BY <1>1, <1>2, <3>5, ListingConstants DEF Position
      <4> QED
        BY <4>1, <3>3
    <3> QED
      BY <3>4, <3>5
  <2> QED
    BY <2>1, <1>7 DEF Rest, AfterKey, AllShown
<1>8. CASE kind = "versions"
  <2>1. ASSUME NEW i \in items
        PROVE  (/\ i[1] >= marker[1]
                /\ IF marker[2] = -1 THEN i[1] > marker[1] ELSE ~SkippedVersion(i)
                /\ ~(delimited /\ Folder[i[1]] = marker[1])) <=> ~Past(Shown(i))
    <3>0. ~Past(Shown(i)) <=> Before(marker, Shown(i))
      BY <1>8 DEF Past
    <3>1. Before(marker, Shown(i)) <=>
             \/ marker[1] < Shown(i)[1]
             \/ marker[1] = Shown(i)[1] /\ marker[2] > Shown(i)[2]
      BY <1>8 DEF Before
    <3>2. marker[2] # -1 => marker \in items
      BY <1>8 DEF MarkerOK
    <3>3. marker[2] # -1 => (SkippedVersion(i) <=> i[1] = marker[1] /\ ~(marker[2] > i[2]))
      BY <3>2, <1>1, <1>2, <1>8 DEF SkippedVersion, Before
    <3>4. CASE delimited /\ Folder[i[1]] # None
      <4>1. Shown(i)[1] = Folder[i[1]] /\ Shown(i)[1] <= i[1] /\ Shown(i)[2] = -1
        BY <1>2, <1>6, <3>4 DEF Position
      <4>2. i[1] >= marker[1] /\ Folder[i[1]] # marker[1] => Shown(i)[1] > marker[1]
        BY <1>1, <1>2, <1>4, <1>8, <3>4
      <4>3. Shown(i)[1] = marker[1] => marker[2] = -1
        BY <1>5, <3>4
      <4>4. Before(marker, Shown(i)) <=> marker[1] < Shown(i)[1]
        BY <3>1, <4>1, <4>3, <1>1, <1>2
      <4>5. marker[1] < Shown(i)[1] => i[1] > marker[1] /\ Folder[i[1]] # marker[1]
        BY <4>1, <1>1, <1>2
      <4> QED
        BY <3>0, <4>2, <4>4, <4>5, <3>3, <3>4, <1>1, <1>2
    <3>5. CASE ~(delimited /\ Folder[i[1]] # None)
      <4>1. Shown(i)[1] = i[1] /\ Shown(i)[2] = i[2] /\ ~(delimited /\ Folder[i[1]] = marker[1])
        BY <1>1, <1>2, <3>5, ListingConstants DEF Position
      <4>2. CASE marker[2] = -1
        BY <4>1, <4>2, <3>0, <3>1, <1>1, <1>2
      <4>3. CASE marker[2] # -1
        BY <4>1, <4>3, <3>0, <3>1, <3>3, <1>1, <1>2
      <4> QED
        BY <4>2, <4>3
    <3> QED
      BY <3>4, <3>5
  <2> QED
    BY <2>1, <1>8 DEF Rest, AfterVersion, AllShown
<1>9. CASE kind = "uploads"
  <2>1. \A i \in items : Shown(i) = i
    BY <1>9 DEF Shown, ListTypeOK
  <2>2. AllShown(items) = items
    BY <2>1 DEF AllShown
  <2>3. ASSUME NEW i \in items
        PROVE  (i[1] > marker[1] \/ (i[1] = marker[1] /\ i[2] > marker[2])) <=> ~Past(i)
    BY <1>1, <1>2, <1>9 DEF Past, Before
  <2> QED
    BY <2>2, <2>3, <1>9 DEF Rest, AfterUpload
<1> QED
  BY <1>3, <1>7, <1>8, <1>9 DEF ListTypeOK, Kinds

\* The entries that are left are entries, finitely many.
LEMMA RestFacts ==
    ASSUME ListTypeOK
    PROVE  /\ AllShown(items) \subseteq Pairs /\ IsFiniteSet(AllShown(items))
           /\ Rest \subseteq AllShown(items)
<1>1. AllShown(items) \subseteq Pairs
  BY ShownFacts DEF AllShown, ListTypeOK
<1>2. IsFiniteSet(AllShown(items))
  <2> DEFINE f == [i \in items |-> Shown(i)]
  <2>1. f \in Surjection(items, AllShown(items))
    BY DEF Surjection, AllShown
  <2> QED
    BY <2>1, FS_Surjection DEF ListTypeOK
<1>3. kind \in {"uploads", "offset"} => AllShown(items) = items
  BY DEF AllShown, Shown, ListTypeOK
<1>4. Rest \subseteq AllShown(items)
  <2>1. CASE kind = "blob"
    BY <2>1 DEF Rest, FromMarker
  <2>2. CASE kind = "gcs"
    BY <2>2 DEF Rest, AfterToken
  <2>3. CASE kind = "s3"
    BY <2>3 DEF Rest, AfterKey, AllShown
  <2>4. CASE kind = "versions"
    BY <2>4 DEF Rest, AfterVersion, AllShown
  <2>5. CASE kind = "uploads"
    BY <2>5, <1>3 DEF Rest, AfterUpload
  <2>6. CASE kind = "offset"
    BY <2>6, <1>3 DEF Rest, Beyond
  <2> QED
    BY <2>1, <2>2, <2>3, <2>4, <2>5, <2>6 DEF ListTypeOK, Kinds
<1> QED
  BY <1>1, <1>2, <1>4

\* The first page starts with the first entry.
LEMMA RestIsAll ==
    ASSUME ListTypeOK, marker = None
    PROVE  Rest = AllShown(items)
<1>1. kind \in {"uploads", "offset"} => AllShown(items) = items
  BY DEF AllShown, Shown, ListTypeOK
<1>2. CASE kind \in {"blob", "gcs"}
  BY <1>2 DEF Rest, FromMarker, AfterToken
<1>3. CASE kind \in {"s3", "versions"}
  BY <1>3 DEF Rest, AfterKey, AfterVersion, AllShown
<1>4. CASE kind \in {"uploads", "offset"}
  BY <1>1, <1>4 DEF Rest, AfterUpload, Beyond
<1> QED
  BY <1>2, <1>3, <1>4 DEF ListTypeOK, Kinds

LEMMA ListInvInit == ListInit => ListInv
<1> SUFFICES ASSUME ListInit PROVE ListInv
  OBVIOUS
<1>1. ListTypeOK
  BY ListingConstants DEF ListInit, ListTypeOK
<1> QED
  BY <1>1 DEF ListInit, ListInv, PagesExact, NothingMissed, NothingTwice

\* Writes between two pages.
LEMMA WriteKeeps ==
    ASSUME ListInv, NEW i \in Items, PutListed(i) \/ DeleteListed(i)
    PROVE  ListInv'
<1>1. /\ ~done /\ UNCHANGED reader /\ shaken' = (shaken \/ Shakes(i))
      /\ items' \in {items \cup {i}, items \ {i}} /\ steady' \subseteq steady
      /\ steady' \subseteq items'
  <2>1. CASE PutListed(i)
    BY <2>1 DEF PutListed, ListInv, ListTypeOK
  <2>2. CASE DeleteListed(i)
    BY <2>2 DEF DeleteListed, ListInv, ListTypeOK, reader
  <2> QED
    BY <2>1, <2>2
<1>2. /\ kind' = kind /\ delimited' = delimited /\ size' = size /\ marker' = marker
      /\ seen' = seen /\ done' = done /\ twice' = twice /\ Items' = Items
  BY <1>1 DEF reader, Items
<1>3. ListTypeOK'
  <2>1. IsFiniteSet(items')
    BY <1>1, FS_AddElement, FS_RemoveElement DEF ListInv, ListTypeOK
  <2>2. items' \subseteq Items'
    BY <1>1, <1>2 DEF ListInv, ListTypeOK
  <2>3. shaken' \in BOOLEAN
    BY <1>1 DEF ListInv, ListTypeOK
  <2> QED
    BY <1>1, <1>2, <2>1, <2>2, <2>3 DEF ListInv, ListTypeOK
<1>4. \A e : Shown(e)' = Shown(e)
  BY <1>2 DEF Shown
<1>5. \A e : Past(e)' = Past(e)
  BY <1>2 DEF Past, Before
<1>6. ~shaken' => ~shaken /\ ~Shakes(i)
  BY <1>1
<1>7. PagesExact'
  BY <1>1, <1>2, <1>6 DEF ListInv, PagesExact, NothingMissed, NothingTwice
<1>8. CASE marker = None
  BY <1>1, <1>2, <1>3, <1>7, <1>8 DEF ListInv, Pairs
<1>9. CASE marker # None /\ kind = "offset"
  <2>1. shaken'
    BY <1>1, <1>9 DEF Shakes
  <2> QED
    BY <1>1, <1>2, <1>3, <1>7, <1>9, <2>1 DEF ListInv, Pairs
<1>10. CASE marker # None /\ kind # "offset"
  <2>1. MarkerOK'
    <3>1. \E j \in Items' : marker' = Shown(j)'
      BY <1>2, <1>4, <1>10 DEF ListInv, MarkerOK
    <3>2. ASSUME ~shaken', kind' = "versions", marker'[2] # -1 PROVE marker' \in items'
      BY <1>1, <1>2, <1>6, <1>10, <3>2 DEF ListInv, MarkerOK, Shakes
    <3> QED
      BY <3>1, <3>2 DEF MarkerOK
  <2>2. ASSUME ~shaken'
        PROVE  /\ \A e \in seen' : Past(e)'
               /\ \A j \in steady' : Past(Shown(j))' => Shown(j)' \in seen'
    BY <1>1, <1>2, <1>4, <1>5, <1>6, <1>10, <2>2 DEF ListInv
  <2> QED
    BY <1>1, <1>2, <1>3, <1>7, <1>10, <2>1, <2>2 DEF ListInv, Pairs
<1> QED
  BY <1>8, <1>9, <1>10

\* A page of an offset listing.
LEMMA OffsetPageKeeps ==
    ASSUME ListInv, Page, kind = "offset" PROVE ListInv'
<1> DEFINE page == First(Rest, size)
           from == IF marker = None THEN 0 ELSE marker
<1>1. /\ ~done /\ seen' = (IF Refused THEN seen ELSE seen \cup page)
      /\ twice' = (IF Refused THEN twice ELSE twice \cup (seen \cap page))
      /\ done' = (Refused \/ page = Rest)
      /\ marker' = (IF done' THEN None ELSE from + size)
      /\ items' = items /\ kind' = kind /\ delimited' = delimited /\ size' = size
      /\ steady' = steady /\ shaken' = shaken
  BY DEF Page, NextMarker
<1>2. ListTypeOK
  BY DEF ListInv
<1>3. Items' = Items /\ AllShown(steady)' = AllShown(steady)
  BY <1>1 DEF Items, AllShown, Shown
<1>4. ListTypeOK'
  BY <1>1, <1>2, <1>3 DEF ListTypeOK
<1>5. items \in SUBSET Pairs /\ IsFiniteSet(items) /\ \A i \in items : Shown(i) = i
  <2>1. items \subseteq Items /\ ~delimited
    BY <1>2 DEF ListTypeOK
  <2> QED
    BY <2>1, <1>2, ShownFacts DEF ListTypeOK, Shown
<1>6. from \in Nat /\ (marker # None => marker \in Nat) /\ size \in Nat \ {0}
  BY <1>2 DEF ListInv, ListTypeOK
<1>7. /\ Rest = {i \in items : Rank(items, i) >= from} /\ Rest \in SUBSET Pairs
      /\ page \subseteq Rest /\ IsFiniteSet(Rest)
  <2>1. \A i \in items : Rank(items, i) \in Nat
    BY <1>5, RankGrows
  <2>2. Rest = {i \in items : Rank(items, i) >= from}
    BY <2>1 DEF Rest, Beyond, Rank
  <2> QED
    BY <2>2, <1>5, FS_Subset DEF First
<1>8. seen' \subseteq Pairs
  BY <1>1, <1>7 DEF ListInv
<1>9. done' => marker' = None
  BY <1>1
<1>10. ~done' => marker' # None /\ marker' \in Nat
  BY <1>1, <1>6, ListingConstants
<1>11. CASE shaken
  BY <1>1, <1>4, <1>8, <1>9, <1>10, <1>11 DEF ListInv, PagesExact, NothingMissed, NothingTwice, Pairs
<1>12. CASE ~shaken
  <2>1. from <= Cardinality(items) /\ ~Refused /\ seen = {i \in items : Rank(items, i) < from}
    <3>1. Cardinality(items) \in Nat /\ \A i \in items : Rank(items, i) \in Nat
      BY <1>5, RankGrows, FS_CardinalityType
    <3>2. CASE marker = None
      BY <3>1, <3>2, <1>1 DEF ListInv, Refused
    <3>3. CASE marker # None
      BY <3>1, <3>3, <1>12, <1>6 DEF ListInv, Refused
    <3> QED
      BY <3>2, <3>3
  <2>2. page = {i \in items : from <= Rank(items, i) /\ Rank(items, i) < from + size}
    BY <1>5, <1>6, <1>7, <2>1, OffsetPage
  <2>3. \A i \in items : Rank(items, i) \in Nat
    BY <1>5, RankGrows
  <2>4. seen \cap page = {} /\ seen \cup page = {i \in items : Rank(items, i) < from + size}
    BY <2>1, <2>2, <2>3, <1>6
  <2>5. NothingTwice'
    BY <1>1, <1>12, <2>1, <2>4 DEF ListInv, PagesExact, NothingTwice
  <2>6. ASSUME done' PROVE AllShown(steady) \subseteq seen'
    <3>1. page = Rest /\ seen' = seen \cup page
      BY <1>1, <2>1, <2>6
    <3>2. items \subseteq seen'
      BY <3>1, <1>7, <2>1, <2>3, <1>6
    <3> QED
      BY <3>2, <1>2, <1>5 DEF AllShown, ListTypeOK
  <2>7. ASSUME ~done' PROVE marker' <= Cardinality(items)
    <3>1. PICK i \in Rest : i \notin page
      BY <1>1, <1>7, <2>7
    <3>2. Rank(items, i) >= from + size /\ i \in items
      BY <3>1, <1>7, <2>2, <2>3, <1>6
    <3>3. Rank(items, i) < Cardinality(items) /\ Cardinality(items) \in Nat
      BY <3>2, <1>5, RankGrows, FS_CardinalityType
    <3> QED
      BY <3>2, <3>3, <2>3, <1>1, <1>6, <2>7
  <2>8. PagesExact'
    BY <1>3, <2>5, <2>6 DEF PagesExact, NothingMissed
  <2>9. ~done' => seen' = {i \in items : Rank(items, i) < marker'}
    BY <1>1, <2>1, <2>4
  <2>10. \A s, e : Rank(s, e)' = Cardinality({f \in s : Before(f, e)'})
    BY DEF Rank
  <2>11. \A i : Rank(items, i)' = Rank(items, i)
    BY <1>1 DEF Rank, Before
  <2>12. ~done' => seen' = {i \in items' : Rank(items, i)' < marker'}
    BY <2>9, <2>11, <1>1
  <2> QED
    BY <1>1, <1>4, <1>8, <1>9, <1>10, <2>7, <2>8, <2>12 DEF ListInv, Pairs
<1> QED
  BY <1>11, <1>12

\* What a page that is not the last one does to the marker of another listing.
LEMMA MarkerMoves ==
    ASSUME ListTypeOK, kind # "offset", NEW page, page = First(Rest, size), page # Rest
    PROVE  LET next == NextMarker(page, Rest) IN
           /\ next \in Rest
           /\ \A e \in Rest : e \in page <=> IF kind = "blob" THEN Before(e, next) ELSE ~Before(next, e)
<1>1. Rest \in SUBSET Pairs /\ IsFiniteSet(Rest) /\ size \in Nat \ {0}
  BY RestFacts, FS_Subset DEF ListTypeOK
<1>2. /\ page \subseteq Rest /\ IsFiniteSet(page)
      /\ \A e \in page, f \in Rest \ page : Before(e, f)
      /\ Rest # {} => page # {}
  BY <1>1, PageIsFirst
<1>3. Rest # {} /\ Rest \ page # {} /\ page # {} /\ IsFiniteSet(Rest \ page)
  BY <1>1, <1>2, FS_Difference
<1>4. CASE kind = "blob"
  <2> DEFINE next == Least(Rest \ page)
  <2>1. next \in Rest \ page /\ \A f \in (Rest \ page) \ {next} : Before(next, f)
    BY <1>1, <1>3, LeastEntry
  <2> HIDE DEF next
  <2>2. ASSUME NEW e \in Rest PROVE e \in page <=> Before(e, next)
    BY <1>1, <1>2, <2>1, BeforeOrder
  <2> QED
    BY <1>4, <2>1, <2>2 DEF NextMarker, next
<1>5. CASE kind # "blob"
  <2> DEFINE next == LastOf(page)
  <2>1. next \in page /\ \A f \in page \ {next} : Before(f, next)
    BY <1>1, <1>2, <1>3, LastEntry
  <2> HIDE DEF next
  <2>2. ASSUME NEW e \in Rest PROVE e \in page <=> ~Before(next, e)
    BY <1>1, <1>2, <2>1, BeforeOrder
  <2> QED
    BY <1>2, <1>5, <2>1, <2>2 DEF NextMarker, next
<1> QED
  BY <1>4, <1>5

LEMMA PageKeeps ==
    ASSUME ListInv, Page, kind # "offset" PROVE ListInv'
<1> DEFINE page == First(Rest, size)
<1>1. /\ ~done /\ seen' = seen \cup page /\ twice' = twice \cup (seen \cap page)
      /\ done' = (page = Rest)
      /\ marker' = (IF done' THEN None ELSE NextMarker(page, Rest))
      /\ items' = items /\ kind' = kind /\ delimited' = delimited /\ size' = size
      /\ steady' = steady /\ shaken' = shaken
  BY DEF Page, Refused
<1>2. ListTypeOK
  BY DEF ListInv
<1>3. Items' = Items /\ AllShown(steady)' = AllShown(steady) /\ \A e : Shown(e)' = Shown(e)
  BY <1>1 DEF Items, AllShown, Shown
<1>4. ListTypeOK'
  BY <1>1, <1>2, <1>3 DEF ListTypeOK
<1>5. /\ AllShown(items) \subseteq Pairs /\ Rest \subseteq AllShown(items) /\ page \subseteq Rest
      /\ AllShown(steady) \subseteq AllShown(items)
  BY <1>2, RestFacts DEF First, AllShown, ListTypeOK
<1>6. seen' \subseteq Pairs
  BY <1>1, <1>5 DEF ListInv
<1>7. ASSUME ~shaken
      PROVE  /\ seen \cap Rest = {}
             /\ \A e \in AllShown(steady) : e \in seen \/ e \in Rest
  <2>1. CASE marker = None
    <3>1. seen = {} /\ Rest = AllShown(items)
      BY <1>1, <1>2, <2>1, RestIsAll DEF ListInv
    <3> QED
      BY <3>1, <1>5
  <2>2. CASE marker # None
    <3>1. Rest = {e \in AllShown(items) : ~Past(e)}
      BY <1>2, <1>7, <2>2, RestIsAfter DEF ListInv
    <3>2. /\ \A e \in seen : Past(e)
          /\ \A i \in steady : Past(Shown(i)) => Shown(i) \in seen
      BY <1>7, <2>2 DEF ListInv
    <3>3. seen \cap Rest = {}
      BY <3>1, <3>2
    <3>4. ASSUME NEW e \in AllShown(steady) PROVE e \in seen \/ e \in Rest
      <4>1. PICK i \in steady : e = Shown(i)
        BY <3>4 DEF AllShown
      <4> QED
        BY <4>1, <3>1, <3>2, <3>4, <1>5
    <3> QED
      BY <3>3, <3>4
  <2> QED
    BY <2>1, <2>2
<1>8. PagesExact'
  <2>1. NothingTwice'
    BY <1>1, <1>5, <1>7 DEF ListInv, PagesExact, NothingTwice
  <2>2. NothingMissed'
    BY <1>1, <1>3, <1>7 DEF NothingMissed
  <2> QED
    BY <2>1, <2>2 DEF PagesExact
<1>9. CASE done'
  BY <1>1, <1>4, <1>6, <1>8, <1>9 DEF ListInv, Pairs
<1>10. CASE ~done'
  <2> DEFINE next == NextMarker(page, Rest)
  <2>1. /\ next \in Rest
        /\ \A e \in Rest : e \in page <=> IF kind = "blob" THEN Before(e, next) ELSE ~Before(next, e)
    BY <1>1, <1>2, <1>10, MarkerMoves
  <2>2. marker' = next
    BY <1>1, <1>10
  <2> HIDE DEF next
  <2>3. next \in Pairs /\ marker' # None
    BY <1>5, <2>1, <2>2, ListingConstants DEF Pairs
  <2>4. ASSUME NEW e
        PROVE  Past(e)' = IF kind = "blob" THEN Before(e, next) ELSE ~Before(next, e)
    <3>1. kind' = kind
      BY <1>1
    <3>2. CASE kind = "blob"
      BY <2>2, <3>1, <3>2 DEF Past, Before
    <3>3. CASE kind # "blob"
      BY <2>2, <3>1, <3>3 DEF Past, Before
    <3> QED
      BY <3>2, <3>3
  <2>5. MarkerOK'
    <3>1. PICK i \in items : next = Shown(i)
      BY <1>5, <2>1 DEF AllShown
    <3>2. i \in Items
      BY <1>2 DEF ListTypeOK
    <3>3. next[2] # -1 => next \in items
      BY <3>1, <3>2, ShownFacts
    <3> QED
      BY <1>1, <1>3, <2>2, <3>1, <3>2, <3>3 DEF MarkerOK
  <2>6. ASSUME ~shaken
        PROVE  /\ \A e \in seen' : Past(e)'
               /\ \A i \in steady' : Past(Shown(i))' => Shown(i)' \in seen'
    <3>1. ASSUME NEW e \in seen PROVE Past(e)'
      <4>1. marker # None
        BY <1>1, <3>1 DEF ListInv
      <4>2. Rest = {f \in AllShown(items) : ~Past(f)} /\ Past(e)
        BY <1>2, <2>6, <3>1, <4>1, RestIsAfter DEF ListInv
      <4>3. e \in Pairs /\ marker \in Pairs
        <5>1. PICK j \in Items : marker = Shown(j)
          BY <4>1 DEF ListInv, MarkerOK
        <5> QED
          BY <5>1, <3>1, ShownFacts DEF ListInv
      <4>4. ~Past(next)
        BY <2>1, <4>2
      <4> QED
        BY <2>3, <2>4, <4>2, <4>3, <4>4, BeforeOrder DEF Past
    <3>2. \A e \in page : Past(e)'
      BY <1>5, <2>1, <2>4
    <3>3. ASSUME NEW i \in steady', Past(Shown(i))' PROVE Shown(i)' \in seen'
      <4>1. Shown(i) \in AllShown(steady) /\ Shown(i)' = Shown(i)
        BY <1>1, <1>3, <3>3 DEF AllShown
      <4>2. Shown(i) \in seen \/ Shown(i) \in Rest
        BY <4>1, <1>7, <2>6
      <4>3. Shown(i) \in Rest => Shown(i) \in page
        BY <1>3, <2>1, <2>4, <3>3
      <4> QED
        BY <4>1, <4>2, <4>3, <1>1
    <3> QED
      BY <1>1, <3>1, <3>2, <3>3
  <2> QED
    BY <1>1, <1>4, <1>6, <1>8, <1>10, <2>3, <2>5, <2>6 DEF ListInv, Pairs
<1> QED
  BY <1>9, <1>10

LEMMA ListInvNext == ListInv /\ [ListNext]_listVars => ListInv'
<1> SUFFICES ASSUME ListInv, [ListNext]_listVars PROVE ListInv'
  OBVIOUS
<1>1. CASE Page
  BY <1>1, PageKeeps, OffsetPageKeeps
<1>2. ASSUME NEW i \in Items, PutListed(i) \/ DeleteListed(i) PROVE ListInv'
  BY <1>2, WriteKeeps
<1>3. CASE UNCHANGED listVars
  BY <1>3 DEF listVars, ListInv, ListTypeOK, PagesExact, NothingMissed, NothingTwice, MarkerOK, Past,
              Pairs, Rank, Before, AllShown, Shown, Items
<1> QED
  BY <1>1, <1>2, <1>3 DEF ListNext

\* Following the markers of any listing misses nothing that stays and repeats nothing,
\* for any names, versions, common prefixes, page sizes and writes between the pages.
THEOREM PagesAreExact == ListSpec => []PagesExact
<1>1. ListInv => PagesExact
  BY DEF ListInv
<1> QED
  BY <1>1, ListInvInit, ListInvNext, PTL DEF ListSpec

-----------------------------------------------------------------------------
(* Bedrock *)

\* Dividing the next number: either the remainder is full, or it grows by one.
LEMMA DivModStep ==
    ASSUME NEW n \in Nat, NEW e \in Nat \ {0}
    PROVE  /\ n \div e \in Nat /\ n % e \in Nat /\ n % e < e
           /\ IF (n % e) + 1 = e
              THEN (n + 1) \div e = n \div e + 1 /\ (n + 1) % e = 0
              ELSE (n + 1) \div e = n \div e /\ (n + 1) % e = (n % e) + 1
<1>1. n \div e \in Nat /\ n % e \in Nat /\ n % e < e
  OBVIOUS
<1>2. IF (n % e) + 1 = e
      THEN (n + 1) \div e = n \div e + 1 /\ (n + 1) % e = 0
      ELSE (n + 1) \div e = n \div e /\ (n + 1) % e = (n % e) + 1
  OBVIOUS
<1> QED
  BY <1>1, <1>2

\* How often an answer was given.
Given(s, x) == Cardinality({k \in DOMAIN s : s[k] = x})

\* One more answer counts once for itself and not for the others.
LEMMA GivenOnceMore ==
    ASSUME NEW S, NEW s \in Seq(S), NEW x \in S, NEW y
    PROVE  /\ Given(s, y) \in Nat
           /\ Given(Append(s, x), y) = Given(s, y) + (IF x = y THEN 1 ELSE 0)
<1> DEFINE old == {k \in DOMAIN s : s[k] = y}
<1> DEFINE new == {k \in DOMAIN Append(s, x) : Append(s, x)[k] = y}
<1> DEFINE n == Len(s)
<1>1. n \in Nat /\ DOMAIN s = 1..n /\ DOMAIN Append(s, x) = 1..(n + 1)
  OBVIOUS
<1>2. Append(s, x)[n + 1] = x /\ \A k \in 1..n : Append(s, x)[k] = s[k]
  OBVIOUS
<1> HIDE DEF n
<1>3. IsFiniteSet(old)
  <2>1. IsFiniteSet(1..n)
    BY <1>1, FS_Interval
  <2> QED
    BY <1>1, <2>1, FS_Subset
<1>4. Cardinality(old) \in Nat
  BY <1>3, FS_CardinalityType
<1>5. n + 1 \notin old
  BY <1>1
<1>6. Given(s, y) = Cardinality(old) /\ Given(Append(s, x), y) = Cardinality(new)
  BY DEF Given
<1>7. CASE x = y
  <2>1. new = old \cup {n + 1}
    BY <1>1, <1>2, <1>7
  <2>2. Cardinality(new) = Cardinality(old) + 1
    BY <1>3, <1>5, <2>1, FS_AddElement
  <2> HIDE DEF old, new
  <2> QED
    BY <1>4, <1>7, <1>6, <2>2
<1>8. CASE x # y
  <2>1. new = old
    BY <1>1, <1>2, <1>8
  <2>2. Cardinality(new) = Cardinality(old)
    BY <2>1
  <2> HIDE DEF old, new
  <2> QED
    BY <1>4, <1>8, <1>6, <2>2
<1> QED
  BY <1>7, <1>8

\* The k-th response has been given so often after n requests.
Share(k, n) ==
    IF bedCfg.mode = "cycle"
    THEN n \div bedCfg.responses + (IF k <= n % bedCfg.responses THEN 1 ELSE 0)
    ELSE IF k < bedCfg.responses THEN (IF k <= n THEN 1 ELSE 0)
    ELSE IF k <= n THEN n - k + 1 ELSE 0

\* Exactly how often each answer was given.
BedInv ==
    /\ bedCfg \in BedConfigs
    /\ bedServed \in Seq({<<"error_injection">>, <<"rule">>, <<"mode">>} \cup ({"sequence"} \X Int))
    /\ bedCount = Len(bedServed)
    /\ bedCfg.every > 0 =>
          Given(bedServed, <<"error_injection">>) = bedCount \div bedCfg.every
    /\ bedCfg.every = 0 /\ bedCfg.rule \in {"none", "neither"} =>
          \A k \in 1..bedCfg.responses :
             Given(bedServed, <<"sequence", k>>) = Share(k, bedCount)

\* Nothing was given before the first request.
LEMMA BedInvInit == BedInit => BedInv
<1> SUFFICES ASSUME BedInit PROVE BedInv
  OBVIOUS
<1>1. bedServed = <<>> /\ bedCount = 0 /\ bedCfg \in BedConfigs
  BY DEF BedInit
<1>2. \A y : Given(bedServed, y) = 0
  BY <1>1, FS_EmptySet DEF Given
<1>3. ASSUME NEW e \in Nat \ {0} PROVE 0 \div e = 0 /\ 0 % e = 0
  BY <1>3
<1>4. bedCfg.every \in Nat /\ bedCfg.responses \in Nat
  BY <1>1, BedrockConstants DEF BedConfigs
<1>5. \A k \in 1..bedCfg.responses : Share(k, 0) = 0
  BY <1>3, <1>4 DEF Share
<1>6. bedCfg.every > 0 => 0 \div bedCfg.every = 0
  BY <1>3, <1>4
<1> QED
  BY <1>1, <1>2, <1>5, <1>6 DEF BedInv

\* The next response is the one whose share grows.
LEMMA ShareGrows ==
    ASSUME NEW n \in Nat, bedCfg \in BedConfigs, NEW k \in 1..bedCfg.responses
    PROVE  Share(k, n + 1) = Share(k, n) + (IF Entry(n + 1) = k THEN 1 ELSE 0)
<1> DEFINE r == bedCfg.responses
<1>1. r \in Nat \ {0} /\ k \in Nat /\ 1 <= k /\ k <= r
  BY BedrockConstants DEF BedConfigs
<1>2. CASE bedCfg.mode = "cycle"
  <2> DEFINE q == n \div r
  <2> DEFINE m == n % r
  <2>1. /\ q \in Nat /\ m \in Nat /\ m < r
        /\ IF m + 1 = r THEN (n + 1) \div r = q + 1 /\ (n + 1) % r = 0
           ELSE (n + 1) \div r = q /\ (n + 1) % r = m + 1
    BY <1>1, DivModStep
  <2>2. /\ Share(k, n) = q + (IF k <= m THEN 1 ELSE 0)
        /\ Share(k, n + 1) = (n + 1) \div r + (IF k <= (n + 1) % r THEN 1 ELSE 0)
    BY <1>2 DEF Share
  <2>3. Entry(n + 1) = m + 1
    <3>1. (n + 1) - 1 = n
      OBVIOUS
    <3> QED
      BY <1>2, <3>1 DEF Entry
  <2> HIDE DEF q, m
  <2>4. CASE m + 1 = r
    BY <1>1, <2>1, <2>2, <2>3, <2>4
  <2>5. CASE m + 1 # r
    BY <1>1, <2>1, <2>2, <2>3, <2>5
  <2> QED
    BY <2>4, <2>5
<1>3. CASE bedCfg.mode # "cycle"
  BY <1>1, <1>3 DEF Share, Entry
<1> QED
  BY <1>2, <1>3

\* A request is answered in its turn.
LEMMA InvokeKeeps ==
    ASSUME BedInv, NEW c \in BedClients, NEW matching \in BOOLEAN, Invoke(c, matching)
    PROVE  BedInv'
<1> DEFINE x == Resolve(Increment, matching)
<1> DEFINE S == {<<"error_injection">>, <<"rule">>, <<"mode">>} \cup ({"sequence"} \X Int)
<1>1. /\ bedCfg' = bedCfg /\ bedCount' = bedCount + 1 /\ bedServed' = Append(bedServed, x)
      /\ bedCfg \in BedConfigs /\ bedServed \in Seq(S)
  BY DEF Invoke, BedInv
<1>2. bedCount = Len(bedServed) /\ bedCount \in Nat /\ Increment = bedCount + 1
  BY <1>1 DEF BedInv, Increment
<1>3. bedCfg.every \in Nat /\ bedCfg.responses \in Nat
  BY <1>1, BedrockConstants DEF BedConfigs
<1>4. bedCfg.responses > 0 => Entry(Increment) \in Int
  BY <1>2, <1>3, DivModStep DEF Entry
<1>5. x \in S
  <2>1. bedCfg.responses > 0 => <<"sequence", Entry(Increment)>> \in S
    BY <1>4
  <2> QED
    BY <2>1 DEF Resolve
<1>6. bedServed' \in Seq(S) /\ Len(bedServed') = bedCount'
  BY <1>1, <1>2, <1>5
<1>7. x = <<"error_injection">> <=> Injected(Increment)
  BY DEF Resolve
<1>8. \A y : /\ Given(bedServed, y) \in Nat
             /\ Given(bedServed', y) = Given(bedServed, y) + (IF x = y THEN 1 ELSE 0)
  <2> HIDE DEF x, S
  <2> QED
    BY <1>1, <1>5, GivenOnceMore
<1>9. ASSUME bedCfg.every > 0
      PROVE  Given(bedServed', <<"error_injection">>) = bedCount' \div bedCfg.every
  <2> DEFINE e == bedCfg.every
  <2>1. e \in Nat \ {0}
    BY <1>3, <1>9
  <2>2. Given(bedServed, <<"error_injection">>) = bedCount \div e
    BY <1>9 DEF BedInv
  <2>3. x = <<"error_injection">> <=> (bedCount + 1) % e = 0
    BY <1>2, <1>7, <1>9 DEF Injected
  <2>4. (bedCount + 1) \div e = bedCount \div e + (IF (bedCount + 1) % e = 0 THEN 1 ELSE 0)
    <3>1. IF (bedCount % e) + 1 = e
          THEN (bedCount + 1) \div e = bedCount \div e + 1 /\ (bedCount + 1) % e = 0
          ELSE /\ (bedCount + 1) \div e = bedCount \div e
               /\ (bedCount + 1) % e = (bedCount % e) + 1
      BY <1>2, <2>1, DivModStep
    <3>2. bedCount \div e \in Nat /\ bedCount % e \in Nat
      BY <1>2, <2>1, DivModStep
    <3> HIDE DEF e
    <3> QED
      BY <3>1, <3>2
  <2> HIDE DEF e, x
  <2>5. Given(bedServed', <<"error_injection">>)
          = bedCount \div e + (IF x = <<"error_injection">> THEN 1 ELSE 0)
    BY <1>8, <2>2
  <2>6. Given(bedServed', <<"error_injection">>) = (bedCount + 1) \div e
    BY <2>3, <2>4, <2>5
  <2> QED
    BY <1>1, <2>6 DEF e
<1>10. ASSUME bedCfg.every = 0, bedCfg.rule \in {"none", "neither"},
              NEW k \in 1..bedCfg.responses
       PROVE  Given(bedServed', <<"sequence", k>>) = Share(k, bedCount')
  <2>1. x = <<"sequence", Entry(Increment)>>
    <3>1. ~Injected(Increment)
      BY <1>10 DEF Injected
    <3>2. ~RuleAnswers(matching)
      BY <1>10 DEF RuleAnswers
    <3>3. bedCfg.responses > 0
      BY <1>3, <1>10
    <3> QED
      BY <3>1, <3>2, <3>3 DEF Resolve
  <2>2. x = <<"sequence", k>> <=> Entry(bedCount + 1) = k
    BY <1>2, <2>1
  <2>3. Given(bedServed, <<"sequence", k>>) = Share(k, bedCount)
    BY <1>10 DEF BedInv
  <2>4. Share(k, bedCount + 1) = Share(k, bedCount) + (IF Entry(bedCount + 1) = k THEN 1 ELSE 0)
    BY <1>1, <1>2, <1>10, ShareGrows
  <2> HIDE DEF x
  <2> QED
    BY <1>1, <1>8, <2>2, <2>3, <2>4
<1>11. \A k : Share(k, bedCount)' = Share(k, bedCount')
  BY <1>1 DEF Share
<1> QED
  BY <1>1, <1>2, <1>6, <1>9, <1>10, <1>11 DEF BedInv

\* Chunks that are in order, and together all, carry all or a beginning.
LEMMA ChunksCarry ==
    ASSUME NEW all, all \subseteq Nat, NEW chunks \in Seq(SUBSET all),
           \A x \in all : \E j \in DOMAIN chunks : x \in chunks[j],
           \A j, k \in DOMAIN chunks : j < k => \A x \in chunks[j], y \in chunks[k] : x < y,
           NEW f \in Nat \cup {None}
    PROVE  Carries(StreamingBody(chunks, f), all)
<1> DEFINE n == Len(chunks)
<1> DEFINE body == StreamingBody(chunks, f)
<1>1. n \in Nat /\ DOMAIN chunks = 1..n
  OBVIOUS
<1>2. PICK m \in 0..n : /\ body.chunks \in Seq(SUBSET all) /\ Len(body.chunks) = m
                        /\ \A j \in 1..m : body.chunks[j] = chunks[j]
                        /\ body.last = "stop" => m = n
  <2>1. CASE f # None /\ f < n
    <3>1. f \in Nat
      BY <2>1
    <3>2. /\ SubSeq(chunks, 1, f) \in Seq(SUBSET all) /\ Len(SubSeq(chunks, 1, f)) = f
          /\ \A j \in 1..f : SubSeq(chunks, 1, f)[j] = chunks[j]
      BY <1>1, <2>1, <3>1
    <3>3. body = [chunks |-> SubSeq(chunks, 1, f), last |-> "error"]
      BY <2>1 DEF StreamingBody
    <3>4. f \in 0..n
      BY <1>1, <2>1, <3>1
    <3> HIDE DEF body, n
    <3> QED
      BY <3>2, <3>3, <3>4
  <2>2. CASE ~(f # None /\ f < n)
    <3>1. body = [chunks |-> chunks, last |-> "stop"]
      BY <2>2 DEF StreamingBody
    <3>2. body.chunks = chunks /\ n \in 0..n
      BY <1>1, <3>1
    <3> HIDE DEF body
    <3> QED
      BY <3>2
  <2> QED
    BY <2>1, <2>2
<1> HIDE DEF body
<1> DEFINE carried == UNION Range(body.chunks)
<1>3. DOMAIN body.chunks = 1..m /\ m \in Nat /\ m <= n
  <2>1. DOMAIN body.chunks = 1..Len(body.chunks)
    BY <1>2
  <2> HIDE DEF n
  <2> QED
    BY <1>1, <1>2, <2>1
<1>4. \A x : x \in carried <=> \E j \in 1..m : x \in chunks[j]
  BY <1>2, <1>3 DEF Range
<1>5. \A j \in 1..n : chunks[j] \subseteq all
  BY <1>1
<1> HIDE DEF n
<1>6. carried \subseteq all
  BY <1>1, <1>3, <1>4, <1>5
<1>7. ASSUME NEW x \in carried, NEW y \in all, y < x PROVE y \in carried
  <2>1. PICK j \in 1..m : x \in chunks[j]
    BY <1>4
  <2>2. PICK k \in 1..n : y \in chunks[k]
    BY <1>1
  <2>3. ~(j < k)
    <3> SUFFICES ASSUME j < k PROVE FALSE
      OBVIOUS
    <3>1. x < y
      BY <1>1, <1>3, <2>1, <2>2
    <3>2. x \in Nat /\ y \in Nat
      BY <1>6
    <3> QED
      BY <1>7, <3>1, <3>2
  <2>4. k \in 1..m
    BY <1>1, <1>3, <2>3
  <2> QED
    BY <1>4, <2>2, <2>4
<1>8. body.last = "stop" => carried = all
  BY <1>1, <1>2, <1>4, <1>6
<1>9. \A j, k \in 1..m : j < k => \A x \in body.chunks[j], y \in body.chunks[k] : x < y
  BY <1>1, <1>2, <1>3
<1> QED
  BY <1>3, <1>6, <1>7, <1>8, <1>9 DEF Carries, body

\* A multiple is less than another exactly if its factor is.
LEMMA LessFactor ==
    ASSUME NEW p \in Nat, NEW q \in Nat, NEW s \in Nat \ {0}
    PROVE  (p * s < q * s) <=> p < q
OBVIOUS

\* Every offset of the text lies in one of the chunks.
LEMMA ChunkOf ==
    ASSUME NEW n \in Nat, NEW s \in Nat \ {0}, NEW b \in Nat, b < n
    PROVE  \E j \in 1..((n + s - 1) \div s) : (j - 1) * s <= b /\ b < j * s
<1> DEFINE q == b \div s
<1> DEFINE last == (n + s - 1) \div s
<1>1. q \in Nat /\ q * s <= b /\ b < (q + 1) * s
  OBVIOUS
<1>2. last \in Nat /\ n + s - 1 < (last + 1) * s
  OBVIOUS
<1>3. (last + 1) * s = last * s + s
  OBVIOUS
<1>4. q * s \in Nat /\ last * s \in Nat
  BY <1>1, <1>2
<1> HIDE DEF q, last
<1>5. q * s < last * s
  BY <1>1, <1>2, <1>3, <1>4
<1>6. q < last
  BY <1>1, <1>2, <1>5, LessFactor
<1>7. q + 1 \in 1..last /\ (q + 1) - 1 = q
  BY <1>1, <1>2, <1>6
<1> QED
  BY <1>1, <1>7 DEF last

\* The chunks of a text in fixed mode: in order, and together the characters that are
\* not cut.
LEMMA FixedCarry ==
    ASSUME NEW text \in StreamTexts, NEW s \in Nat \ {0}, NEW f \in Nat \cup {None}
    PROVE  Carries(StreamingBody(FixedChunks(text, s), f),
                   {i \in Letters(text) :
                       ~\E k \in 1..End(text) : text[i] < k * s /\ k * s < text[i + 1]})
<1> DEFINE n == End(text)
<1> DEFINE last == (n + s - 1) \div s
<1> DEFINE Upper(j) == IF j * s > n THEN n ELSE j * s
<1> DEFINE chunks == FixedChunks(text, s)
<1> DEFINE Cut(i) == \E k \in 1..n : text[i] < k * s /\ k * s < text[i + 1]
<1> DEFINE all == {i \in Letters(text) : ~Cut(i)}
<1>1. /\ text \in Seq(Nat) /\ Len(text) \in Nat /\ Len(text) >= 1
      /\ \A i, j \in 1..Len(text) : i < j => text[i] < text[j]
  <2>1. text \in Seq(Nat) /\ text # <<>> /\ \A i, j \in DOMAIN text : i < j => text[i] < text[j]
    BY BedrockConstants
  <2>2. Len(text) \in Nat /\ Len(text) >= 1 /\ DOMAIN text = 1..Len(text)
    BY <2>1, EmptySeq
  <2> QED
    BY <2>1, <2>2
<1>2. n \in Nat /\ \A i \in 1..Len(text) : text[i] \in Nat /\ text[i] <= n
  <2>1. \A i \in 1..Len(text) : text[i] \in Nat
    BY <1>1
  <2>2. Len(text) \in 1..Len(text) /\ n = text[Len(text)]
    BY <1>1 DEF End
  <2>3. ASSUME NEW i \in 1..Len(text) PROVE text[i] <= text[Len(text)]
    <3>1. CASE i = Len(text)
      BY <2>1, <3>1
    <3>2. CASE i < Len(text)
      BY <1>1, <2>1, <2>2, <3>2
    <3> QED
      BY <1>1, <3>1, <3>2
  <2> QED
    BY <2>1, <2>2, <2>3
<1>3. \A i \in Letters(text) : /\ i \in 1..Len(text) /\ i + 1 \in 1..Len(text) /\ i \in Nat
                               /\ text[i] \in Nat /\ text[i + 1] \in Nat /\ text[i] < text[i + 1]
                               /\ text[i + 1] <= n /\ text[i] < n
  <2> TAKE i \in Letters(text)
  <2>1. i \in 1..Len(text) /\ i + 1 \in 1..Len(text) /\ i \in Nat /\ i < i + 1
    BY <1>1 DEF Letters
  <2>2. text[i] < text[i + 1]
    BY <1>1, <2>1
  <2> HIDE DEF n
  <2> QED
    BY <1>2, <2>1, <2>2
<1> HIDE DEF n
<1>4. last \in Nat /\ DOMAIN chunks = 1..last
      /\ \A j \in 1..last : chunks[j] = {i \in Letters(text) : (j - 1) * s <= text[i] /\ text[i + 1] <= Upper(j)}
  <2>1. last \in Nat
    BY <1>2
  <2>2. chunks = [j \in 1..last |-> Decode(text, (j - 1) * s, Upper(j))]
    BY DEF FixedChunks, n
  <2> HIDE DEF last, Upper, chunks
  <2> QED
    BY <2>1, <2>2 DEF Decode
<1>5. \A x \in all : \E j \in 1..last : x \in chunks[j]
  <2> TAKE x \in all
  <2>1. x \in Letters(text) /\ ~Cut(x)
    OBVIOUS
  <2>2. text[x] \in Nat /\ text[x] < n /\ text[x + 1] \in Nat /\ text[x + 1] <= n /\ text[x] < text[x + 1]
    BY <1>3, <2>1
  <2>3. PICK j \in 1..last : (j - 1) * s <= text[x] /\ text[x] < j * s
    BY <1>2, <2>2, ChunkOf
  <2> HIDE DEF last, chunks, all
  <2>4. j \in Nat /\ j >= 1 /\ j * s \in Nat /\ j * s >= j
    <3>1. j \in Nat /\ j >= 1
      BY <1>4
    <3> QED
      BY <3>1
  <2>5. text[x + 1] <= j * s
    <3> SUFFICES ASSUME j * s < text[x + 1] PROVE FALSE
      BY <2>2, <2>4
    <3>1. j <= n
      <4> DEFINE p == j * s
      <4>1. p \in Nat /\ p >= j /\ p < text[x + 1]
        BY <2>4
      <4> HIDE DEF p
      <4> QED
        BY <1>2, <2>2, <2>4, <4>1
    <3>2. j \in 1..n
      BY <1>2, <2>4, <3>1
    <3> QED
      BY <2>1, <2>3, <3>2
  <2>6. text[x + 1] <= Upper(j)
    BY <1>2, <2>2, <2>4, <2>5
  <2> QED
    BY <1>4, <2>1, <2>3, <2>6
<1>6. \A j \in 1..last : chunks[j] \subseteq all
  <2> SUFFICES ASSUME NEW j \in 1..last, NEW x \in chunks[j], NEW k \in 1..n,
                      text[x] < k * s, k * s < text[x + 1]
               PROVE  FALSE
    BY <1>4
  <2>1. /\ x \in Letters(text) /\ (j - 1) * s <= text[x] /\ text[x + 1] <= Upper(j)
        /\ text[x] \in Nat /\ text[x + 1] \in Nat
    BY <1>3, <1>4
  <2> HIDE DEF last, chunks
  <2>2. j - 1 \in Nat /\ j \in Nat /\ k \in Nat
    BY <1>2, <1>4
  <2>3. (j - 1) * s \in Nat /\ j * s \in Nat /\ k * s \in Nat
    BY <2>2
  <2>4. Upper(j) <= j * s
    BY <1>2, <2>3
  <2>5. (j - 1) * s < k * s
    BY <2>1, <2>3
  <2>6. k * s < j * s
    <3>1. Upper(j) \in Nat
      BY <1>2, <2>3
    <3> HIDE DEF Upper
    <3> QED
      BY <2>1, <2>3, <2>4, <3>1
  <2>7. j - 1 < k /\ k < j
    BY <2>2, <2>5, <2>6, LessFactor
  <2> QED
    BY <2>2, <2>7
<1>7. ASSUME NEW j \in 1..last, NEW k \in 1..last, j < k, NEW x \in chunks[j], NEW y \in chunks[k]
      PROVE  x < y
  <2>1. /\ x \in Letters(text) /\ text[x + 1] <= Upper(j) /\ y \in Letters(text) /\ (k - 1) * s <= text[y]
    BY <1>4
  <2> HIDE DEF last, chunks
  <2>2. j \in Nat /\ k - 1 \in Nat /\ j <= k - 1
    BY <1>4, <1>7
  <2>3. j * s \in Nat /\ (k - 1) * s \in Nat /\ j * s <= (k - 1) * s
    <3>1. ~((k - 1) * s < j * s)
      BY <2>2, LessFactor
    <3>2. j * s \in Nat /\ (k - 1) * s \in Nat
      BY <2>2
    <3> QED
      BY <3>1, <3>2
  <2>4. Upper(j) \in Nat /\ Upper(j) <= j * s
    BY <1>2, <2>3
  <2>5. text[x] < text[y]
    <3>1. text[x] < text[x + 1] /\ text[x] \in Nat /\ text[x + 1] \in Nat /\ text[y] \in Nat
      BY <1>3, <2>1
    <3> HIDE DEF Upper
    <3> QED
      BY <2>1, <2>3, <2>4, <3>1
  <2>6. x \in 1..Len(text) /\ y \in 1..Len(text) /\ text[x] \in Nat /\ text[y] \in Nat
    BY <1>3, <2>1
  <2>7. ~(y < x) /\ y # x
    <3>1. y < x => text[y] < text[x]
      BY <1>1, <2>6
    <3> QED
      BY <2>5, <2>6, <3>1
  <2> QED
    BY <1>1, <2>6, <2>7
<1>8. all \subseteq Nat
  BY <1>3
<1>9. chunks \in Seq(SUBSET all)
  <2> HIDE DEF last, chunks, all
  <2>1. chunks = [j \in 1..last |-> chunks[j]]
    BY <1>4 DEF chunks, FixedChunks
  <2> QED
    BY <1>4, <1>6, <2>1
<1>10. Carries(StreamingBody(chunks, f), all)
  <2> HIDE DEF last, chunks, all
  <2> QED
    BY <1>4, <1>5, <1>7, <1>8, <1>9, ChunksCarry
<1> QED
  BY <1>10 DEF n

\* And in char mode.
LEMMA CharCarry ==
    ASSUME NEW text \in StreamTexts, NEW f \in Nat \cup {None}
    PROVE  Carries(StreamingBody(CharChunks(text), f), Letters(text))
<1> DEFINE n == Len(text) - 1
<1>1. n \in Nat /\ Letters(text) = 1..n
  <2>1. text \in Seq(Nat) /\ text # <<>>
    BY BedrockConstants
  <2> QED
    BY <2>1, EmptySeq DEF Letters
<1> HIDE DEF n
<1>2. CharChunks(text) = [i \in 1..n |-> {i}]
  BY <1>1 DEF CharChunks
<1>3. CharChunks(text) \in Seq(SUBSET (1..n)) /\ DOMAIN CharChunks(text) = 1..n
  BY <1>1, <1>2
<1>4. /\ \A x \in 1..n : x \in CharChunks(text)[x]
      /\ \A j, k \in 1..n : j < k => \A x \in CharChunks(text)[j], y \in CharChunks(text)[k] : x < y
  BY <1>2
<1>5. 1..n \subseteq Nat
  BY <1>1
<1> QED
  BY <1>1, <1>3, <1>4, <1>5, ChunksCarry

\* Streams of any text, in chunks of any size.
LEMMA StreamsAreWhole == StreamsWhole
<1> SUFFICES ASSUME NEW text \in StreamTexts, NEW given \in ChunkSizes, NEW f \in FailAfters \cup {None}
             PROVE  LET step == ChunkSize(given)
                        Cut(i) == \E k \in 1..End(text) : text[i] < k * step /\ k * step < text[i + 1]
                    IN  /\ Carries(StreamingBody(FixedChunks(text, step), f), {i \in Letters(text) : ~Cut(i)})
                        /\ Carries(StreamingBody(CharChunks(text), f), Letters(text))
  BY DEF StreamsWhole
<1>1. f \in Nat \cup {None} /\ given \in Nat
  BY BedrockConstants
<1>2. ChunkSize(given) \in Nat \ {0}
  BY <1>1 DEF ChunkSize
<1>3. Carries(StreamingBody(CharChunks(text), f), Letters(text))
  BY <1>1, CharCarry
<1> DEFINE step == ChunkSize(given)
<1> HIDE DEF step
<1>4. Carries(StreamingBody(FixedChunks(text, step), f),
              {i \in Letters(text) :
                  ~\E k \in 1..End(text) : text[i] < k * step /\ k * step < text[i + 1]})
  BY <1>1, <1>2, FixedCarry DEF step
<1> QED
  BY <1>3, <1>4 DEF step

\* What the counts say about the shares.
LEMMA BedInvScript == BedInv => ScriptFollowed
<1> SUFFICES ASSUME BedInv PROVE ScriptFollowed
  OBVIOUS
<1>1. InjectedShare
  BY DEF BedInv, InjectedShare, Given
<1>2. ResponsesShared
  <2> SUFFICES ASSUME bedCfg.every = 0, bedCfg.rule \in {"none", "neither"},
                      NEW i \in 1..bedCfg.responses, NEW j \in 1..bedCfg.responses, i < j
               PROVE  LET Times(k) == Given(bedServed, <<"sequence", k>>)
                      IN  IF bedCfg.mode = "cycle" THEN Times(i) - Times(j) \in {0, 1}
                          ELSE Times(i) <= 1 /\ (Times(j) > 0 => Times(i) = 1)
    BY DEF ResponsesShared, Given
  <2>1. /\ Given(bedServed, <<"sequence", i>>) = Share(i, bedCount)
        /\ Given(bedServed, <<"sequence", j>>) = Share(j, bedCount)
    BY DEF BedInv
  <2>2. bedCfg.responses \in Nat \ {0} /\ bedCount \in Nat
    BY BedrockConstants DEF BedInv, BedConfigs
  <2>3. bedCount \div bedCfg.responses \in Nat /\ bedCount % bedCfg.responses \in Nat
    BY <2>2, DivModStep
  <2>4. CASE bedCfg.mode = "cycle"
    BY <2>1, <2>2, <2>3, <2>4 DEF Share
  <2>5. CASE bedCfg.mode # "cycle"
    BY <2>1, <2>2, <2>5 DEF Share
  <2> QED
    BY <2>4, <2>5
<1> QED
  BY <1>1, <1>2, StreamsAreWhole DEF ScriptFollowed, StreamedWhole

\* Injected errors and listed responses come in their shares, for every period, every
\* number of responses and of clients, however their requests overlap: the counter is
\* taken and the answer decided in one step.  The chunks of a stream are its text, for
\* texts, chunks and failures of every size.
THEOREM ScriptIsFollowed == BedSpec => []ScriptFollowed
<1>1. BedInit => BedInv
  BY BedInvInit
<1>2. BedInv /\ [BedNext]_bedVars => BedInv'
  <2> SUFFICES ASSUME BedInv, [BedNext]_bedVars PROVE BedInv'
    OBVIOUS
  <2>1. CASE UNCHANGED <<bedCfg, bedCount, bedServed>>
    BY <2>1 DEF BedInv, BedConfigs, Given, Share
  <2>2. ASSUME NEW c \in BedClients, Answer(c) PROVE BedInv'
    BY <2>1, <2>2 DEF Answer
  <2> QED
    BY <2>1, <2>2, InvokeKeeps DEF BedNext, bedVars
<1>3. BedInv => ScriptFollowed
  BY BedInvScript
<1> QED
  BY <1>1, <1>2, <1>3, PTL DEF BedSpec
=============================================================================
