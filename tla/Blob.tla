-------------------------------- MODULE Blob --------------------------------
(***************************************************************************)
(* Azure Blob Storage, src/src/azure/blob/service.rs and handlers.rs, and  *)
(* Secrets Manager, src/src/aws/secretsmanager: two stores of values under *)
(* names that clients create only if absent.  Blobs do it in transactions, *)
(* secrets in a read and an INSERT.  Listings are in module Listing.       *)
(***************************************************************************)
EXTENDS Integers, FiniteSets, Functions, ServiceConstants

CONSTANTS
    BlobClients, Containers, BlobNames, SecretNames

VARIABLES
    containers,    \* table azure_containers: their names
    blobs,         \* table azure_blobs: <<container, name>> -> content
    secrets,       \* table secrets: name -> secret_string
    blobReq,       \* what the request of each client holds between two calls
    firstBlob,     \* history: who stored each blob that was to be absent
    firstSecret    \* history: whose CreateSecret made each secret

blobVars == <<containers, blobs, secrets, blobReq, firstBlob, firstSecret>>
azure == <<containers, blobs, firstBlob>>
sm == <<secrets, firstSecret>>

BlobIdle == [at |-> "idle"]
BlobGo(c, r) == blobReq' = [blobReq EXCEPT ![c] = r]

-----------------------------------------------------------------------------
(* Containers *)

\* ON CONFLICT DO NOTHING: a second creation is refused with 409.
CreateContainer(c, n) ==
    /\ blobReq[c] = BlobIdle
    /\ n \notin containers
    /\ containers' = containers \cup {n}
    /\ BlobGo(c, [at |-> "created"])
    /\ UNCHANGED <<blobs, firstBlob, sm>>

\* container_put answers 201 with the etag of what get_container finds then, and
\* 404 when nothing is there any more.
ContainerCreated(c) ==
    /\ blobReq[c].at = "created"
    /\ BlobGo(c, BlobIdle)
    /\ UNCHANGED <<azure, sm>>

\* Mutant: the blobs stay.
BlobsStay(n) == DOMAIN blobs

BlobsNotIn(n) == {b \in DOMAIN blobs : b[1] # n}

DeleteContainer(n) ==
    /\ n \in containers
    /\ containers' = containers \ {n}
    /\ blobs' = Restrict(blobs, BlobsNotIn(n))
    /\ firstBlob' = Restrict(firstBlob, DOMAIN firstBlob \cap DOMAIN blobs')
    /\ UNCHANGED <<blobReq, sm>>

-----------------------------------------------------------------------------
(* Blobs *)

\* Mutant: If-None-Match is not looked at.
StorableAlways(b, absent) == b[1] \in containers

\* The outcomes of put_blob: ContainerNotFound, AlreadyExists, Stored.
Storable(b, absent) ==
    b[1] \in containers /\ (absent => b \notin DOMAIN blobs)

\* absent stands for If-None-Match: *.  The content is the client's.
PutBlob(c, b, absent) ==
    /\ blobReq[c] = BlobIdle
    /\ Storable(b, absent)
    /\ blobs' = Put(blobs, b, c)
    /\ firstBlob' = IF absent THEN Put(firstBlob, b, c)
                    ELSE Restrict(firstBlob, DOMAIN firstBlob \ {b})
    /\ UNCHANGED <<containers, blobReq, sm>>

DeleteBlob(b) ==
    /\ b \in DOMAIN blobs
    /\ blobs' = Restrict(blobs, DOMAIN blobs \ {b})
    /\ firstBlob' = Restrict(firstBlob, DOMAIN firstBlob \ {b})
    /\ UNCHANGED <<containers, blobReq, sm>>

-----------------------------------------------------------------------------
(* Secrets *)

\* create_secret reads first and inserts then.
CreateSecret(c, n) ==
    /\ blobReq[c] = BlobIdle
    /\ n \notin DOMAIN secrets
    /\ BlobGo(c, [at |-> "insert", name |-> n])
    /\ UNCHANGED <<azure, sm>>

\* Mutant: INSERT OR REPLACE.
SecretInsertable(n) == TRUE

\* The name is the primary key: the later of two INSERTs fails, with InternalError
\* in place of ResourceExistsException.
SecretAbsent(n) == n \notin DOMAIN secrets

InsertSecret(c) ==
    LET n == blobReq[c].name IN
    /\ blobReq[c].at = "insert"
    /\ IF SecretAbsent(n)
       THEN /\ secrets' = Put(secrets, n, c)
            /\ firstSecret' = Put(firstSecret, n,
                  IF n \in DOMAIN firstSecret THEN firstSecret[n] \cup {c} ELSE {c})
            /\ BlobGo(c, [at |-> "inserted", name |-> n])
       ELSE BlobGo(c, BlobIdle) /\ UNCHANGED sm
    /\ UNCHANGED azure

\* The answer is what a third call finds, an error when the secret was deleted.
SecretCreated(c) ==
    /\ blobReq[c].at = "inserted"
    /\ BlobGo(c, BlobIdle)
    /\ UNCHANGED <<azure, sm>>

PutSecretValue(c, n) ==
    /\ blobReq[c] = BlobIdle
    /\ n \in DOMAIN secrets
    /\ secrets' = [secrets EXCEPT ![n] = c]
    /\ UNCHANGED <<azure, blobReq, firstSecret>>

\* Deleting a secret that is not there answers OK as well.
DeleteSecret(n) ==
    /\ n \in DOMAIN secrets
    /\ secrets' = Restrict(secrets, DOMAIN secrets \ {n})
    /\ firstSecret' = Restrict(firstSecret, DOMAIN firstSecret \ {n})
    /\ UNCHANGED <<azure, blobReq>>

\* /_cloudtwin/reset of one service, or of both.
ResetBlobs ==
    /\ containers # {}
    /\ containers' = {} /\ blobs' = <<>> /\ firstBlob' = <<>>
    /\ UNCHANGED <<blobReq, sm>>

ResetSecrets ==
    /\ secrets # <<>>
    /\ secrets' = <<>> /\ firstSecret' = <<>>
    /\ UNCHANGED <<azure, blobReq>>

BlobInit ==
    /\ containers = {} /\ blobs = <<>> /\ firstBlob = <<>>
    /\ secrets = <<>> /\ firstSecret = <<>>
    /\ blobReq = [c \in BlobClients |-> BlobIdle]

BlobRequest ==
    \/ ResetBlobs
    \/ \E n \in Containers :
          DeleteContainer(n) \/ \E c \in BlobClients : CreateContainer(c, n)
    \/ \E c \in BlobClients : ContainerCreated(c)
    \/ \E b \in Containers \X BlobNames :
          \/ DeleteBlob(b)
          \/ \E c \in BlobClients, absent \in BOOLEAN : PutBlob(c, b, absent)

SecretRequest ==
    \/ ResetSecrets
    \/ \E c \in BlobClients : InsertSecret(c) \/ SecretCreated(c)
    \/ \E n \in SecretNames :
          \/ DeleteSecret(n)
          \/ \E c \in BlobClients : CreateSecret(c, n) \/ PutSecretValue(c, n)

BlobNext == BlobRequest \/ SecretRequest

BlobSpec == BlobInit /\ [][BlobNext]_blobVars

-----------------------------------------------------------------------------
(* Properties *)

\* No blob without its container, however puts and the container's deletion and
\* creation interleave.
BlobsHaveContainer == \A b \in DOMAIN blobs : b[1] \in containers

\* What a client stored under If-None-Match: * stays until somebody overwrites it
\* without that condition, or deletes it: no second conditional put succeeds.
FirstWriterStays ==
    \A b \in DOMAIN firstBlob \cap DOMAIN firstBlob' : firstBlob'[b] = firstBlob[b]

\* Of the CreateSecret requests that found the name free, one makes the secret: the
\* others fail until it is deleted.
OneCreator == \A n \in DOMAIN firstSecret : Cardinality(firstSecret[n]) = 1

\* Of several clients that create a name only if it is absent one succeeds, with blobs
\* as with secrets, and a blob's container is there as long as the blob.
CreatedIfAbsent == [][FirstWriterStays /\ OneCreator' /\ BlobsHaveContainer']_blobVars
=============================================================================
