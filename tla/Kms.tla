-------------------------------- MODULE Kms --------------------------------
(***************************************************************************)
(* The KMS emulation of CloudTwin: src/src/aws/kms/service.rs, the         *)
(* dispatcher in handlers.rs and the seeding in mod.rs.                    *)
(*                                                                         *)
(* A request first purges the keys whose deletion is due, then resolves    *)
(* the key it names, which takes one call of the connection's thread for   *)
(* an id and two for an alias, decides on the copy it read, and writes     *)
(* that copy back with `save`.  Every call is one step, so the requests    *)
(* of different clients interleave between them.                           *)
(***************************************************************************)
EXTENDS Integers, FiniteSets, Functions, ServiceConstants

CONSTANTS
    KmsClients, KeyIds, SeedIds, Aliases, Contexts,
    MIN_WINDOW, MAX_WINDOW,   \* 7 and 30 days
    MaxKeys, MaxBlobs         \* bounds: keys created, ciphertexts handed out

ASSUME KmsConstants ==
    /\ None \notin Int /\ None \notin KeyIds
    /\ SeedIds \subseteq KeyIds
    /\ MIN_WINDOW \in Nat /\ MAX_WINDOW \in Nat
    /\ MaxKeys \in Nat /\ MaxBlobs \in Nat

VARIABLES
    kmsKeys,      \* table kms_keys: id -> row
    kmsAliases,   \* table kms_aliases: name -> target_key_id
    kmsReq,       \* what the request of each client holds between two calls
    kmsCreated,   \* how many keys were created
    kmsUsed,      \* history: ids ever drawn by CreateKey
    kmsBlobs,     \* history: ciphertexts handed out
    kmsDue,       \* history: id -> what remains of the windows not cancelled
    kmsLoose      \* history: aliases written after their target was removed

kmsVars == <<kmsKeys, kmsAliases, kmsReq, kmsCreated, kmsUsed, kmsBlobs, kmsDue, kmsLoose>>
tables == <<kmsKeys, kmsAliases, kmsCreated, kmsUsed, kmsBlobs, kmsDue, kmsLoose>>

\* deletion_date is in days from now; symmetric stands for key_spec and key_usage.
\* description, policy, tags and the rotation columns are left out: an operation
\* on them saves the rest of the copy as it was read.
KeyRows == [symmetric : BOOLEAN, key_state : {"Enabled", "Disabled", "PendingDeletion"},
            deletion_date : Nat \cup {None}, material : Nat]

Blobs == [key : KeyIds, material : Nat, ctx : Contexts]

Idle == [at |-> "idle"]
Go(c, r) == kmsReq' = [kmsReq EXCEPT ![c] = r]

-----------------------------------------------------------------------------
(* The start of every request *)

\* Mutant: every key that waits for its deletion goes.
PendingKeys == {k \in DOMAIN kmsKeys : kmsKeys[k].key_state = "PendingDeletion"}

Expired == {k \in DOMAIN kmsKeys :
               /\ kmsKeys[k].key_state = "PendingDeletion"
               /\ kmsKeys[k].deletion_date = 0}

\* Mutant: the aliases stay.
AllAliases == kmsAliases

AliasesKept ==
    Restrict(kmsAliases, {a \in DOMAIN kmsAliases : kmsAliases[a] \notin Expired})

PurgeExpired(c) ==
    /\ kmsReq[c] = Idle
    /\ kmsAliases' = AliasesKept
    /\ kmsKeys' = Restrict(kmsKeys, DOMAIN kmsKeys \ Expired)
    /\ kmsLoose' = kmsLoose \cap DOMAIN kmsAliases'
    /\ Go(c, [at |-> "purged", id |-> None])
    /\ UNCHANGED <<kmsCreated, kmsUsed, kmsBlobs, kmsDue>>

\* The two DELETEs are no transaction: the process can stop between them, and
\* every request with it.
CrashInPurge ==
    /\ Expired # {}
    /\ kmsAliases' = AliasesKept
    /\ kmsLoose' = kmsLoose \cap DOMAIN kmsAliases'
    /\ kmsReq' = [c \in KmsClients |-> Idle]
    /\ UNCHANGED <<kmsKeys, kmsCreated, kmsUsed, kmsBlobs, kmsDue>>

-----------------------------------------------------------------------------
(* The state of a copy that an operation needs *)

NotPending(row) == row.key_state # "PendingDeletion"
CanCrypt(row) == row.key_state = "Enabled" /\ row.symmetric

-----------------------------------------------------------------------------
(* What the operations that change a key make of the copy: the set of the    *)
(* copies they may save, empty where they are refused.                       *)

\* Mutant: the state is not looked at.
SetEnabledAnyway(row) ==
    {[row EXCEPT !.key_state = s] : s \in {"Enabled", "Disabled"}}

SetEnabled(row) ==
    {[row EXCEPT !.key_state = s] : s \in {x \in {"Enabled", "Disabled"} : NotPending(row)}}

ScheduleDeletion(row) ==
    {[row EXCEPT !.key_state = "PendingDeletion", !.deletion_date = d] :
        d \in {x \in MIN_WINDOW..MAX_WINDOW : NotPending(row)}}

CancelDeletion(row) ==
    IF NotPending(row) THEN {}
    ELSE {[row EXCEPT !.key_state = "Disabled", !.deletion_date = None]}

SetRotation(row) == {r \in {row} : r.key_state = "Enabled" /\ r.symmetric}

\* More than 50 tags, or a text that is too long, are refused: see Answered.
UpdateDescription(row) == {r \in {row} : NotPending(r)}
TagResource(row) == {r \in {row} : NotPending(r)}
UntagResource(row) == {r \in {row} : NotPending(r)}
PutKeyPolicy(row) == {r \in {row} : NotPending(r)}

\* The copies that some request may save, with the kind of the request.
Changed(row) ==
    ({"schedule"} \X ScheduleDeletion(row)) \cup ({"cancel"} \X CancelDeletion(row))
    \cup ({"other"} \X (SetEnabled(row) \cup SetRotation(row) \cup UpdateDescription(row)
                        \cup TagResource(row) \cup UntagResource(row) \cup PutKeyPolicy(row)))

-----------------------------------------------------------------------------
(* Resolving the key a request names *)

Resolving == {"purged", "update", "blob", "dest"}

\* get_alias, the first call for an alias: the request goes on with the id.
LookUp(c, a) ==
    /\ kmsReq[c].at \in Resolving /\ kmsReq[c].id = None
    /\ Go(c, IF a \in DOMAIN kmsAliases
             THEN [kmsReq[c] EXCEPT !.id = kmsAliases[a]] ELSE Idle)
    /\ UNCHANGED tables

\* load_key for an id, or for the target of the alias found before.
Loads(c, stage, k) ==
    /\ kmsReq[c].at = stage
    /\ kmsReq[c].id \in {None, k}

NotFound(c, k) ==
    /\ \E s \in Resolving : Loads(c, s, k)
    /\ k \notin DOMAIN kmsKeys
    /\ Go(c, Idle)
    /\ UNCHANGED tables

\* An operation that needs the key in another state is refused, and one that
\* only reads answers: both end here.
Answered(c, k) ==
    /\ Loads(c, "purged", k)
    /\ k \in DOMAIN kmsKeys
    /\ Go(c, Idle)
    /\ UNCHANGED tables

\* A request about to save: the copy, and what the request does after that.
\* overtaken is history: another request wrote the key after this one read it.
Saving(k, op, row, rest) ==
    [at |-> "save", id |-> k, op |-> op, key_state |-> row.key_state,
     deletion_date |-> row.deletion_date, then |-> rest, overtaken |-> FALSE]

Configure(c, k) ==
    /\ Loads(c, "purged", k)
    /\ k \in DOMAIN kmsKeys
    /\ \E w \in Changed(kmsKeys[k]) :
          Go(c, Saving(k, w[1], w[2], Idle))
    /\ UNCHANGED tables

Overtake(c, k) ==
    kmsReq' = [d \in KmsClients |->
        IF d = c THEN kmsReq[c].then
        ELSE IF kmsReq[d].at = "save" /\ kmsReq[d].id = k
             THEN [kmsReq[d] EXCEPT !.overtaken = TRUE] ELSE kmsReq[d]]

Written(row, r) ==
    [row EXCEPT !.key_state = r.key_state, !.deletion_date = r.deletion_date]

\* save: every column that can change comes from the copy.  Nothing happens when
\* the row is gone.
Save(c) ==
    LET r == kmsReq[c] IN
    /\ r.at = "save"
    /\ Overtake(c, r.id)
    /\ kmsKeys' = IF r.id \in DOMAIN kmsKeys THEN [kmsKeys EXCEPT ![r.id] = Written(@, r)]
                ELSE kmsKeys
    /\ kmsDue' = [kmsDue EXCEPT ![r.id] =
          CASE r.op = "schedule" -> @ \cup {r.deletion_date}
            [] r.op = "cancel" -> {}
            [] r.op = "other" -> @]
    /\ UNCHANGED <<kmsAliases, kmsCreated, kmsUsed, kmsBlobs, kmsLoose>>

-----------------------------------------------------------------------------
(* Keys and aliases *)

NewRow(spec, m) ==
    [symmetric |-> spec, key_state |-> "Enabled", deletion_date |-> None,
     material |-> m]

\* The id is a random UUID and the material is random: neither occurs twice.
CreateKey(c, k) ==
    /\ kmsReq[c].at = "purged" /\ kmsReq[c].id = None
    /\ k \notin SeedIds \cup kmsUsed
    /\ kmsCreated < MaxKeys
    /\ \E spec \in BOOLEAN : kmsKeys' = Put(kmsKeys, k, NewRow(spec, kmsCreated + 1))
    /\ kmsCreated' = kmsCreated + 1
    /\ kmsUsed' = kmsUsed \cup {k}
    /\ Go(c, Idle)
    /\ UNCHANGED <<kmsAliases, kmsBlobs, kmsDue, kmsLoose>>

CreateAlias(c, k, a) ==
    /\ Loads(c, "purged", k)
    /\ k \in DOMAIN kmsKeys /\ NotPending(kmsKeys[k])
    /\ Go(c, [at |-> "insert", name |-> a, target |-> k])
    /\ UNCHANGED tables

\* An alias is written for a target that may be gone by now.
Point(a, k) ==
    /\ kmsAliases' = Put(kmsAliases, a, k)
    /\ kmsLoose' = IF k \in DOMAIN kmsKeys THEN kmsLoose \ {a} ELSE kmsLoose \cup {a}

\* INSERT OR IGNORE: a name in use is refused.
InsertAlias(c) ==
    /\ kmsReq[c].at = "insert"
    /\ IF kmsReq[c].name \in DOMAIN kmsAliases THEN UNCHANGED <<kmsAliases, kmsLoose>>
       ELSE Point(kmsReq[c].name, kmsReq[c].target)
    /\ Go(c, Idle)
    /\ UNCHANGED <<kmsKeys, kmsCreated, kmsUsed, kmsBlobs, kmsDue>>

UpdateAlias(c, a) ==
    /\ kmsReq[c].at = "purged" /\ kmsReq[c].id = None
    /\ Go(c, IF a \in DOMAIN kmsAliases
             THEN [at |-> "update", id |-> None, name |-> a] ELSE Idle)
    /\ UNCHANGED tables

UpdateTarget(c, k) ==
    /\ Loads(c, "update", k)
    /\ k \in DOMAIN kmsKeys
    /\ Go(c, IF NotPending(kmsKeys[k])
             THEN [at |-> "repoint", name |-> kmsReq[c].name, target |-> k] ELSE Idle)
    /\ UNCHANGED tables

\* The UPDATE does nothing when the alias was deleted meanwhile.
RepointAlias(c) ==
    /\ kmsReq[c].at = "repoint"
    /\ IF kmsReq[c].name \in DOMAIN kmsAliases THEN Point(kmsReq[c].name, kmsReq[c].target)
       ELSE UNCHANGED <<kmsAliases, kmsLoose>>
    /\ Go(c, Idle)
    /\ UNCHANGED <<kmsKeys, kmsCreated, kmsUsed, kmsBlobs, kmsDue>>

DeleteAlias(c, a) ==
    /\ kmsReq[c].at = "purged" /\ kmsReq[c].id = None
    /\ kmsAliases' = Restrict(kmsAliases, DOMAIN kmsAliases \ {a})
    /\ kmsLoose' = kmsLoose \ {a}
    /\ Go(c, Idle)
    /\ UNCHANGED <<kmsKeys, kmsCreated, kmsUsed, kmsBlobs, kmsDue>>

-----------------------------------------------------------------------------
(* Cryptography *)

Seal(k, ctx) == [key |-> k, material |-> kmsKeys[k].material, ctx |-> ctx]

\* The callers keep MaxBlobs ciphertexts at most.
Kept(b) == {s \in SUBSET (kmsBlobs \cup {b}) : b \in s /\ Cardinality(s) <= MaxBlobs}

\* Encrypt, GenerateDataKey and GenerateDataKeyWithoutPlaintext.
Encrypt(c, k, ctx) ==
    /\ Loads(c, "purged", k)
    /\ k \in DOMAIN kmsKeys /\ CanCrypt(kmsKeys[k])
    /\ kmsBlobs' \in Kept(Seal(k, ctx))
    /\ Go(c, Idle)
    /\ UNCHANGED <<kmsKeys, kmsAliases, kmsCreated, kmsUsed, kmsDue, kmsLoose>>

\* The copy opens the blob: the same key material and the same context.
Opens(row, b, ctx) == CanCrypt(row) /\ row.material = b.material /\ ctx = b.ctx

\* Decrypt and the first half of ReEncrypt: the key is the one the blob names, and
\* a KeyId in the request is resolved after that one was read.
Decrypt(c, b, ctx) ==
    /\ kmsReq[c].at = "purged" /\ kmsReq[c].id = None
    /\ b.key \in DOMAIN kmsKeys
    /\ \/ Go(c, [at |-> "blob", id |-> None, key |-> b.key,
                 opens |-> Opens(kmsKeys[b.key], b, ctx)])
       \/ /\ Opens(kmsKeys[b.key], b, ctx)
          /\ Go(c, [at |-> "dest", id |-> None])
    /\ UNCHANGED tables

\* With a KeyId: it must name the blob's key; the state is that of the copy.
DecryptNamed(c, k) ==
    /\ Loads(c, "blob", k)
    /\ k \in DOMAIN kmsKeys
    /\ \/ k = kmsReq[c].key /\ kmsReq[c].opens /\ Go(c, [at |-> "dest", id |-> None])
       \/ Go(c, Idle)
    /\ UNCHANGED tables

\* The second half of ReEncrypt.
ReEncrypt(c, k, ctx) ==
    /\ Loads(c, "dest", k)
    /\ k \in DOMAIN kmsKeys
    /\ IF CanCrypt(kmsKeys[k]) THEN kmsBlobs' \in Kept(Seal(k, ctx)) ELSE UNCHANGED kmsBlobs
    /\ Go(c, Idle)
    /\ UNCHANGED <<kmsKeys, kmsAliases, kmsCreated, kmsUsed, kmsDue, kmsLoose>>

-----------------------------------------------------------------------------
(* Seeding and resetting.  The seed document's entry for id k has alias a    *)
(* and may ask for a disabled key.                                           *)

\* Mutant: a seeded key gets random material.
RandomMaterial(k) == kmsCreated + 1

\* seeded_material: a hash of the id, the same at every seeding.
SeededMaterial(k) == 0

SeedLook(c, k) ==
    /\ kmsReq[c] = Idle
    /\ Go(c, [at |-> IF k \in DOMAIN kmsKeys THEN "seeded" ELSE "create", id |-> k])
    /\ UNCHANGED tables

\* INSERT OR IGNORE: a key that another seeding created meanwhile ends this one.
SeedCreate(c) ==
    /\ kmsReq[c].at = "create"
    /\ IF kmsReq[c].id \in DOMAIN kmsKeys
       THEN UNCHANGED tables /\ Go(c, Idle)
       ELSE /\ kmsCreated < MaxKeys
            /\ kmsKeys' = Put(kmsKeys, kmsReq[c].id, NewRow(TRUE, SeededMaterial(kmsReq[c].id)))
            /\ kmsCreated' = kmsCreated + 1
            /\ \E stage \in {"seeded", "disable"} : Go(c, [at |-> stage, id |-> kmsReq[c].id])
            /\ UNCHANGED <<kmsAliases, kmsUsed, kmsBlobs, kmsDue, kmsLoose>>

\* set_enabled(false) of the key just created, which a reset may have removed.
SeedDisable(c) ==
    LET k == kmsReq[c].id IN
    /\ kmsReq[c].at = "disable"
    /\ Go(c, IF k \in DOMAIN kmsKeys /\ NotPending(kmsKeys[k])
             THEN Saving(k, "other", [kmsKeys[k] EXCEPT !.key_state = "Disabled"],
                         [at |-> "seeded", id |-> k])
             ELSE Idle)
    /\ UNCHANGED tables

\* An alias that is missing is created as by CreateAlias.
SeedAlias(c, a) ==
    /\ kmsReq[c].at = "seeded"
    /\ Go(c, IF a \notin DOMAIN kmsAliases /\ kmsReq[c].id \in DOMAIN kmsKeys
                /\ NotPending(kmsKeys[kmsReq[c].id])
             THEN [at |-> "insert", name |-> a, target |-> kmsReq[c].id] ELSE Idle)
    /\ UNCHANGED tables

\* POST /_cloudtwin/reset empties the kms_ tables in one transaction; requests in
\* flight go on.
ResetKeys ==
    /\ kmsKeys # <<>> \/ kmsAliases # <<>>
    /\ kmsKeys' = <<>> /\ kmsAliases' = <<>>
    /\ kmsDue' = [k \in KeyIds |-> {}]
    /\ kmsLoose' = {}
    /\ UNCHANGED <<kmsReq, kmsCreated, kmsUsed, kmsBlobs>>

Less(d) == IF d = None \/ d = 0 THEN d ELSE d - 1
Aged(row) == [row EXCEPT !.deletion_date = Less(@)]

\* A day passes.
Day ==
    /\ \/ \E k \in DOMAIN kmsKeys : kmsKeys[k].deletion_date \notin {None, 0}
       \/ \E c \in KmsClients : kmsReq[c].at = "save" /\ kmsReq[c].deletion_date \notin {None, 0}
    /\ kmsKeys' = [k \in DOMAIN kmsKeys |-> Aged(kmsKeys[k])]
    /\ kmsReq' = [c \in KmsClients |->
          IF kmsReq[c].at = "save" THEN Aged(kmsReq[c]) ELSE kmsReq[c]]
    /\ kmsDue' = [k \in KeyIds |-> {Less(d) : d \in kmsDue[k]}]
    /\ UNCHANGED <<kmsAliases, kmsCreated, kmsUsed, kmsBlobs, kmsLoose>>

KmsInit ==
    /\ kmsKeys = <<>> /\ kmsAliases = <<>>
    /\ kmsReq = [c \in KmsClients |-> Idle]
    /\ kmsCreated = 0 /\ kmsUsed = {} /\ kmsBlobs = {}
    /\ kmsDue = [k \in KeyIds |-> {}] /\ kmsLoose = {}

KeyRequest(c) ==
    \/ PurgeExpired(c) \/ Save(c)
    \/ \E k \in KeyIds :
          CreateKey(c, k) \/ NotFound(c, k) \/ Answered(c, k) \/ Configure(c, k)

AliasRequest(c) ==
    \/ InsertAlias(c) \/ RepointAlias(c)
    \/ \E a \in Aliases : LookUp(c, a) \/ UpdateAlias(c, a) \/ DeleteAlias(c, a)
    \/ \E k \in KeyIds : UpdateTarget(c, k) \/ \E a \in Aliases : CreateAlias(c, k, a)

CryptoRequest(c) ==
    \/ \E ctx \in Contexts : \E b \in kmsBlobs : Decrypt(c, b, ctx)
    \/ \E k \in KeyIds :
          \/ DecryptNamed(c, k)
          \/ \E ctx \in Contexts : Encrypt(c, k, ctx) \/ ReEncrypt(c, k, ctx)

Seeding(c) ==
    \/ SeedCreate(c) \/ SeedDisable(c)
    \/ \E k \in SeedIds : SeedLook(c, k)
    \/ \E a \in Aliases : SeedAlias(c, a)

KmsNext ==
    \/ \E c \in KmsClients : KeyRequest(c) \/ AliasRequest(c) \/ CryptoRequest(c) \/ Seeding(c)
    \/ ResetKeys \/ Day \/ CrashInPurge

KmsSpec == KmsInit /\ [][KmsNext]_kmsVars

-----------------------------------------------------------------------------
(* Properties *)

\* The purge at the start of a request removes a key only when a whole window has
\* passed since some ScheduleKeyDeletion that no CancelKeyDeletion has undone, however
\* the saves of stale copies interleaved.  (A reset, which is no request, removes all.)
DeletedWhenDue ==
    kmsReq' # kmsReq => \A k \in DOMAIN kmsKeys \ DOMAIN kmsKeys' : 0 \in kmsDue[k]

\* A scheduled deletion is undone only by CancelKeyDeletion, or by the save of a
\* request that had read the key before it was written: the one lost update that
\* save's whole-row write allows.
UndoneOnlyByOverlap ==
    \A k \in DOMAIN kmsKeys \cap DOMAIN kmsKeys' :
        kmsKeys[k].key_state = "PendingDeletion" /\ kmsKeys'[k].key_state # "PendingDeletion"
        => \E c \in KmsClients :
              /\ kmsReq[c].at = "save" /\ kmsReq[c].id = k
              /\ kmsReq[c].op = "cancel" \/ kmsReq[c].overtaken

\* A ciphertext made with a seeded key can be opened with whatever key has that id,
\* after any number of resets, deletions and seedings.
SeededCiphertextsOpen ==
    \A b \in kmsBlobs :
        b.key \in DOMAIN kmsKeys => kmsKeys[b.key].material = b.material

\* An alias whose key is gone was written by a request that found the key before
\* a purge or a reset removed it: neither leaves one behind.
AliasesHaveKeys ==
    \A a \in DOMAIN kmsAliases : kmsAliases[a] \in DOMAIN kmsKeys \/ a \in kmsLoose

\* Keys go when they are due and stay otherwise; what names them and what they sealed
\* stays usable.
KeysKept ==
    [][/\ DeletedWhenDue /\ UndoneOnlyByOverlap
       /\ SeededCiphertextsOpen' /\ AliasesHaveKeys']_kmsVars
=============================================================================
