---------------------------- MODULE KmsMailProofs ----------------------------
(***************************************************************************)
(* Theorems about KMS and the parts of SES, for every number of clients,   *)
(* keys, identities, rules and messages.                                   *)
(***************************************************************************)
EXTENDS MCKmsMail, FiniteSetTheorems, SequenceTheorems, TLAPS

-----------------------------------------------------------------------------
(* Sequences *)

\* The head of one sequence goes to the end of another.
LEMMA HeadTaken ==
    ASSUME NEW S, NEW s \in Seq(S), NEW t \in Seq(S), t # <<>>
    PROVE  Append(s, Head(t)) \o Tail(t) = s \o t
  <1>1. Head(t) \in S /\ Tail(t) \in Seq(S) /\ Len(t) \in Nat /\ Len(t) >= 1
        /\ Len(Tail(t)) = Len(t) - 1 /\ Head(t) = t[1] /\ \A n \in 1..Len(t) - 1 : Tail(t)[n] = t[n + 1]
    BY EmptySeq
  <1> DEFINE a == Append(s, Head(t))
  <1>2. /\ a \in Seq(S) /\ Len(a) = Len(s) + 1 /\ a[Len(s) + 1] = t[1]
        /\ \A n \in 1..Len(s) : a[n] = s[n]
    BY <1>1
  <1>3. a \o Tail(t) \in Seq(S) /\ Len(a \o Tail(t)) = Len(s) + Len(t)
        /\ s \o t \in Seq(S) /\ Len(s \o t) = Len(s) + Len(t)
    BY <1>1, <1>2
  <1> HIDE DEF a
  <1>4. ASSUME NEW n \in 1..Len(s) + Len(t) PROVE (a \o Tail(t))[n] = (s \o t)[n]
    <2>0. Len(s) \in Nat
      OBVIOUS
    <2>1. CASE n <= Len(s)
      BY <2>0, <2>1, <1>1, <1>2
    <2>2. CASE n = Len(s) + 1
      BY <2>0, <2>2, <1>1, <1>2
    <2>3. CASE n > Len(s) + 1
      <3>1. (a \o Tail(t))[n] = Tail(t)[n - Len(a)] /\ n - Len(a) \in 1..Len(t) - 1
        BY <2>0, <2>3, <1>1, <1>2
      <3>2. (s \o t)[n] = t[n - Len(s)]
        BY <2>0, <2>3, <1>1
      <3>3. n - Len(a) + 1 = n - Len(s)
        BY <2>0, <1>2
      <3> QED
        BY <3>1, <3>2, <3>3, <1>1
    <2>4. Len(t) \in Nat
      BY <1>1
    <2>5. n <= Len(s) \/ n = Len(s) + 1 \/ n > Len(s) + 1
      BY <2>0, <2>4
    <2> QED
      BY <2>1, <2>2, <2>3, <2>5
  <1>5. Len(a \o Tail(t)) = Len(s \o t) /\ \A n \in 1..Len(a \o Tail(t)) : (a \o Tail(t))[n] = (s \o t)[n]
    BY <1>3, <1>4
  <1> QED
    BY <1>3, <1>5, SeqEqual DEF a

\* A set of naturals has a least element.
LEMMA LeastNat ==
    ASSUME NEW T, T \subseteq Nat, T # {}
    PROVE  \E x \in T : \A y \in T : x <= y
<1> DEFINE R == {p \in Nat \X Nat : p[1] < p[2]}
<1>1. IsWellFoundedOn(R, Nat)
  BY NatLessThanWellFounded DEF OpToRel
<1>2. \E x \in T : \A y \in T : <<y, x>> \notin R
  <2> HIDE DEF R
  <2> QED
    BY <1>1, WFMin
<1>3. PICK x \in T : \A y \in T : <<y, x>> \notin R
  BY <1>2
<1>4. ASSUME NEW y \in T PROVE x <= y
  <2>1. x \in Nat /\ y \in Nat /\ ~(y < x)
    BY <1>3
  <2> QED
    BY <2>1
<1> QED
  BY <1>3, <1>4

-----------------------------------------------------------------------------
(* KMS *)

KeyIdsOrNone == KeyIds \cup {None}

\* A save that is about to be made, with what the request does after it.
KmsSaves ==
    [at : {"save"}, id : KeyIds, op : {"schedule", "cancel", "other"},
     key_state : {"Enabled", "Disabled", "PendingDeletion"}, deletion_date : Nat \cup {None},
     then : {Idle} \cup [at : {"seeded"}, id : SeedIds], overtaken : BOOLEAN]

\* What the request of a client may hold.
KmsRequests ==
    {Idle} \cup KmsSaves
    \cup [at : {"purged", "dest"}, id : KeyIdsOrNone]
    \cup [at : {"update"}, id : KeyIdsOrNone, name : Aliases]
    \cup [at : {"blob"}, id : KeyIdsOrNone, key : KeyIds, opens : BOOLEAN]
    \cup [at : {"insert", "repoint"}, name : Aliases, target : KeyIds]
    \cup [at : {"seeded", "create", "disable"}, id : SeedIds]

KmsTypeOK ==
    /\ kmsReq \in [KmsClients -> KmsRequests]
    /\ kmsCreated \in Nat /\ kmsUsed \subseteq KeyIds \ SeedIds
    /\ kmsDue \in [KeyIds -> SUBSET (Nat \cup {None})]
    /\ DOMAIN kmsKeys \subseteq SeedIds \cup kmsUsed
    /\ \A k \in DOMAIN kmsKeys : kmsKeys[k] \in KeyRows
    /\ \A a \in DOMAIN kmsAliases : kmsAliases[a] \in KeyIds

\* A key that waits for its deletion waits for a window that was asked for and not
\* cancelled.
WindowsAsked ==
    \A k \in DOMAIN kmsKeys :
        kmsKeys[k].key_state = "PendingDeletion" =>
            kmsKeys[k].deletion_date \in kmsDue[k] /\ kmsKeys[k].deletion_date \in Nat

\* Only ScheduleKeyDeletion saves a key that waits for its deletion, and a request that
\* saves another has read one that does not, or was overtaken.
SaveTold(r) ==
    r.at = "save" =>
        /\ (r.op = "schedule") = (r.key_state = "PendingDeletion")
        /\ r.op = "schedule" => r.deletion_date \in Nat
        /\ r.op = "other" /\ ~r.overtaken /\ r.id \in DOMAIN kmsKeys
              => kmsKeys[r.id].key_state # "PendingDeletion"

SaveToldAfter(r) ==
    r.at = "save" =>
        /\ (r.op = "schedule") = (r.key_state = "PendingDeletion")
        /\ r.op = "schedule" => r.deletion_date \in Nat
        /\ r.op = "other" /\ ~r.overtaken /\ r.id \in DOMAIN kmsKeys'
              => kmsKeys'[r.id].key_state # "PendingDeletion"

SavesTold == \A c \in KmsClients : SaveTold(kmsReq[c])

\* Seeded keys have the one material, other ids are never drawn again.
MaterialsLast ==
    /\ \A k \in DOMAIN kmsKeys \cap SeedIds : kmsKeys[k].material = 0
    /\ \A b \in kmsBlobs : b.key \in SeedIds \cup kmsUsed /\ (b.key \in SeedIds => b.material = 0)

KmsInv ==
    /\ KmsTypeOK /\ WindowsAsked /\ SavesTold
    /\ MaterialsLast /\ SeededCiphertextsOpen /\ AliasesHaveKeys

\* What KeysKept asks of a step.
KmsStepKept == DeletedWhenDue /\ UndoneOnlyByOverlap

LEMMA KmsInitInv == KmsInit => KmsInv
  <1> SUFFICES ASSUME KmsInit PROVE KmsInv
    OBVIOUS
  <1>1. KmsTypeOK
    BY DEF KmsInit, KmsTypeOK, KmsRequests
  <1>2. WindowsAsked /\ SavesTold
    BY DEF KmsInit, WindowsAsked, SavesTold, SaveTold, Idle
  <1>3. MaterialsLast /\ SeededCiphertextsOpen /\ AliasesHaveKeys
    BY DEF KmsInit, MaterialsLast, SeededCiphertextsOpen, AliasesHaveKeys
  <1> QED
    BY <1>1, <1>2, <1>3 DEF KmsInv

\* A step that changes no table, and hands a client something it may hold.
LEMMA KmsGo ==
    ASSUME KmsInv, NEW c \in KmsClients, NEW r \in KmsRequests, SaveTold(r),
           Go(c, r), UNCHANGED tables
    PROVE  KmsInv' /\ KmsStepKept
  <1> USE DEF tables
  <1>1. KmsTypeOK'
    BY DEF KmsInv, KmsTypeOK, Go
  <1>2. WindowsAsked' /\ MaterialsLast' /\ SeededCiphertextsOpen' /\ AliasesHaveKeys'
    BY DEF KmsInv, WindowsAsked, MaterialsLast, SeededCiphertextsOpen, AliasesHaveKeys
  <1>3. SavesTold'
    <2> SUFFICES ASSUME NEW d \in KmsClients PROVE SaveTold(kmsReq[d])'
      BY DEF SavesTold
    <2>1. kmsReq'[d] = r \/ kmsReq'[d] = kmsReq[d]
      BY DEF Go, KmsInv, KmsTypeOK
    <2> QED
      BY <2>1 DEF KmsInv, SavesTold, SaveTold
  <1>4. KmsStepKept
    BY DEF KmsStepKept, DeletedWhenDue, UndoneOnlyByOverlap
  <1> QED
    BY <1>1, <1>2, <1>3, <1>4 DEF KmsInv

\* The steps of a request that only read.
LEMMA KmsLooks ==
    ASSUME KmsInv, NEW c \in KmsClients, NEW a \in Aliases, LookUp(c, a) \/ UpdateAlias(c, a)
    PROVE  KmsInv' /\ KmsStepKept
  <1>0. kmsReq[c] \in KmsRequests /\ Idle \in KmsRequests /\ SaveTold(Idle)
    BY DEF KmsInv, KmsTypeOK, KmsRequests, SaveTold, Idle
  <1>1. CASE LookUp(c, a)
    <2>1. a \in DOMAIN kmsAliases => kmsAliases[a] \in KeyIdsOrNone
      BY DEF KmsInv, KmsTypeOK, KeyIdsOrNone
    <2> DEFINE r == [kmsReq[c] EXCEPT !.id = kmsAliases[a]]
    <2>2. a \in DOMAIN kmsAliases => r \in KmsRequests /\ SaveTold(r)
      <3> SUFFICES ASSUME a \in DOMAIN kmsAliases PROVE r \in KmsRequests /\ SaveTold(r)
        OBVIOUS
      <3>1. kmsReq[c] \in [at : {"purged", "dest"}, id : KeyIdsOrNone]
               \cup [at : {"update"}, id : KeyIdsOrNone, name : Aliases]
               \cup [at : {"blob"}, id : KeyIdsOrNone, key : KeyIds, opens : BOOLEAN]
        BY <1>0, <1>1 DEF LookUp, Resolving, KmsRequests, KmsSaves, Idle
      <3>2. r \in [at : {"purged", "dest"}, id : KeyIdsOrNone]
               \cup [at : {"update"}, id : KeyIdsOrNone, name : Aliases]
               \cup [at : {"blob"}, id : KeyIdsOrNone, key : KeyIds, opens : BOOLEAN]
        BY <3>1, <2>1
      <3>3. r.at # "save"
        BY <3>2
      <3> QED
        BY <3>2, <3>3 DEF KmsRequests, SaveTold
    <2>3. PICK x \in KmsRequests : SaveTold(x) /\ Go(c, x)
      BY <1>1, <1>0, <2>2 DEF LookUp
    <2> QED
      BY <2>3, <1>1, KmsGo DEF LookUp
  <1>2. CASE UpdateAlias(c, a)
    <2> DEFINE r == [at |-> "update", id |-> None, name |-> a]
    <2>1. r \in KmsRequests /\ SaveTold(r)
      BY DEF KmsRequests, SaveTold, KeyIdsOrNone
    <2>2. PICK x \in KmsRequests : SaveTold(x) /\ Go(c, x)
      BY <1>2, <1>0, <2>1 DEF UpdateAlias
    <2> QED
      BY <2>2, <1>2, KmsGo DEF UpdateAlias
  <1> QED
    BY <1>1, <1>2

LEMMA KmsReads ==
    ASSUME KmsInv, NEW c \in KmsClients, NEW k \in KeyIds,
           NotFound(c, k) \/ Answered(c, k) \/ UpdateTarget(c, k) \/ DecryptNamed(c, k)
    PROVE  KmsInv' /\ KmsStepKept
  <1>0. kmsReq[c] \in KmsRequests /\ Idle \in KmsRequests /\ SaveTold(Idle)
    BY DEF KmsInv, KmsTypeOK, KmsRequests, SaveTold, Idle
  <1>1. CASE NotFound(c, k) \/ Answered(c, k)
    BY <1>0, <1>1, KmsGo DEF NotFound, Answered
  <1>2. CASE UpdateTarget(c, k)
    <2> DEFINE r == [at |-> "repoint", name |-> kmsReq[c].name, target |-> k]
    <2>0. kmsReq[c].name \in Aliases
      BY <1>0, <1>2 DEF UpdateTarget, Loads, KmsRequests, KmsSaves, Idle
    <2>1. r \in KmsRequests /\ SaveTold(r)
      BY <2>0 DEF KmsRequests, SaveTold
    <2>2. PICK x \in KmsRequests : SaveTold(x) /\ Go(c, x)
      BY <1>2, <1>0, <2>1 DEF UpdateTarget
    <2> QED
      BY <2>2, <1>2, KmsGo DEF UpdateTarget
  <1>3. CASE DecryptNamed(c, k)
    <2> DEFINE r == [at |-> "dest", id |-> None]
    <2>1. r \in KmsRequests /\ SaveTold(r)
      BY DEF KmsRequests, SaveTold, KeyIdsOrNone
    <2>2. PICK x \in KmsRequests : SaveTold(x) /\ Go(c, x)
      BY <1>3, <1>0, <2>1 DEF DecryptNamed
    <2> QED
      BY <2>2, <1>3, KmsGo DEF DecryptNamed
  <1> QED
    BY <1>1, <1>2, <1>3

LEMMA KmsNames ==
    ASSUME KmsInv, NEW c \in KmsClients, NEW k \in KeyIds, NEW a \in Aliases, CreateAlias(c, k, a)
    PROVE  KmsInv' /\ KmsStepKept
  <1> DEFINE r == [at |-> "insert", name |-> a, target |-> k]
  <1>1. r \in KmsRequests /\ SaveTold(r)
    BY DEF KmsRequests, SaveTold
  <1> QED
    BY <1>1, KmsGo DEF CreateAlias

LEMMA KmsDecrypts ==
    ASSUME KmsInv, NEW c \in KmsClients, NEW b \in kmsBlobs, NEW ctx, Decrypt(c, b, ctx)
    PROVE  KmsInv' /\ KmsStepKept
  <1> DEFINE x == [at |-> "blob", id |-> None, key |-> b.key,
                   opens |-> Opens(kmsKeys[b.key], b, ctx)]
             y == [at |-> "dest", id |-> None]
  <1>1. b.key \in KeyIds
    BY KmsConstants DEF KmsInv, KmsTypeOK, MaterialsLast
  <1>2. x \in KmsRequests /\ SaveTold(x)
    BY <1>1 DEF KmsRequests, SaveTold, KeyIdsOrNone, Opens, CanCrypt
  <1>3. y \in KmsRequests /\ SaveTold(y)
    BY DEF KmsRequests, SaveTold, KeyIdsOrNone
  <1>4. Go(c, x) \/ Go(c, y)
    BY DEF Decrypt
  <1> QED
    BY <1>2, <1>3, <1>4, KmsGo DEF Decrypt

\* What a request may save keeps its promise, and the shape of a copy.
LEMMA SavingTold ==
    ASSUME KmsInv, NEW k \in KeyIds, NEW op \in {"schedule", "cancel", "other"}, NEW row \in KeyRows,
           NEW rest \in {Idle} \cup [at : {"seeded"}, id : SeedIds],
           (op = "schedule") = (row.key_state = "PendingDeletion"),
           op = "schedule" => row.deletion_date \in Nat,
           op = "other" => kmsKeys[k].key_state # "PendingDeletion"
    PROVE  Saving(k, op, row, rest) \in KmsRequests /\ SaveTold(Saving(k, op, row, rest))
  <1>1. row.key_state \in {"Enabled", "Disabled", "PendingDeletion"} /\ row.deletion_date \in Nat \cup {None}
    BY DEF KeyRows
  <1>2. Saving(k, op, row, rest) \in KmsSaves
    BY <1>1 DEF Saving, KmsSaves
  <1> QED
    BY <1>2 DEF Saving, KmsRequests, SaveTold

LEMMA KmsConfigures ==
    ASSUME KmsInv, NEW c \in KmsClients, NEW k \in KeyIds, Configure(c, k)
    PROVE  KmsInv' /\ KmsStepKept
  <1> DEFINE row == kmsKeys[k]
  <1>1. k \in DOMAIN kmsKeys /\ row \in KeyRows
    BY DEF Configure, KmsInv, KmsTypeOK
  <1>2. PICK w \in Changed(row) : Go(c, Saving(k, w[1], w[2], Idle))
    BY DEF Configure
  <1> HIDE DEF row
  <1>3. CASE w \in {"schedule"} \X ScheduleDeletion(row)
    <2>1. PICK d \in MIN_WINDOW..MAX_WINDOW :
             w[2] = [row EXCEPT !.key_state = "PendingDeletion", !.deletion_date = d]
      BY <1>3 DEF ScheduleDeletion
    <2>2. d \in Nat
      BY KmsConstants
    <2>3. w[2] \in KeyRows /\ w[2].key_state = "PendingDeletion" /\ w[2].deletion_date \in Nat
      BY <1>1, <2>1, <2>2 DEF KeyRows
    <2>4. w[1] = "schedule"
      BY <1>3
    <2>5. Saving(k, w[1], w[2], Idle) \in KmsRequests /\ SaveTold(Saving(k, w[1], w[2], Idle))
      BY <2>3, <2>4, SavingTold
    <2> QED
      BY <1>2, <2>5, KmsGo DEF Configure
  <1>4. CASE w \in {"cancel"} \X CancelDeletion(row)
    <2>1. w[1] = "cancel" /\ w[2] = [row EXCEPT !.key_state = "Disabled", !.deletion_date = None]
      BY <1>4 DEF CancelDeletion
    <2>2. w[2] \in KeyRows /\ w[2].key_state = "Disabled"
      BY <1>1, <2>1 DEF KeyRows
    <2>3. Saving(k, w[1], w[2], Idle) \in KmsRequests /\ SaveTold(Saving(k, w[1], w[2], Idle))
      BY <2>1, <2>2, SavingTold
    <2> QED
      BY <1>2, <2>3, KmsGo DEF Configure
  <1>5. CASE w \in {"other"} \X (SetEnabled(row) \cup SetRotation(row) \cup UpdateDescription(row)
                        \cup TagResource(row) \cup UntagResource(row) \cup PutKeyPolicy(row))
    <2>1. w[1] = "other" /\ NotPending(row) /\ w[2] \in KeyRows /\ w[2].key_state # "PendingDeletion"
      <3>1. CASE w[2] \in SetEnabled(row)
        BY <1>1, <1>5, <3>1 DEF SetEnabled, KeyRows
      <3>2. CASE w[2] = row /\ NotPending(row)
        BY <1>1, <1>5, <3>2 DEF NotPending
      <3>3. CASE w[2] \in SetRotation(row)
        BY <1>1, <1>5, <3>3 DEF SetRotation, NotPending
      <3> QED
        BY <1>5, <3>1, <3>2, <3>3
           DEF UpdateDescription, TagResource, UntagResource, PutKeyPolicy
    <2>2. kmsKeys[k].key_state # "PendingDeletion"
      BY <2>1 DEF NotPending, row
    <2>3. Saving(k, w[1], w[2], Idle) \in KmsRequests /\ SaveTold(Saving(k, w[1], w[2], Idle))
      BY <2>1, <2>2, SavingTold
    <2> QED
      BY <1>2, <2>3, KmsGo DEF Configure
  <1> QED
    BY <1>2, <1>3, <1>4, <1>5 DEF Changed

LEMMA KmsSeedReads ==
    ASSUME KmsInv, NEW c \in KmsClients,
           \/ \E k \in SeedIds : SeedLook(c, k)
           \/ SeedDisable(c)
           \/ \E a \in Aliases : SeedAlias(c, a)
    PROVE  KmsInv' /\ KmsStepKept
  <1>0. kmsReq[c] \in KmsRequests /\ Idle \in KmsRequests /\ SaveTold(Idle)
    BY DEF KmsInv, KmsTypeOK, KmsRequests, SaveTold, Idle
  <1>1. ASSUME NEW k \in SeedIds, SeedLook(c, k) PROVE KmsInv' /\ KmsStepKept
    <2> DEFINE r == [at |-> IF k \in DOMAIN kmsKeys THEN "seeded" ELSE "create", id |-> k]
    <2>1. r \in KmsRequests /\ SaveTold(r)
      BY DEF KmsRequests, SaveTold
    <2> QED
      BY <2>1, <1>1, KmsGo DEF SeedLook
  <1>2. CASE SeedDisable(c)
    <2> DEFINE j == kmsReq[c].id
               row == [kmsKeys[j] EXCEPT !.key_state = "Disabled"]
               r == Saving(j, "other", row, [at |-> "seeded", id |-> j])
    <2>0. j \in SeedIds
      BY <1>0, <1>2 DEF SeedDisable, KmsRequests, KmsSaves, Idle
    <2>1. ASSUME j \in DOMAIN kmsKeys, NotPending(kmsKeys[j])
          PROVE  r \in KmsRequests /\ SaveTold(r)
      <3>1. row \in KeyRows /\ row.key_state = "Disabled"
        BY <2>1 DEF KmsInv, KmsTypeOK, KeyRows
      <3>2. [at |-> "seeded", id |-> j] \in [at : {"seeded"}, id : SeedIds]
        BY <2>0
      <3>3. j \in KeyIds /\ kmsKeys[j].key_state # "PendingDeletion"
        BY <2>0, <2>1, KmsConstants DEF NotPending
      <3> HIDE DEF j, row
      <3> QED
        BY <3>1, <3>2, <3>3, SavingTold
    <2>2. PICK x \in KmsRequests : SaveTold(x) /\ Go(c, x)
      BY <1>2, <1>0, <2>1 DEF SeedDisable
    <2> QED
      BY <2>2, <1>2, KmsGo DEF SeedDisable
  <1>3. ASSUME NEW a \in Aliases, SeedAlias(c, a) PROVE KmsInv' /\ KmsStepKept
    <2> DEFINE r == [at |-> "insert", name |-> a, target |-> kmsReq[c].id]
    <2>0. kmsReq[c].id \in KeyIds
      BY <1>0, <1>3, KmsConstants DEF SeedAlias, KmsRequests, KmsSaves, Idle
    <2>1. r \in KmsRequests /\ SaveTold(r)
      BY <2>0 DEF KmsRequests, SaveTold
    <2>2. PICK x \in KmsRequests : SaveTold(x) /\ Go(c, x)
      BY <1>3, <1>0, <2>1 DEF SeedAlias
    <2> QED
      BY <2>2, <1>3, KmsGo DEF SeedAlias
  <1> QED
    BY <1>1, <1>2, <1>3

\* A client goes on and no key starts to wait for its deletion.
LEMMA KmsGoes ==
    ASSUME KmsInv, NEW c \in KmsClients, NEW r \in KmsRequests, r.at # "save", Go(c, r),
           \A k \in DOMAIN kmsKeys' : kmsKeys'[k].key_state = "PendingDeletion" =>
               k \in DOMAIN kmsKeys /\ kmsKeys[k].key_state = "PendingDeletion"
    PROVE  kmsReq' \in [KmsClients -> KmsRequests] /\ SavesTold'
  <1>1. kmsReq' \in [KmsClients -> KmsRequests]
    BY DEF KmsInv, KmsTypeOK, Go
  <1>2. ASSUME NEW d \in KmsClients PROVE SaveTold(kmsReq[d])'
    <2>1. kmsReq'[d] = r \/ kmsReq'[d] = kmsReq[d]
      BY DEF Go, KmsInv, KmsTypeOK
    <2>2. SaveTold(kmsReq[d])
      BY DEF KmsInv, SavesTold
    <2> QED
      BY <2>1, <2>2 DEF SaveTold
  <1> QED
    BY <1>1, <1>2 DEF SavesTold

\* The purge takes the keys that are due with the aliases that point at them.
LEMMA KmsPurges ==
    ASSUME KmsInv, NEW c \in KmsClients, PurgeExpired(c)
    PROVE  KmsInv' /\ KmsStepKept
  <1> DEFINE r == [at |-> "purged", id |-> None]
  <1>1. r \in KmsRequests /\ r.at # "save"
    BY DEF KmsRequests, KeyIdsOrNone
  <1>2. Go(c, r)
    BY DEF PurgeExpired
  <1>3. DOMAIN kmsKeys' = DOMAIN kmsKeys \ Expired /\ \A k \in DOMAIN kmsKeys' : kmsKeys'[k] = kmsKeys[k]
    BY DEF PurgeExpired, Restrict
  <1>4. /\ DOMAIN kmsAliases' = {a \in DOMAIN kmsAliases : kmsAliases[a] \notin Expired}
        /\ \A a \in DOMAIN kmsAliases' : kmsAliases'[a] = kmsAliases[a]
    BY DEF PurgeExpired, Restrict, AliasesKept
  <1>5. kmsReq' \in [KmsClients -> KmsRequests] /\ SavesTold'
    BY <1>1, <1>2, <1>3, KmsGoes
  <1>6. KmsTypeOK'
    BY <1>3, <1>4, <1>5 DEF KmsInv, KmsTypeOK, PurgeExpired
  <1>7. WindowsAsked' /\ MaterialsLast' /\ SeededCiphertextsOpen'
    BY <1>3 DEF KmsInv, WindowsAsked, MaterialsLast, SeededCiphertextsOpen, PurgeExpired
  <1>8. AliasesHaveKeys'
    BY <1>3, <1>4 DEF KmsInv, AliasesHaveKeys, PurgeExpired
  <1>9. DeletedWhenDue
    BY <1>3 DEF DeletedWhenDue, Expired, KmsInv, WindowsAsked
  <1>10. UndoneOnlyByOverlap
    BY <1>3 DEF UndoneOnlyByOverlap
  <1> QED
    BY <1>5, <1>6, <1>7, <1>8, <1>9, <1>10 DEF KmsInv, KmsStepKept

LEMMA KmsCrashes ==
    ASSUME KmsInv, CrashInPurge
    PROVE  KmsInv' /\ KmsStepKept
  <1>1. \A c \in KmsClients : kmsReq'[c] = Idle
    BY DEF CrashInPurge
  <1>2. kmsReq' \in [KmsClients -> KmsRequests] /\ SavesTold'
    BY <1>1 DEF CrashInPurge, KmsRequests, SavesTold, SaveTold, Idle
  <1>3. /\ DOMAIN kmsAliases' = {a \in DOMAIN kmsAliases : kmsAliases[a] \notin Expired}
        /\ \A a \in DOMAIN kmsAliases' : kmsAliases'[a] = kmsAliases[a]
    BY DEF CrashInPurge, Restrict, AliasesKept
  <1>4. KmsTypeOK'
    BY <1>2, <1>3 DEF KmsInv, KmsTypeOK, CrashInPurge
  <1>5. WindowsAsked' /\ MaterialsLast' /\ SeededCiphertextsOpen'
    BY DEF KmsInv, WindowsAsked, MaterialsLast, SeededCiphertextsOpen, CrashInPurge
  <1>6. AliasesHaveKeys'
    BY <1>3 DEF KmsInv, AliasesHaveKeys, CrashInPurge
  <1>7. KmsStepKept
    BY DEF KmsStepKept, DeletedWhenDue, UndoneOnlyByOverlap, CrashInPurge
  <1> QED
    BY <1>2, <1>4, <1>5, <1>6, <1>7 DEF KmsInv

\* A save overtakes the requests that are about to save the same key.
LEMMA KmsSaveWrites ==
    ASSUME KmsInv, NEW c \in KmsClients, Save(c)
    PROVE  KmsInv' /\ KmsStepKept
  <1> DEFINE r == kmsReq[c]
             k == r.id
  <1>0. r \in KmsRequests /\ r.at = "save" /\ SaveTold(r)
    BY DEF KmsInv, KmsTypeOK, Save, SavesTold
  <1>1. /\ k \in KeyIds /\ r.op \in {"schedule", "cancel", "other"}
        /\ r.key_state \in {"Enabled", "Disabled", "PendingDeletion"}
        /\ r.deletion_date \in Nat \cup {None}
        /\ r.then \in {Idle} \cup [at : {"seeded"}, id : SeedIds]
    BY <1>0 DEF KmsRequests, KmsSaves, Idle
  <1>2. /\ DOMAIN kmsKeys' = DOMAIN kmsKeys
        /\ \A j \in DOMAIN kmsKeys : j # k => kmsKeys'[j] = kmsKeys[j]
        /\ k \in DOMAIN kmsKeys =>
              /\ kmsKeys'[k] \in KeyRows /\ kmsKeys'[k].material = kmsKeys[k].material
              /\ kmsKeys'[k].key_state = r.key_state /\ kmsKeys'[k].deletion_date = r.deletion_date
    <2>1. k \in DOMAIN kmsKeys => kmsKeys[k] \in KeyRows
      BY DEF KmsInv, KmsTypeOK
    <2>2. k \in DOMAIN kmsKeys =>
              /\ Written(kmsKeys[k], r) \in KeyRows
              /\ Written(kmsKeys[k], r).material = kmsKeys[k].material
              /\ Written(kmsKeys[k], r).key_state = r.key_state
              /\ Written(kmsKeys[k], r).deletion_date = r.deletion_date
      BY <1>1, <2>1 DEF Written, KeyRows
    <2>3. kmsKeys' = IF k \in DOMAIN kmsKeys THEN [kmsKeys EXCEPT ![k] = Written(kmsKeys[k], r)]
                     ELSE kmsKeys
      BY DEF Save
    <2> HIDE DEF r
    <2> QED
      BY <2>2, <2>3
  <1>3. /\ kmsDue' \in [KeyIds -> SUBSET (Nat \cup {None})]
        /\ \A j \in KeyIds : j # k => kmsDue'[j] = kmsDue[j]
        /\ kmsDue'[k] = IF r.op = "schedule" THEN kmsDue[k] \cup {r.deletion_date}
                        ELSE IF r.op = "cancel" THEN {} ELSE kmsDue[k]
    <2>1. kmsDue \in [KeyIds -> SUBSET (Nat \cup {None})]
      BY DEF KmsInv, KmsTypeOK
    <2>2. kmsDue' = [kmsDue EXCEPT ![k] =
            CASE r.op = "schedule" -> @ \cup {r.deletion_date}
              [] r.op = "cancel" -> {}
              [] r.op = "other" -> @]
      BY DEF Save
    <2> HIDE DEF r, k
    <2>3. CASE r.op = "schedule"
      BY <1>1, <2>1, <2>2, <2>3
    <2>4. CASE r.op = "cancel"
      BY <1>1, <2>1, <2>2, <2>4
    <2>5. CASE r.op = "other"
      BY <1>1, <2>1, <2>2, <2>5
    <2> QED
      BY <1>1, <2>3, <2>4, <2>5
  <1>4. ASSUME NEW d \in KmsClients PROVE kmsReq'[d] \in KmsRequests /\ SaveTold(kmsReq[d])'
    <2>0. kmsReq[d] \in KmsRequests /\ SaveTold(kmsReq[d])
      BY DEF KmsInv, KmsTypeOK, SavesTold
    <2>1. CASE d = c
      <3>1. kmsReq'[d] = r.then
        BY <2>1 DEF Save, Overtake
      <3>2. r.then \in KmsRequests /\ r.then.at # "save"
        BY <1>1 DEF KmsRequests, Idle
      <3> QED
        BY <3>1, <3>2 DEF SaveTold
    <2>2. CASE d # c /\ kmsReq[d].at = "save" /\ kmsReq[d].id = k
      <3> DEFINE x == [kmsReq[d] EXCEPT !.overtaken = TRUE]
      <3>1. kmsReq'[d] = x
        BY <2>2 DEF Save, Overtake
      <3>2. kmsReq[d] \in KmsSaves
        BY <2>0, <2>2 DEF KmsRequests, Idle
      <3>3. x \in KmsSaves /\ x.overtaken /\ x.op = kmsReq[d].op /\ x.key_state = kmsReq[d].key_state
            /\ x.deletion_date = kmsReq[d].deletion_date
        BY <3>2 DEF KmsSaves
      <3>4. SaveToldAfter(x)
        BY <2>0, <2>2, <3>3 DEF SaveTold, SaveToldAfter
      <3> QED
        BY <3>1, <3>3, <3>4 DEF KmsRequests, SaveTold, SaveToldAfter
    <2>3. CASE d # c /\ ~(kmsReq[d].at = "save" /\ kmsReq[d].id = k)
      <3>1. kmsReq'[d] = kmsReq[d]
        BY <2>3 DEF Save, Overtake
      <3> QED
        BY <3>1, <2>0, <2>3, <1>2 DEF SaveTold
    <2> QED
      BY <2>1, <2>2, <2>3
  <1>5. kmsReq' \in [KmsClients -> KmsRequests] /\ SavesTold'
    BY <1>4 DEF Save, Overtake, SavesTold
  <1> HIDE DEF r, k
  <1>6. KmsTypeOK'
    BY <1>2, <1>3, <1>5 DEF KmsInv, KmsTypeOK, Save
  <1>7. WindowsAsked'
    <2> SUFFICES ASSUME NEW j \in DOMAIN kmsKeys, kmsKeys'[j].key_state = "PendingDeletion"
                 PROVE  kmsKeys'[j].deletion_date \in kmsDue'[j] /\ kmsKeys'[j].deletion_date \in Nat
      BY <1>2 DEF WindowsAsked
    <2>1. j \in KeyIds
      BY KmsConstants DEF KmsInv, KmsTypeOK
    <2>2. CASE j = k
      <3>1. r.op = "schedule" /\ r.deletion_date \in Nat
        BY <1>0, <1>2, <2>2 DEF SaveTold
      <3> QED
        BY <3>1, <1>2, <1>3, <2>2
    <2>3. CASE j # k
      BY <1>2, <1>3, <2>1, <2>3 DEF KmsInv, WindowsAsked
    <2> QED
      BY <2>2, <2>3
  <1>8. MaterialsLast' /\ SeededCiphertextsOpen'
    BY <1>2 DEF KmsInv, MaterialsLast, SeededCiphertextsOpen, Save
  <1>9. AliasesHaveKeys'
    BY <1>2 DEF KmsInv, AliasesHaveKeys, Save
  <1>10. DeletedWhenDue
    BY <1>2 DEF DeletedWhenDue
  <1>11. UndoneOnlyByOverlap
    <2> SUFFICES ASSUME NEW j \in DOMAIN kmsKeys, kmsKeys[j].key_state = "PendingDeletion",
                        kmsKeys'[j].key_state # "PendingDeletion"
                 PROVE  \E d \in KmsClients : /\ kmsReq[d].at = "save" /\ kmsReq[d].id = j
                                              /\ kmsReq[d].op = "cancel" \/ kmsReq[d].overtaken
      BY DEF UndoneOnlyByOverlap
    <2>1. j = k
      BY <1>2
    <2>2. r.op # "schedule"
      BY <1>0, <1>2, <2>1 DEF SaveTold
    <2>3. r.op = "cancel" \/ r.overtaken
      BY <1>0, <1>1, <2>1, <2>2 DEF SaveTold, k
    <2> QED
      BY <1>0, <2>1, <2>3 DEF r, k
  <1> QED
    BY <1>5, <1>6, <1>7, <1>8, <1>9, <1>10, <1>11 DEF KmsInv, KmsStepKept

\* A key of an id that no key had, or that is seeded: with the material that is its.
LEMMA KmsPutsKey ==
    ASSUME KmsInv, NEW c \in KmsClients, NEW k \in KeyIds, NEW spec \in BOOLEAN, NEW m \in Nat,
           NEW r \in KmsRequests, r.at # "save", Go(c, r),
           k \notin DOMAIN kmsKeys, kmsKeys' = Put(kmsKeys, k, NewRow(spec, m)),
           \/ k \in SeedIds /\ m = 0 /\ kmsUsed' = kmsUsed
           \/ k \notin SeedIds \cup kmsUsed /\ kmsUsed' = kmsUsed \cup {k},
           kmsCreated' \in Nat, UNCHANGED <<kmsAliases, kmsBlobs, kmsDue, kmsLoose>>
    PROVE  KmsInv' /\ KmsStepKept
  <1>1. /\ DOMAIN kmsKeys' = DOMAIN kmsKeys \cup {k}
        /\ \A j \in DOMAIN kmsKeys : kmsKeys'[j] = kmsKeys[j]
        /\ kmsKeys'[k] = NewRow(spec, m)
    BY DEF Put
  <1>2. /\ NewRow(spec, m) \in KeyRows /\ NewRow(spec, m).key_state = "Enabled"
        /\ NewRow(spec, m).material = m
    BY DEF NewRow, KeyRows
  <1>3. kmsReq' \in [KmsClients -> KmsRequests] /\ SavesTold'
    BY <1>1, <1>2, KmsGoes
  <1>4. KmsTypeOK'
    BY <1>1, <1>2, <1>3 DEF KmsInv, KmsTypeOK
  <1>5. WindowsAsked'
    BY <1>1, <1>2 DEF KmsInv, WindowsAsked
  <1>6. MaterialsLast' /\ SeededCiphertextsOpen'
    BY <1>1, <1>2 DEF KmsInv, MaterialsLast, SeededCiphertextsOpen
  <1>7. AliasesHaveKeys'
    BY <1>1 DEF KmsInv, AliasesHaveKeys
  <1>8. KmsStepKept
    BY <1>1 DEF KmsStepKept, DeletedWhenDue, UndoneOnlyByOverlap
  <1> QED
    BY <1>3, <1>4, <1>5, <1>6, <1>7, <1>8 DEF KmsInv

LEMMA KmsCreates ==
    ASSUME KmsInv, NEW c \in KmsClients, (\E k \in KeyIds : CreateKey(c, k)) \/ SeedCreate(c)
    PROVE  KmsInv' /\ KmsStepKept
  <1>0. Idle \in KmsRequests /\ Idle.at # "save" /\ SaveTold(Idle)
    BY DEF KmsRequests, Idle, SaveTold
  <1>1. kmsCreated \in Nat
    BY DEF KmsInv, KmsTypeOK
  <1>2. ASSUME NEW k \in KeyIds, CreateKey(c, k) PROVE KmsInv' /\ KmsStepKept
    <2>1. PICK spec \in BOOLEAN : kmsKeys' = Put(kmsKeys, k, NewRow(spec, kmsCreated + 1))
      BY <1>2 DEF CreateKey
    <2>2. kmsCreated + 1 \in Nat /\ kmsCreated' \in Nat
      BY <1>1, <1>2 DEF CreateKey
    <2>3. k \notin DOMAIN kmsKeys
      BY <1>2 DEF CreateKey, KmsInv, KmsTypeOK
    <2> QED
      BY <1>0, <1>2, <2>1, <2>2, <2>3, KmsPutsKey DEF CreateKey
  <1>3. CASE SeedCreate(c)
    <2> DEFINE j == kmsReq[c].id
    <2>1. j \in SeedIds /\ j \in KeyIds
      BY <1>3, KmsConstants DEF SeedCreate, KmsInv, KmsTypeOK, KmsRequests, KmsSaves, Idle
    <2>2. CASE j \in DOMAIN kmsKeys
      BY <2>2, <1>0, <1>3, KmsGo DEF SeedCreate
    <2>3. CASE j \notin DOMAIN kmsKeys
      <3>1. PICK stage \in {"seeded", "disable"} : Go(c, [at |-> stage, id |-> j])
        BY <2>3, <1>3 DEF SeedCreate
      <3>2. [at |-> stage, id |-> j] \in KmsRequests /\ [at |-> stage, id |-> j].at # "save"
        BY <2>1 DEF KmsRequests
      <3>3. kmsKeys' = Put(kmsKeys, j, NewRow(TRUE, 0)) /\ kmsCreated' \in Nat
        BY <2>3, <1>1, <1>3 DEF SeedCreate, SeededMaterial
      <3>4. kmsUsed' = kmsUsed /\ UNCHANGED <<kmsAliases, kmsBlobs, kmsDue, kmsLoose>>
        BY <2>3, <1>3 DEF SeedCreate
      <3> DEFINE r == [at |-> stage, id |-> j]
      <3>5. r \in KmsRequests /\ r.at # "save" /\ Go(c, r)
        BY <3>1, <3>2
      <3>6. TRUE \in BOOLEAN /\ 0 \in Nat
        OBVIOUS
      <3> HIDE DEF r, j
      <3> QED
        BY <3>3, <3>4, <3>5, <3>6, <2>1, <2>3, KmsPutsKey
    <2> QED
      BY <2>2, <2>3
  <1> QED
    BY <1>2, <1>3

\* Aliases change, and no key.
LEMMA KmsPoints ==
    ASSUME KmsInv, NEW c \in KmsClients, Go(c, Idle),
           UNCHANGED <<kmsKeys, kmsCreated, kmsUsed, kmsBlobs, kmsDue>>,
           \A a \in DOMAIN kmsAliases' : kmsAliases'[a] \in KeyIds, AliasesHaveKeys'
    PROVE  KmsInv' /\ KmsStepKept
  <1>1. Idle \in KmsRequests /\ Idle.at # "save"
    BY DEF KmsRequests, Idle
  <1>2. kmsReq' \in [KmsClients -> KmsRequests] /\ SavesTold'
    BY <1>1, KmsGoes
  <1>3. KmsTypeOK'
    BY <1>2 DEF KmsInv, KmsTypeOK
  <1>4. WindowsAsked' /\ MaterialsLast' /\ SeededCiphertextsOpen'
    BY DEF KmsInv, WindowsAsked, MaterialsLast, SeededCiphertextsOpen
  <1>5. KmsStepKept
    BY DEF KmsStepKept, DeletedWhenDue, UndoneOnlyByOverlap
  <1> QED
    BY <1>2, <1>3, <1>4, <1>5 DEF KmsInv

LEMMA KmsAliasWrites ==
    ASSUME KmsInv, NEW c \in KmsClients,
           InsertAlias(c) \/ RepointAlias(c) \/ \E a \in Aliases : DeleteAlias(c, a)
    PROVE  KmsInv' /\ KmsStepKept
  <1>0. /\ AliasesHaveKeys /\ \A x \in DOMAIN kmsAliases : kmsAliases[x] \in KeyIds
    BY DEF KmsInv, KmsTypeOK
  <1>1. ASSUME UNCHANGED kmsKeys, UNCHANGED <<kmsAliases, kmsLoose>>
        PROVE  AliasesHaveKeys' /\ \A x \in DOMAIN kmsAliases' : kmsAliases'[x] \in KeyIds
    BY <1>0, <1>1 DEF AliasesHaveKeys
  <1>2. ASSUME NEW x, NEW k \in KeyIds, UNCHANGED kmsKeys, Point(x, k)
        PROVE  AliasesHaveKeys' /\ \A y \in DOMAIN kmsAliases' : kmsAliases'[y] \in KeyIds
    BY <1>0, <1>2 DEF AliasesHaveKeys, Point, Put
  <1>3. CASE InsertAlias(c) \/ RepointAlias(c)
    <2>1. kmsReq[c].target \in KeyIds
      BY <1>3 DEF InsertAlias, RepointAlias, KmsInv, KmsTypeOK, KmsRequests, KmsSaves, Idle
    <2>2. UNCHANGED <<kmsAliases, kmsLoose>> \/ Point(kmsReq[c].name, kmsReq[c].target)
      BY <1>3 DEF InsertAlias, RepointAlias
    <2>3. UNCHANGED kmsKeys
      BY <1>3 DEF InsertAlias, RepointAlias
    <2>4. AliasesHaveKeys' /\ \A y \in DOMAIN kmsAliases' : kmsAliases'[y] \in KeyIds
      BY <2>1, <2>2, <2>3, <1>1, <1>2
    <2> QED
      BY <1>3, <2>4, KmsPoints DEF InsertAlias, RepointAlias
  <1>4. ASSUME NEW a \in Aliases, DeleteAlias(c, a) PROVE KmsInv' /\ KmsStepKept
    <2>1. AliasesHaveKeys' /\ \A x \in DOMAIN kmsAliases' : kmsAliases'[x] \in KeyIds
      BY <1>0, <1>4 DEF DeleteAlias, Restrict, AliasesHaveKeys
    <2> QED
      BY <1>4, <2>1, KmsPoints DEF DeleteAlias
  <1> QED
    BY <1>3, <1>4

\* A ciphertext is sealed with the material that its key has, and keeps having.
LEMMA KmsSeals ==
    ASSUME KmsInv, NEW c \in KmsClients, NEW k \in KeyIds, NEW ctx \in Contexts,
           Encrypt(c, k, ctx) \/ ReEncrypt(c, k, ctx)
    PROVE  KmsInv' /\ KmsStepKept
  <1>0. Idle \in KmsRequests /\ Idle.at # "save"
    BY DEF KmsRequests, Idle
  <1>1. /\ k \in DOMAIN kmsKeys /\ Go(c, Idle)
        /\ UNCHANGED <<kmsKeys, kmsAliases, kmsCreated, kmsUsed, kmsDue, kmsLoose>>
        /\ kmsBlobs' \subseteq kmsBlobs \cup {Seal(k, ctx)}
    BY DEF Encrypt, ReEncrypt, Kept
  <1>2. Seal(k, ctx).key = k /\ Seal(k, ctx).material = kmsKeys[k].material
    BY DEF Seal
  <1>3. kmsReq' \in [KmsClients -> KmsRequests] /\ SavesTold'
    BY <1>0, <1>1, KmsGoes
  <1>4. KmsTypeOK' /\ WindowsAsked' /\ AliasesHaveKeys'
    BY <1>1, <1>3 DEF KmsInv, KmsTypeOK, WindowsAsked, AliasesHaveKeys
  <1>5. MaterialsLast' /\ SeededCiphertextsOpen'
    BY <1>1, <1>2 DEF KmsInv, KmsTypeOK, MaterialsLast, SeededCiphertextsOpen
  <1>6. KmsStepKept
    BY <1>1 DEF KmsStepKept, DeletedWhenDue, UndoneOnlyByOverlap
  <1> QED
    BY <1>3, <1>4, <1>5, <1>6 DEF KmsInv

LEMMA KmsResets ==
    ASSUME KmsInv, ResetKeys
    PROVE  KmsInv' /\ KmsStepKept
  <1>1. KmsTypeOK'
    BY DEF ResetKeys, KmsInv, KmsTypeOK
  <1>2. WindowsAsked' /\ AliasesHaveKeys' /\ MaterialsLast' /\ SeededCiphertextsOpen'
    BY DEF ResetKeys, KmsInv, WindowsAsked, AliasesHaveKeys, MaterialsLast, SeededCiphertextsOpen
  <1>3. SavesTold'
    BY DEF ResetKeys, KmsInv, SavesTold, SaveTold
  <1>4. KmsStepKept
    BY DEF ResetKeys, KmsStepKept, DeletedWhenDue, UndoneOnlyByOverlap
  <1> QED
    BY <1>1, <1>2, <1>3, <1>4 DEF KmsInv

LEMMA LessLeft ==
    ASSUME NEW d \in Nat \cup {None}
    PROVE  Less(d) \in Nat \cup {None} /\ (d \in Nat => Less(d) \in Nat)
  BY KmsConstants DEF Less

\* A day brings the keys, the copies and the windows nearer together.
LEMMA KmsDay ==
    ASSUME KmsInv, Day
    PROVE  KmsInv' /\ KmsStepKept
  <1>1. ASSUME NEW k \in DOMAIN kmsKeys
        PROVE  /\ kmsKeys'[k] \in KeyRows /\ kmsKeys'[k].key_state = kmsKeys[k].key_state
               /\ kmsKeys'[k].material = kmsKeys[k].material
               /\ kmsKeys'[k].deletion_date = Less(kmsKeys[k].deletion_date)
    <2>1. kmsKeys[k] \in KeyRows
      BY DEF KmsInv, KmsTypeOK
    <2>2. Less(kmsKeys[k].deletion_date) \in Nat \cup {None}
      BY <2>1, LessLeft DEF KeyRows
    <2>3. kmsKeys'[k] = [kmsKeys[k] EXCEPT !.deletion_date = Less(kmsKeys[k].deletion_date)]
      BY DEF Day, Aged
    <2> QED
      BY <2>1, <2>2, <2>3 DEF KeyRows
  <1>2. DOMAIN kmsKeys' = DOMAIN kmsKeys
    BY DEF Day
  <1>3. ASSUME NEW c \in KmsClients PROVE kmsReq'[c] \in KmsRequests /\ SaveToldAfter(kmsReq'[c])
    <2>0. kmsReq[c] \in KmsRequests /\ SaveTold(kmsReq[c])
      BY DEF KmsInv, KmsTypeOK, SavesTold
    <2>1. CASE kmsReq[c].at # "save"
      BY <2>0, <2>1 DEF Day, SaveToldAfter
    <2>2. CASE kmsReq[c].at = "save"
      <3> DEFINE r == kmsReq[c]
                 x == [r EXCEPT !.deletion_date = Less(r.deletion_date)]
      <3>1. kmsReq'[c] = x
        BY <2>2 DEF Day, Aged
      <3>2. r \in KmsSaves
        BY <2>0, <2>2 DEF KmsRequests, Idle
      <3>3. r.deletion_date \in Nat \cup {None}
        BY <3>2 DEF KmsSaves
      <3>4. /\ Less(r.deletion_date) \in Nat \cup {None}
            /\ r.deletion_date \in Nat => Less(r.deletion_date) \in Nat
        BY <3>3, LessLeft
      <3>5. x \in KmsSaves /\ x.op = r.op /\ x.key_state = r.key_state /\ x.overtaken = r.overtaken
            /\ x.id = r.id /\ x.deletion_date = Less(r.deletion_date)
        BY <3>2, <3>4 DEF KmsSaves
      <3> HIDE DEF x
      <3>6. SaveToldAfter(x)
        BY <2>0, <2>2, <3>4, <3>5, <1>1, <1>2 DEF SaveTold, SaveToldAfter
      <3> QED
        BY <3>1, <3>5, <3>6 DEF KmsRequests
    <2> QED
      BY <2>1, <2>2
  <1>4. kmsReq' \in [KmsClients -> KmsRequests] /\ SavesTold'
    <2>1. \A c \in KmsClients : SaveTold(kmsReq[c])'
      BY <1>3 DEF SaveTold, SaveToldAfter
    <2> QED
      BY <1>3, <2>1 DEF Day, SavesTold
  <1>5. kmsDue' \in [KeyIds -> SUBSET (Nat \cup {None})]
    <2>1. \A k \in KeyIds : \A d \in kmsDue[k] : Less(d) \in Nat \cup {None}
      BY LessLeft DEF KmsInv, KmsTypeOK
    <2> QED
      BY <2>1 DEF Day
  <1>6. KmsTypeOK'
    BY <1>1, <1>2, <1>4, <1>5 DEF KmsInv, KmsTypeOK, Day
  <1>7. WindowsAsked'
    <2> SUFFICES ASSUME NEW k \in DOMAIN kmsKeys, kmsKeys'[k].key_state = "PendingDeletion"
                 PROVE  kmsKeys'[k].deletion_date \in kmsDue'[k] /\ kmsKeys'[k].deletion_date \in Nat
      BY <1>2 DEF WindowsAsked
    <2>1. k \in KeyIds /\ kmsKeys[k].deletion_date \in kmsDue[k] /\ kmsKeys[k].deletion_date \in Nat
      BY <1>1, KmsConstants DEF KmsInv, KmsTypeOK, WindowsAsked
    <2>2. kmsDue'[k] = {Less(d) : d \in kmsDue[k]}
      BY <2>1 DEF Day
    <2> QED
      BY <1>1, <2>1, <2>2, LessLeft
  <1>8. MaterialsLast' /\ SeededCiphertextsOpen' /\ AliasesHaveKeys'
    BY <1>1, <1>2 DEF KmsInv, MaterialsLast, SeededCiphertextsOpen, AliasesHaveKeys, Day
  <1>9. KmsStepKept
    BY <1>1, <1>2 DEF KmsStepKept, DeletedWhenDue, UndoneOnlyByOverlap
  <1> QED
    BY <1>4, <1>6, <1>7, <1>8, <1>9 DEF KmsInv

LEMMA KmsStep ==
    ASSUME KmsInv, [KmsNext]_kmsVars
    PROVE  KmsInv' /\ (KmsNext => KmsStepKept)
  <1>1. CASE UNCHANGED kmsVars
    <2>1. KmsInv'
      BY <1>1 DEF kmsVars, KmsInv, KmsTypeOK, WindowsAsked, SavesTold, SaveTold, MaterialsLast,
                  SeededCiphertextsOpen, AliasesHaveKeys
    <2>2. KmsStepKept
      BY <1>1 DEF kmsVars, KmsStepKept, DeletedWhenDue, UndoneOnlyByOverlap
    <2> QED
      BY <2>1, <2>2
  <1>2. ASSUME NEW c \in KmsClients, KeyRequest(c) PROVE KmsInv' /\ KmsStepKept
    BY <1>2, KmsReads, KmsPurges, KmsSaveWrites, KmsCreates, KmsConfigures DEF KeyRequest
  <1>3. ASSUME NEW c \in KmsClients, AliasRequest(c) PROVE KmsInv' /\ KmsStepKept
    BY <1>3, KmsAliasWrites, KmsLooks, KmsReads, KmsNames DEF AliasRequest
  <1>4. ASSUME NEW c \in KmsClients, CryptoRequest(c) PROVE KmsInv' /\ KmsStepKept
    BY <1>4, KmsDecrypts, KmsReads, KmsSeals DEF CryptoRequest
  <1>5. ASSUME NEW c \in KmsClients, Seeding(c) PROVE KmsInv' /\ KmsStepKept
    BY <1>5, KmsCreates, KmsSeedReads DEF Seeding
  <1> QED
    BY <1>1, <1>2, <1>3, <1>4, <1>5, KmsResets, KmsDay, KmsCrashes DEF KmsNext

\* The purge removes a key only when a whole window has passed that was asked for and
\* not cancelled, a scheduled deletion is undone by CancelKeyDeletion or by a save that
\* was overtaken and by nothing else, what a seeded key has sealed opens after every
\* reset and seeding, and an alias outlives its key only when it was written late, with
\* any number of clients, keys and aliases.
THEOREM KeysAreKept == KmsSpec => KeysKept
  <1>1. KmsInv /\ [KmsNext]_kmsVars =>
           [/\ DeletedWhenDue /\ UndoneOnlyByOverlap
            /\ SeededCiphertextsOpen' /\ AliasesHaveKeys']_kmsVars
    BY KmsStep DEF KmsStepKept, KmsInv
  <1>2. KmsInv /\ [KmsNext]_kmsVars => KmsInv'
    BY KmsStep
  <1> QED
    BY KmsInitInv, <1>1, <1>2, PTL DEF KmsSpec, KeysKept

-----------------------------------------------------------------------------
(* SES identities *)

Statuses == {"PENDING", "SUCCESS", "FAILED"}

\* What a request that has loaded an identity holds of it.
SesLoaded ==
    [at : {"refresh", "save", "loaded"}, id : Identities, op : Operations \cup {"send"},
     row : IdentityRows, overtaken : BOOLEAN]

SesRequests == {SesIdle} \cup [at : {"insert"}, id : Identities] \cup SesLoaded

SesTypeOK ==
    /\ sesRule \in Rules /\ sesHour \in Nat /\ sesMade \in Nat
    /\ DOMAIN sesIds \subseteq Identities
    /\ \A i \in DOMAIN sesIds : sesIds[i] \in IdentityRows
    /\ sesReads \in [Identities -> 0..CHECKS]
    /\ sesForced \in [Identities -> Statuses \cup {None}]
    /\ sesReq \in [SesClients -> SesRequests]

\* A forced status, which nothing advances: put back to pending, the mode is manual.
HasForced(v, f) == f # None => v.status = f /\ (f = "PENDING" => v.mode = "manual")

\* The checks that are left and those that were made are all the checks there are.
HasChecks(v, reads) ==
    v.mode = "after_checks" =>
        /\ v.checks_left >= CHECKS - reads
        /\ v.status # "PENDING" => reads = CHECKS

IdentityOk(i) ==
    /\ sesIds[i].created <= sesMade
    /\ HasForced(sesIds[i].verification, sesForced[i])
    /\ i \in sesFree => HasChecks(sesIds[i].verification, sesReads[i])

\* The copy of a request is of an identity that was made; unless another one has saved
\* since, it has the forced status; if the identity is the same, its checks are honest.
CopyOk(r) ==
    r.at \in {"refresh", "save"} =>
        /\ r.row.created <= sesMade
        /\ r.id \in DOMAIN sesIds /\ ~r.overtaken => HasForced(r.row.verification, sesForced[r.id])
        /\ r.id \in DOMAIN sesIds \cap sesFree /\ r.row.created = sesIds[r.id].created
              => HasChecks(r.row.verification, sesReads[r.id])

CopyOkAfter(r) ==
    r.at \in {"refresh", "save"} =>
        /\ r.row.created <= sesMade'
        /\ r.id \in DOMAIN sesIds' /\ ~r.overtaken => HasForced(r.row.verification, sesForced'[r.id])
        /\ r.id \in DOMAIN sesIds' \cap sesFree' /\ r.row.created = sesIds'[r.id].created
              => HasChecks(r.row.verification, sesReads'[r.id])

SesIdsInv ==
    /\ SesTypeOK
    /\ \A i \in DOMAIN sesIds : IdentityOk(i)
    /\ \A c \in SesClients : CopyOk(sesReq[c])

LEMMA SesIdsInitInv == SesIdentitiesInit => SesIdsInv
  BY SesIdentitiesConstants DEF SesIdentitiesInit, SesIdsInv, SesTypeOK, SesRequests, CopyOk, SesIdle

LEMMA StartTyped ==
    ASSUME NEW now \in Nat, NEW rule \in Rules
    PROVE  /\ Start(rule, now) \in Verifications
           /\ HasChecks(Start(rule, now), 0)
  <1>1. CHECKS \in 0..CHECKS /\ 0 \in 0..CHECKS /\ now + 1 \in Nat /\ CHECKS >= CHECKS - 0
    BY SesIdentitiesConstants
  <1>2. rule.mode \in Modes /\ rule.outcome = "SUCCESS"
    BY DEF Rules
  <1>3. Start(rule, now) \in Verifications
    BY <1>1, <1>2 DEF Start, Verifications
  <1>4. HasChecks(Start(rule, now), 0)
    BY <1>1, <1>2 DEF Start, HasChecks
  <1> QED
    BY <1>3, <1>4

\* Looking at a verification advances it honestly, and never against a forced status.
LEMMA AdvanceHonest ==
    ASSUME NEW v \in Verifications, NEW cc \in BOOLEAN, NEW now \in Nat
    PROVE  /\ Advance(v, cc, now) \in Verifications
           /\ \A f \in Statuses \cup {None} : HasForced(v, f) => HasForced(Advance(v, cc, now), f)
           /\ \A n \in 0..CHECKS : HasChecks(v, n) =>
                 HasChecks(Advance(v, cc, now), IF cc /\ n < CHECKS THEN n + 1 ELSE n)
  <1> DEFINE left == IF cc /\ v.checks_left > 0 THEN v.checks_left - 1 ELSE v.checks_left
  <1>0. /\ v.checks_left \in 0..CHECKS /\ v.mode \in Modes /\ v.outcome = "SUCCESS"
        /\ v.status \in Statuses /\ CHECKS \in Nat
    BY SesIdentitiesConstants DEF Verifications, Statuses
  <1>1. left \in 0..CHECKS
    BY <1>0
  <1>a. CASE v.status # "PENDING" \/ v.mode \in {"auto", "manual"}
    <2>1. Advance(v, cc, now) = v
      BY <1>a DEF Advance
    <2>2. ASSUME NEW n \in 0..CHECKS, HasChecks(v, n)
          PROVE  HasChecks(v, IF cc /\ n < CHECKS THEN n + 1 ELSE n)
      BY <1>0, <1>a, <2>2 DEF HasChecks
    <2> QED
      BY <2>1, <2>2
  <1>b. CASE v.status = "PENDING" /\ v.mode = "after_checks"
    <2> DEFINE w == [v EXCEPT !.checks_left = left, !.status = IF left = 0 THEN v.outcome ELSE @]
    <2>1. Advance(v, cc, now) = w
      BY <1>b DEF Advance
    <2> HIDE DEF left
    <2>2. /\ w \in Verifications /\ w.mode = "after_checks" /\ w.checks_left = left
          /\ w.status = IF left = 0 THEN "SUCCESS" ELSE "PENDING"
      BY <1>0, <1>1, <1>b DEF Verifications
    <2> HIDE DEF w
    <2>3. ASSUME NEW f \in Statuses \cup {None}, HasForced(v, f) PROVE HasForced(w, f)
      BY <2>3, <1>b DEF HasForced
    <2>4. ASSUME NEW n \in 0..CHECKS, HasChecks(v, n)
          PROVE  HasChecks(w, IF cc /\ n < CHECKS THEN n + 1 ELSE n)
      <3>1. v.checks_left >= CHECKS - n
        BY <2>4, <1>b DEF HasChecks
      <3> DEFINE m == IF cc /\ n < CHECKS THEN n + 1 ELSE n
      <3>2. left >= CHECKS - m /\ m \in 0..CHECKS
        BY <3>1, <1>0 DEF left
      <3>3. left = 0 => m = CHECKS
        BY <3>2, <1>0
      <3> HIDE DEF m
      <3>4. HasChecks(w, m)
        BY <2>2, <3>2, <3>3 DEF HasChecks
      <3> QED
        BY <3>4 DEF m
    <2> QED
      BY <2>1, <2>2, <2>3, <2>4
  <1>c. CASE v.status = "PENDING" /\ v.mode = "delay"
    <2> DEFINE w == [v EXCEPT !.status = v.outcome]
    <2>1. Advance(v, cc, now) \in {v, w}
      BY <1>c DEF Advance
    <2>2. w \in Verifications /\ w.mode = "delay" /\ v.mode = "delay"
      BY <1>0, <1>c DEF Verifications
    <2>3. ASSUME NEW f \in Statuses \cup {None}, HasForced(v, f) PROVE HasForced(w, f)
      BY <2>3, <1>c DEF HasForced
    <2> HIDE DEF w
    <2>4. ASSUME NEW n PROVE HasChecks(w, n) /\ HasChecks(v, n)
      BY <2>2 DEF HasChecks
    <2> QED
      BY <2>1, <2>2, <2>3, <2>4
  <1> QED
    BY <1>0, <1>a, <1>b, <1>c DEF Statuses, Modes

LEMMA ForceForces ==
    ASSUME NEW v \in Verifications, NEW f \in Statuses
    PROVE  ForceTo(v, f) \in Verifications /\ HasForced(ForceTo(v, f), f)
  <1>1. 0 \in 0..CHECKS
    BY SesIdentitiesConstants
  <1>2. v.mode \in Modes
    BY DEF Verifications
  <1>3. ForceTo(v, f) \in Verifications
    BY <1>1, <1>2 DEF ForceTo, Verifications, Statuses, Modes
  <1>4. ForceTo(v, f).status = f /\ (f = "PENDING" => ForceTo(v, f).mode = "manual")
    BY DEF ForceTo, Verifications
  <1> QED
    BY <1>3, <1>4 DEF HasForced

\* A step that leaves the tables alone.
LEMMA SesGoes ==
    ASSUME SesIdsInv, NEW c \in SesClients, NEW r \in SesRequests, CopyOk(r), SesGo(c, r),
           UNCHANGED <<sesRule, sesIds, sesHour, sesMade, sesReads, sesForced, sesFree>>
    PROVE  SesIdsInv'
  <1>1. SesTypeOK'
    BY DEF SesIdsInv, SesTypeOK, SesGo
  <1>2. \A i \in DOMAIN sesIds' : IdentityOk(i)'
    BY DEF SesIdsInv, IdentityOk
  <1>3. ASSUME NEW d \in SesClients PROVE CopyOk(sesReq[d])'
    <2>1. sesReq'[d] = r \/ sesReq'[d] = sesReq[d]
      BY DEF SesIdsInv, SesTypeOK, SesGo
    <2>2. CopyOk(sesReq[d])
      BY DEF SesIdsInv
    <2> QED
      BY <2>1, <2>2 DEF CopyOk
  <1> QED
    BY <1>1, <1>2, <1>3 DEF SesIdsInv

LEMMA IdleOk == SesIdle \in SesRequests /\ CopyOk(SesIdle)
  BY DEF SesRequests, CopyOk, SesIdle

LEMMA SesInserts ==
    ASSUME SesIdsInv, NEW c \in SesClients, InsertIdentity(c)
    PROVE  SesIdsInv'
  <1> DEFINE i == sesReq[c].id
             row == [verification |-> Start(sesRule, sesHour), created |-> sesMade + 1]
  <1>1. CASE i \in DOMAIN sesIds
    BY <1>1, IdleOk, SesGoes DEF InsertIdentity
  <1>2. CASE i \notin DOMAIN sesIds
    <2>0. i \in Identities /\ sesMade \in Nat /\ sesMade' = sesMade + 1
      BY <1>2 DEF InsertIdentity, SesIdsInv, SesTypeOK, SesRequests, SesLoaded, SesIdle
    <2>1. row \in IdentityRows /\ HasChecks(row.verification, 0) /\ row.created = sesMade + 1
      <3>1. Start(sesRule, sesHour) \in Verifications /\ HasChecks(Start(sesRule, sesHour), 0)
        BY StartTyped DEF SesIdsInv, SesTypeOK
      <3>2. row.verification = Start(sesRule, sesHour) /\ row.created = sesMade + 1
        OBVIOUS
      <3>3. row \in IdentityRows
        BY <3>1, <2>0 DEF IdentityRows
      <3> QED
        BY <3>1, <3>2, <3>3
    <2>2. /\ sesIds' = Put(sesIds, i, row)
          /\ sesReads' = [sesReads EXCEPT ![i] = 0]
          /\ sesForced' = [sesForced EXCEPT ![i] = None]
          /\ sesFree' = sesFree \cup {i}
          /\ sesReq' = [sesReq EXCEPT ![c] = SesIdle]
      BY <1>2 DEF InsertIdentity, SesGo
    <2>a. DOMAIN sesIds \subseteq Identities
      BY DEF SesIdsInv, SesTypeOK
    <2> HIDE DEF i, row
    <2>3. /\ DOMAIN sesIds' = DOMAIN sesIds \cup {i} /\ sesIds'[i] = row
          /\ \A j \in DOMAIN sesIds : sesIds'[j] = sesIds[j]
      BY <1>2, <2>2 DEF Put
    <2>4. /\ \A j \in Identities \ {i} : sesReads'[j] = sesReads[j] /\ sesForced'[j] = sesForced[j]
          /\ sesReads'[i] = 0 /\ sesForced'[i] = None
      BY <2>0, <2>2 DEF SesIdsInv, SesTypeOK
    <2>5. SesTypeOK'
      <3>1. 0 \in 0..CHECKS
        BY SesIdentitiesConstants
      <3> QED
        BY <2>0, <2>1, <2>2, <2>3, <3>1, IdleOk DEF SesIdsInv, SesTypeOK, InsertIdentity
    <2>6. ASSUME NEW j \in DOMAIN sesIds' PROVE IdentityOk(j)'
      <3>1. CASE j = i
        <4>1. sesIds'[j].created <= sesMade'
          BY <3>1, <2>0, <2>1, <2>3
        <4>2. HasForced(sesIds'[j].verification, sesForced'[j])
          BY <3>1, <2>4 DEF HasForced
        <4>3. HasChecks(sesIds'[j].verification, sesReads'[j])
          BY <3>1, <2>1, <2>3, <2>4
        <4> QED
          BY <4>1, <4>2, <4>3 DEF IdentityOk
      <3>2. CASE j # i
        <4>1. j \in DOMAIN sesIds /\ sesIds'[j] = sesIds[j] /\ IdentityOk(j) /\ j \in Identities
          BY <3>2, <2>3, <2>a DEF SesIdsInv
        <4>2. sesIds[j].created \in Nat
          BY <4>1 DEF SesIdsInv, SesTypeOK, IdentityRows
        <4>3. sesIds'[j].created <= sesMade'
          BY <4>1, <4>2, <2>0 DEF IdentityOk
        <4> QED
          BY <4>1, <4>3, <3>2, <2>4, <2>2 DEF IdentityOk
      <3> QED
        BY <3>1, <3>2
    <2>7. ASSUME NEW d \in SesClients PROVE CopyOk(sesReq[d])'
      <3>0. CopyOk(sesReq[d]) /\ sesReq[d] \in SesRequests
        BY DEF SesIdsInv, SesTypeOK
      <3>1. CASE d = c
        <4>1. sesReq'[d] = SesIdle
          BY <3>1, <2>2 DEF SesIdsInv, SesTypeOK
        <4> QED
          BY <4>1 DEF CopyOk, SesIdle
      <3>2. CASE d # c
        <4>1. sesReq'[d] = sesReq[d]
          BY <3>2, <2>2 DEF SesIdsInv, SesTypeOK
        <4>2. ASSUME sesReq[d].at \in {"refresh", "save"} PROVE CopyOkAfter(sesReq[d])
          <5> DEFINE r == sesReq[d]
          <5>1. r \in SesLoaded
            BY <3>0, <4>2 DEF SesRequests, SesIdle
          <5>2. r.row.created \in Nat /\ r.id \in Identities
            BY <5>1 DEF SesLoaded, IdentityRows
          <5>3. r.row.created <= sesMade
            BY <3>0, <4>2 DEF CopyOk
          <5>4. r.row.created <= sesMade' /\ r.row.created # sesMade + 1
            BY <5>2, <5>3, <2>0
          <5> HIDE DEF r
          <5>5. CASE r.id = i
            BY <5>4, <5>5, <2>1, <2>3, <2>4 DEF CopyOkAfter, HasForced, r
          <5>6. CASE r.id # i
            BY <5>4, <5>6, <5>2, <3>0, <2>2, <2>3, <2>4, <4>2 DEF CopyOk, CopyOkAfter, r
          <5> QED
            BY <5>5, <5>6 DEF r
        <4> QED
          BY <4>1, <4>2 DEF CopyOk, CopyOkAfter
      <3> QED
        BY <3>1, <3>2
    <2> QED
      BY <2>5, <2>6, <2>7 DEF SesIdsInv
  <1> QED
    BY <1>1, <1>2

LEMMA SesDeletes ==
    ASSUME SesIdsInv, ResetIdentities \/ \E i \in Identities : DeleteIdentity(i)
    PROVE  SesIdsInv'
  <1>1. PICK gone \in SUBSET Identities :
           /\ DOMAIN sesIds' = DOMAIN sesIds \ gone
           /\ \A j \in DOMAIN sesIds' : sesIds'[j] = sesIds[j]
           /\ sesForced' \in [Identities -> Statuses \cup {None}]
           /\ \A j \in Identities \ gone : sesForced'[j] = sesForced[j]
    <2>1. CASE ResetIdentities
      <3>1. /\ DOMAIN sesIds' = DOMAIN sesIds \ Identities
            /\ \A j \in DOMAIN sesIds' : sesIds'[j] = sesIds[j]
            /\ sesForced' \in [Identities -> Statuses \cup {None}]
        BY <2>1 DEF ResetIdentities, SesIdsInv, SesTypeOK
      <3> QED
        BY <3>1
    <2>2. ASSUME NEW i \in Identities, DeleteIdentity(i)
          PROVE  /\ DOMAIN sesIds' = DOMAIN sesIds \ {i}
                 /\ \A j \in DOMAIN sesIds' : sesIds'[j] = sesIds[j]
                 /\ sesForced' \in [Identities -> Statuses \cup {None}]
                 /\ \A j \in Identities \ {i} : sesForced'[j] = sesForced[j]
      BY <2>2 DEF DeleteIdentity, Restrict, SesIdsInv, SesTypeOK
    <2>3. ASSUME NEW i \in Identities, DeleteIdentity(i) PROVE {i} \in SUBSET Identities
      OBVIOUS
    <2> QED
      BY <2>1, <2>2, <2>3
  <1>2. UNCHANGED <<sesRule, sesReq, sesHour, sesMade, sesReads, sesFree>>
    BY DEF ResetIdentities, DeleteIdentity
  <1>3. SesTypeOK'
    BY <1>1, <1>2 DEF SesIdsInv, SesTypeOK
  <1>4. \A j \in DOMAIN sesIds' : IdentityOk(j)'
    BY <1>1, <1>2 DEF SesIdsInv, SesTypeOK, IdentityOk
  <1>5. ASSUME NEW d \in SesClients PROVE CopyOk(sesReq[d])'
    <2>1. CopyOk(sesReq[d])
      BY DEF SesIdsInv
    <2>2. \A j \in DOMAIN sesIds' : sesForced'[j] = sesForced[j] /\ sesIds'[j] = sesIds[j]
                                    /\ j \in DOMAIN sesIds
      BY <1>1 DEF SesIdsInv, SesTypeOK
    <2> QED
      BY <1>2, <2>1, <2>2 DEF CopyOk
  <1> QED
    BY <1>3, <1>4, <1>5 DEF SesIdsInv

\* One more read does no harm.
LEMMA MoreReads ==
    ASSUME NEW v \in Verifications, NEW n \in 0..CHECKS, NEW cc \in BOOLEAN, HasChecks(v, n)
    PROVE  HasChecks(v, IF cc /\ n < CHECKS THEN n + 1 ELSE n)
  <1>1. v.checks_left \in 0..CHECKS /\ CHECKS \in Nat
    BY SesIdentitiesConstants DEF Verifications
  <1> QED
    BY <1>1 DEF HasChecks

LEMMA SesLoads ==
    ASSUME SesIdsInv, NEW c \in SesClients, NEW i, NEW op \in Operations \cup {"send"},
           LoadIdentity(c, i, op)
    PROVE  SesIdsInv'
  <1> DEFINE old == sesIds[i]
             row == Refreshed(old, op)
             r == [at |-> "refresh", id |-> i, op |-> op, row |-> row, overtaken |-> FALSE]
             n == sesReads[i]
             m == IF op = "get" /\ n < CHECKS THEN n + 1 ELSE n
  <1>1. /\ i \in DOMAIN sesIds /\ i \in Identities /\ old \in IdentityRows /\ IdentityOk(i)
        /\ n \in 0..CHECKS /\ sesForced[i] \in Statuses \cup {None} /\ sesHour \in Nat
    BY DEF LoadIdentity, SesIdsInv, SesTypeOK
  <1>2. /\ sesReads' = [sesReads EXCEPT ![i] = m]
        /\ UNCHANGED <<sesRule, sesIds, sesHour, sesMade, sesForced, sesFree>>
        /\ SesGo(c, r) \/ SesGo(c, After(r))
    BY DEF LoadIdentity
  <1>3. m \in 0..CHECKS
    BY <1>1, SesIdentitiesConstants
  <1>4. old.verification \in Verifications /\ old.created \in Nat
    BY <1>1 DEF IdentityRows
  <1>5. /\ row \in IdentityRows /\ row.created = old.created
        /\ HasForced(row.verification, sesForced[i])
        /\ i \in sesFree => HasChecks(row.verification, m)
    <2> DEFINE v == old.verification
               cc == (op = "get")
    <2>1. CASE Forces(op)
      <3>1. row = old /\ m = n
        BY <2>1 DEF Refreshed, Forces
      <3> QED
        BY <3>1, <1>1 DEF IdentityOk
    <2>2. CASE ~Forces(op)
      <3>1. row = [old EXCEPT !.verification = Advance(v, cc, sesHour)]
        BY <2>2 DEF Refreshed
      <3>2. /\ Advance(v, cc, sesHour) \in Verifications
            /\ HasForced(v, sesForced[i]) => HasForced(Advance(v, cc, sesHour), sesForced[i])
            /\ HasChecks(v, n) => HasChecks(Advance(v, cc, sesHour), IF cc /\ n < CHECKS THEN n + 1 ELSE n)
        <4>1. cc \in BOOLEAN /\ v \in Verifications
          BY <1>4
        <4> HIDE DEF cc, v, n
        <4> QED
          BY <1>1, <4>1, AdvanceHonest
      <3>3. row \in IdentityRows /\ row.created = old.created
            /\ row.verification = Advance(v, cc, sesHour)
        BY <3>1, <3>2, <1>1 DEF IdentityRows
      <3>4. HasForced(v, sesForced[i]) /\ (i \in sesFree => HasChecks(v, n))
        BY <1>1 DEF IdentityOk
      <3> QED
        BY <3>2, <3>3, <3>4
    <2> QED
      BY <2>1, <2>2
  <1>6. /\ sesReads' \in [Identities -> 0..CHECKS] /\ sesReads'[i] = m
        /\ \A j \in Identities \ {i} : sesReads'[j] = sesReads[j]
    <2>1. sesReads \in [Identities -> 0..CHECKS]
      BY DEF SesIdsInv, SesTypeOK
    <2> HIDE DEF m
    <2> QED
      BY <1>1, <1>2, <1>3, <2>1
  <1>7. i \in sesFree => HasChecks(old.verification, m)
    <2>1. i \in sesFree => HasChecks(old.verification, n)
      BY <1>1 DEF IdentityOk
    <2>2. (op = "get") \in BOOLEAN
      OBVIOUS
    <2> HIDE DEF n
    <2>3. i \in sesFree => HasChecks(old.verification, IF (op = "get") /\ n < CHECKS THEN n + 1 ELSE n)
      BY <2>1, <2>2, <1>1, <1>4, MoreReads
    <2> QED
      BY <2>3
  <1>8. r \in SesLoaded
    BY <1>1, <1>5 DEF SesLoaded
  <1>9. /\ After(r) \in SesRequests
        /\ \/ After(r) = SesIdle
           \/ /\ After(r).id = r.id /\ After(r).row = r.row /\ After(r).overtaken = r.overtaken
              /\ After(r).at \in {"save", "loaded"}
    <2>1. /\ [r EXCEPT !.at = "loaded"] \in SesLoaded /\ [r EXCEPT !.at = "save"] \in SesLoaded
      BY <1>8 DEF SesLoaded
    <2>2. After(r) \in {SesIdle, [r EXCEPT !.at = "loaded"], [r EXCEPT !.at = "save"]}
      BY DEF After
    <2> HIDE DEF r
    <2>3. \A at \in {"loaded", "save"} : LET x == [r EXCEPT !.at = at]
             IN x.id = r.id /\ x.row = r.row /\ x.overtaken = r.overtaken /\ x.at = at
      BY <1>8 DEF SesLoaded
    <2> QED
      BY <2>1, <2>2, <2>3 DEF SesRequests
  <1>10. r.id = i /\ r.row = row /\ r.overtaken = FALSE
    OBVIOUS
  <1>11. PICK x \in SesRequests : SesGo(c, x)
            /\ (x.at \in {"refresh", "save"} => x.id = i /\ x.row = row /\ x.overtaken = FALSE)
    <2>1. r \in SesRequests /\ (After(r) = SesIdle => After(r).at \notin {"refresh", "save"})
      BY <1>8 DEF SesRequests, SesIdle
    <2> HIDE DEF r
    <2> QED
      BY <2>1, <1>2, <1>9, <1>10
  <1> HIDE DEF old, row, r, n, m
  <1>12. SesTypeOK'
    BY <1>2, <1>6, <1>11 DEF SesIdsInv, SesTypeOK, SesGo
  <1>13. ASSUME NEW j \in DOMAIN sesIds PROVE IdentityOk(j)'
    <2>1. IdentityOk(j) /\ j \in Identities
      BY DEF SesIdsInv, SesTypeOK
    <2>2. CASE j = i
      BY <2>1, <2>2, <1>2, <1>6, <1>7 DEF IdentityOk, old
    <2>3. CASE j # i
      BY <2>1, <2>3, <1>2, <1>6 DEF IdentityOk
    <2> QED
      BY <2>2, <2>3
  <1>14. CopyOkAfter(x)
    <2>1. row.created <= sesMade
      BY <1>1, <1>5 DEF IdentityOk, old
    <2> QED
      BY <2>1, <1>11, <1>2, <1>5, <1>6 DEF CopyOkAfter
  <1>15. ASSUME NEW d \in SesClients PROVE CopyOk(sesReq[d])'
    <2>0. CopyOk(sesReq[d]) /\ sesReq[d] \in SesRequests /\ (sesReq'[d] = x \/ sesReq'[d] = sesReq[d])
      BY <1>11 DEF SesIdsInv, SesTypeOK, SesGo
    <2>1. CASE sesReq'[d] = x
      BY <2>1, <1>14 DEF CopyOk, CopyOkAfter
    <2>2. CASE sesReq'[d] = sesReq[d]
      <3> DEFINE q == sesReq[d]
      <3>1. ASSUME q.at \in {"refresh", "save"}
            PROVE  q.row.verification \in Verifications /\ q.id \in Identities
        BY <3>1, <2>0 DEF SesRequests, SesLoaded, IdentityRows, SesIdle
      <3>2. ASSUME q.at \in {"refresh", "save"}, q.id = i, HasChecks(q.row.verification, n)
            PROVE  HasChecks(q.row.verification, m)
        <4>1. HasChecks(q.row.verification, IF (op = "get") /\ n < CHECKS THEN n + 1 ELSE n)
          BY <3>1, <3>2, <1>1, MoreReads
        <4> QED
          BY <4>1 DEF m
      <3>3. CASE q.id = i
        BY <2>0, <2>2, <3>2, <3>3, <1>2, <1>6 DEF CopyOk, n
      <3>4. CASE q.id # i
        BY <2>0, <2>2, <3>1, <3>4, <1>2, <1>6 DEF CopyOk
      <3> QED
        BY <3>3, <3>4
    <2> QED
      BY <2>0, <2>1, <2>2
  <1> QED
    BY <1>2, <1>12, <1>13, <1>15 DEF SesIdsInv

\* A save overtakes the copies that others hold; the identity stays honest because the
\* copy is, or is not free any more.
LEMMA SesSaves ==
    ASSUME SesIdsInv, NEW c \in SesClients, sesReq[c].at \in {"refresh", "save"},
           NEW row \in IdentityRows, NEW next \in SesRequests, NEW forced \in Statuses \cup {None},
           SaveIdentity(c, row, next, forced),
           row.created = sesReq[c].row.created,
           forced = None => row = sesReq[c].row,
           forced # None => HasForced(row.verification, forced),
           next.at \in {"refresh", "save"} =>
              /\ forced = None /\ next.id = sesReq[c].id /\ next.row = sesReq[c].row
              /\ next.overtaken = sesReq[c].overtaken
    PROVE  SesIdsInv'
  <1> DEFINE r == sesReq[c]
             i == r.id
             there == i \in DOMAIN sesIds
             same == there /\ sesIds[i].created = row.created
             new == [row EXCEPT !.created = sesIds[i].created]
  <1>1. CopyOk(r) /\ r \in SesLoaded
    BY DEF SesIdsInv, SesTypeOK, SesRequests, SesIdle
  <1>2. i \in Identities /\ r.overtaken \in BOOLEAN
    BY <1>1 DEF SesLoaded
  <1>3. /\ there => sesIds' = [sesIds EXCEPT ![i] = new]
        /\ ~there => sesIds' = sesIds
    BY DEF SaveIdentity
  <1>4. /\ ~there => sesForced' = sesForced
        /\ there => sesForced' = [sesForced EXCEPT ![i] =
              IF forced # None THEN forced ELSE IF r.overtaken \/ ~same THEN None ELSE sesForced[i]]
    BY DEF SaveIdentity
  <1>5. /\ sesFree' = IF same /\ forced = None THEN sesFree
                      ELSE IF there THEN sesFree \ {i} ELSE sesFree
        /\ UNCHANGED <<sesRule, sesHour, sesMade, sesReads>>
    BY DEF SaveIdentity
  <1>6. sesReq' = [d \in SesClients |->
              IF d = c THEN next
              ELSE IF sesReq[d].at \in {"refresh", "save"} /\ sesReq[d].id = i
                   THEN [sesReq[d] EXCEPT !.overtaken = TRUE] ELSE sesReq[d]]
    BY DEF SaveIdentity
  <1>7. there => /\ new \in IdentityRows /\ new.verification = row.verification
                 /\ new.created = sesIds[i].created /\ sesIds[i].created <= sesMade
    BY DEF SesIdsInv, SesTypeOK, IdentityRows, IdentityOk
  <1>a. r.row.created <= sesMade
    BY <1>1 DEF CopyOk
  <1>b. there /\ ~r.overtaken => HasForced(r.row.verification, sesForced[i])
    BY <1>1 DEF CopyOk
  <1>c. there /\ i \in sesFree /\ r.row.created = sesIds[i].created
           => HasChecks(r.row.verification, sesReads[i])
    BY <1>1 DEF CopyOk
  <1> HIDE DEF r, i, new, same
  <1>8. /\ DOMAIN sesIds' = DOMAIN sesIds
        /\ \A j \in DOMAIN sesIds : j # i => sesIds'[j] = sesIds[j]
        /\ there => sesIds'[i] = new
    BY <1>3
  <1>9. /\ sesForced' \in [Identities -> Statuses \cup {None}]
        /\ \A j \in Identities : j # i => sesForced'[j] = sesForced[j]
        /\ there => sesForced'[i] = IF forced # None THEN forced
                                    ELSE IF r.overtaken \/ ~same THEN None ELSE sesForced[i]
    BY <1>2, <1>4 DEF SesIdsInv, SesTypeOK
  <1>10. ASSUME there PROVE HasForced(row.verification, sesForced'[i])
    <2>1. CASE forced # None
      BY <2>1, <1>10, <1>9
    <2>2. CASE forced = None /\ (r.overtaken \/ ~same)
      BY <2>2, <1>10, <1>9 DEF HasForced
    <2>3. CASE forced = None /\ ~r.overtaken /\ same
      <3>1. row = r.row
        BY <2>3 DEF r
      <3>2. sesForced'[i] = sesForced[i]
        BY <2>3, <1>10, <1>9
      <3> QED
        BY <3>1, <3>2, <2>3, <1>10, <1>b
    <2> QED
      BY <2>1, <2>2, <2>3
  <1>11. ASSUME there, i \in sesFree' PROVE HasChecks(row.verification, sesReads[i]) /\ same /\ forced = None
    <2>1. same /\ forced = None
      BY <1>11, <1>5
    <2>2. row = r.row /\ r.row.created = sesIds[i].created /\ i \in sesFree
      BY <2>1, <1>5, <1>11 DEF r, same
    <2> QED
      BY <2>1, <2>2, <1>11, <1>c
  <1>12. ASSUME NEW d \in SesClients PROVE sesReq'[d] \in SesRequests /\ CopyOkAfter(sesReq'[d])
    <2>0. sesReq[d] \in SesRequests /\ CopyOk(sesReq[d])
      BY DEF SesIdsInv, SesTypeOK
    <2>1. CASE d = c
      <3>1. sesReq'[d] = next
        BY <2>1, <1>6
      <3>2. ASSUME next.at \in {"refresh", "save"} PROVE CopyOkAfter(next)
        <4>1. next.id = i /\ next.row = row /\ row = r.row
          BY <3>2 DEF r, i
        <4>2. next.row.created <= sesMade'
          BY <4>1, <1>5, <1>a
        <4>3. there => HasForced(next.row.verification, sesForced'[i])
          BY <4>1, <1>10
        <4>4. there /\ i \in sesFree' => HasChecks(next.row.verification, sesReads'[i])
          BY <4>1, <1>11, <1>5
        <4> QED
          BY <4>1, <4>2, <4>3, <4>4, <1>8 DEF CopyOkAfter
      <3> QED
        BY <3>1, <3>2 DEF CopyOkAfter
    <2>2. CASE d # c /\ sesReq[d].at \in {"refresh", "save"} /\ sesReq[d].id = i
      <3> DEFINE q == sesReq[d]
                 x == [q EXCEPT !.overtaken = TRUE]
      <3>1. sesReq'[d] = x
        BY <2>2, <1>6
      <3>2. q \in SesLoaded
        BY <2>0, <2>2 DEF SesRequests, SesIdle
      <3>3. x \in SesLoaded /\ x.id = i /\ x.row = q.row /\ x.overtaken = TRUE
        BY <2>2, <3>2 DEF SesLoaded
      <3>4. q.row.created <= sesMade'
        BY <2>0, <2>2, <1>5 DEF CopyOk
      <3>5. ASSUME there, i \in sesFree', q.row.created = sesIds'[i].created
            PROVE  HasChecks(q.row.verification, sesReads'[i])
        <4>1. same /\ forced = None /\ sesFree' = sesFree /\ sesReads' = sesReads
          BY <3>5, <1>11, <1>5
        <4>2. q.row.created = sesIds[i].created
          BY <3>5, <1>7, <1>8
        <4> QED
          BY <4>1, <4>2, <2>0, <2>2, <3>5 DEF CopyOk
      <3> HIDE DEF x, q
      <3>6. CopyOkAfter(x)
        BY <3>3, <3>4, <3>5, <1>8 DEF CopyOkAfter
      <3> QED
        BY <3>1, <3>3, <3>6 DEF SesRequests
    <2>3. CASE d # c /\ ~(sesReq[d].at \in {"refresh", "save"} /\ sesReq[d].id = i)
      <3> DEFINE q == sesReq[d]
      <3>1. sesReq'[d] = q
        BY <2>3, <1>6
      <3>2. ASSUME q.at \in {"refresh", "save"} PROVE CopyOkAfter(q)
        <4>1. q.id # i /\ q.id \in Identities
          BY <3>2, <2>0, <2>3 DEF SesRequests, SesLoaded, SesIdle
        <4>2. /\ q.id \in sesFree' => q.id \in sesFree
              /\ q.id \in DOMAIN sesIds' => q.id \in DOMAIN sesIds /\ sesIds'[q.id] = sesIds[q.id]
              /\ sesForced'[q.id] = sesForced[q.id] /\ sesReads' = sesReads /\ sesMade' = sesMade
          BY <4>1, <1>5, <1>8, <1>9
        <4> QED
          BY <3>2, <4>2, <2>0 DEF CopyOk, CopyOkAfter
      <3> QED
        BY <3>1, <3>2, <2>0 DEF CopyOkAfter
    <2> QED
      BY <2>1, <2>2, <2>3
  <1>13. SesTypeOK'
    BY <1>5, <1>6, <1>7, <1>8, <1>9, <1>12 DEF SesIdsInv, SesTypeOK
  <1>14. ASSUME NEW j \in DOMAIN sesIds PROVE IdentityOk(j)'
    <2>0. IdentityOk(j) /\ j \in Identities
      BY DEF SesIdsInv, SesTypeOK
    <2>1. CASE j = i
      BY <2>1, <1>5, <1>7, <1>8, <1>10, <1>11 DEF IdentityOk
    <2>2. CASE j # i
      BY <2>0, <2>2, <1>5, <1>8, <1>9 DEF IdentityOk
    <2> QED
      BY <2>1, <2>2
  <1>15. \A d \in SesClients : CopyOk(sesReq[d])'
    BY <1>12 DEF CopyOk, CopyOkAfter
  <1> QED
    BY <1>8, <1>13, <1>14, <1>15 DEF SesIdsInv

LEMMA SesRefreshes ==
    ASSUME SesIdsInv, NEW c \in SesClients, RefreshIdentity(c) \/ ChangeIdentity(c)
    PROVE  SesIdsInv'
  <1> DEFINE r == sesReq[c]
  <1>0. r \in SesLoaded /\ r.at \in {"refresh", "save"}
    BY DEF SesIdsInv, SesTypeOK, SesRequests, SesIdle, RefreshIdentity, ChangeIdentity
  <1>1. r.row \in IdentityRows /\ r.op \in Operations \cup {"send"}
    BY <1>0 DEF SesLoaded
  <1>2. CASE RefreshIdentity(c)
    <2>1. /\ [r EXCEPT !.at = "loaded"] \in SesLoaded /\ [r EXCEPT !.at = "save"] \in SesLoaded
      BY <1>0 DEF SesLoaded
    <2>2. After(r) \in {SesIdle, [r EXCEPT !.at = "loaded"], [r EXCEPT !.at = "save"]}
      BY DEF After
    <2> HIDE DEF r
    <2>3. \A at \in {"loaded", "save"} : LET x == [r EXCEPT !.at = at]
             IN x.id = r.id /\ x.row = r.row /\ x.overtaken = r.overtaken /\ x.at = at
      BY <1>0 DEF SesLoaded
    <2>4. After(r) \in SesRequests /\ (After(r).at \in {"refresh", "save"} =>
              After(r).id = r.id /\ After(r).row = r.row /\ After(r).overtaken = r.overtaken)
      <3>1. CASE After(r) = SesIdle
        BY <3>1 DEF SesRequests, SesIdle
      <3>2. CASE After(r) = [r EXCEPT !.at = "loaded"]
        BY <3>2, <2>1, <2>3 DEF SesRequests
      <3>3. CASE After(r) = [r EXCEPT !.at = "save"]
        BY <3>3, <2>1, <2>3 DEF SesRequests
      <3> QED
        BY <2>2, <3>1, <3>2, <3>3
    <2>5. SaveIdentity(c, r.row, After(r), None)
      BY <1>2 DEF RefreshIdentity, r
    <2> DEFINE next == After(r)
    <2>6. next \in SesRequests /\ None \in Statuses \cup {None} /\ SaveIdentity(c, r.row, next, None)
          /\ (next.at \in {"refresh", "save"} =>
                next.id = r.id /\ next.row = r.row /\ next.overtaken = r.overtaken)
      BY <2>4, <2>5
    <2> HIDE DEF next
    <2> QED
      BY <2>6, <1>0, <1>1, SesSaves DEF r
  <1>3. CASE ChangeIdentity(c)
    <2> DEFINE row == Final(r.row, r.op)
               forced == IF Forces(r.op) THEN r.op ELSE None
    <2>1. SaveIdentity(c, row, SesIdle, forced)
      BY <1>3 DEF ChangeIdentity
    <2>2. CASE Forces(r.op)
      <3>1. r.op \in Statuses
        BY <2>2 DEF Forces, Statuses
      <3>2. r.row.verification \in Verifications
        BY <1>1 DEF IdentityRows
      <3>3. /\ ForceTo(r.row.verification, r.op) \in Verifications
            /\ HasForced(ForceTo(r.row.verification, r.op), r.op)
        BY <3>1, <3>2, ForceForces
      <3>4. row = [r.row EXCEPT !.verification = ForceTo(r.row.verification, r.op)]
        BY <2>2 DEF Final
      <3>5. row \in IdentityRows /\ row.created = r.row.created
            /\ row.verification = ForceTo(r.row.verification, r.op)
        BY <3>3, <3>4, <1>1 DEF IdentityRows
      <3>6. forced = r.op /\ forced \in Statuses \cup {None} /\ forced # None
            /\ HasForced(row.verification, forced)
        BY <2>2, <3>1, <3>3, <3>5, SesIdentitiesConstants DEF Statuses
      <3> HIDE DEF row, forced
      <3> QED
        BY <1>0, <2>1, <3>5, <3>6, IdleOk, SesSaves DEF SesIdle
    <2>3. CASE ~Forces(r.op)
      <3>1. row = r.row /\ forced = None
        BY <2>3 DEF Final
      <3> HIDE DEF row, forced
      <3> QED
        BY <1>0, <1>1, <2>1, <3>1, IdleOk, SesSaves DEF SesIdle
    <2> QED
      BY <2>2, <2>3
  <1> QED
    BY <1>2, <1>3

LEMMA SesIdentityStep ==
    ASSUME SesIdsInv, SesIdentitiesNext
    PROVE  SesIdsInv'
  <1>1. CASE HourPasses
    <2>1. SesTypeOK'
      BY <1>1 DEF HourPasses, SesIdsInv, SesTypeOK
    <2>2. (\A i \in DOMAIN sesIds' : IdentityOk(i)') /\ \A c \in SesClients : CopyOk(sesReq[c])'
      BY <1>1 DEF HourPasses, SesIdsInv, IdentityOk, CopyOk
    <2> QED
      BY <2>1, <2>2 DEF SesIdsInv
  <1>2. ASSUME NEW c \in SesClients, NEW i \in Identities, LoadAbsent(c, i) PROVE SesIdsInv'
    <2> DEFINE r == [at |-> "insert", id |-> i]
    <2>1. r \in SesRequests /\ CopyOk(r)
      BY DEF SesRequests, CopyOk
    <2> QED
      BY <1>2, <2>1, SesGoes DEF LoadAbsent
  <1> QED
    BY <1>1, <1>2, SesDeletes, SesInserts, SesRefreshes, SesLoads DEF SesIdentitiesNext

\* A step of sending loads, refreshes, or lets go of a copy.
LEMMA SesSendingStep ==
    ASSUME SesIdsInv, SesSendingNext
    PROVE  SesIdsInv'
  <1>0. ASSUME UNCHANGED sesIdVars PROVE SesIdsInv'
    BY <1>0 DEF sesIdVars, SesIdsInv, SesTypeOK, IdentityOk, CopyOk
  <1>1. CASE CrashSending
    <2>1. SesTypeOK'
      BY <1>1, IdleOk DEF CrashSending, SesIdsInv, SesTypeOK
    <2>2. \A c \in SesClients : CopyOk(sesReq[c])'
      BY <1>1 DEF CrashSending, CopyOk, SesIdle
    <2>3. \A i \in DOMAIN sesIds' : IdentityOk(i)'
      BY <1>1 DEF CrashSending, SesIdsInv, IdentityOk
    <2> QED
      BY <2>1, <2>2, <2>3 DEF SesIdsInv
  <1>2. CASE Administer
    <2>1. CASE UNCHANGED sesIdVars
      BY <2>1, <1>0
    <2>2. CASE CrashInDeleteConfigurationSet
      <3>1. SesTypeOK'
        BY <2>2, IdleOk DEF CrashInDeleteConfigurationSet, SesIdsInv, SesTypeOK
      <3>2. \A c \in SesClients : CopyOk(sesReq[c])'
        BY <2>2 DEF CrashInDeleteConfigurationSet, CopyOk, SesIdle
      <3>3. \A i \in DOMAIN sesIds' : IdentityOk(i)'
        BY <2>2 DEF CrashInDeleteConfigurationSet, SesIdsInv, IdentityOk
      <3> QED
        BY <3>1, <3>2, <3>3 DEF SesIdsInv
    <2>3. UNCHANGED sesIdVars \/ CrashInDeleteConfigurationSet
      BY <1>2 DEF Administer, SetAccount, PutSuppressed, CreateConfigurationSet,
                  DeleteConfigurationSet, DeleteDestination, CheckDestination, WriteDestination
    <2> QED
      BY <2>1, <2>2, <2>3
  <1>3. ASSUME NEW c \in SesClients, Send(c) PROVE SesIdsInv'
    <2>1. CASE TryCandidate(c)
      <3>1. UNCHANGED sesIdVars \/ LoadIdentity(c, Head(sesSend[c].candidates), "send")
        BY <2>1 DEF TryCandidate
      <3> QED
        BY <3>1, <1>0, SesLoads
    <2>2. CASE CandidateLoaded(c)
      BY <2>2, IdleOk, SesGoes DEF CandidateLoaded
    <2>3. CASE sesReq[c].at = "refresh" /\ RefreshIdentity(c) /\ UNCHANGED sesSendVars
      BY <2>3, SesRefreshes
    <2>4. CASE NoCandidate(c) \/ RequireSet(c) \/ \E x \in Plain : AskSuppressed(c, x)
      <3>1. UNCHANGED sesIdVars
        BY <2>4 DEF NoCandidate, RequireSet, AskSuppressed
      <3> QED
        BY <3>1, <1>0
    <2>5. CASE StoreMessage(c) \/ CaptureCopy(c) \/ RecordEvent(c) \/ ReadDestinations(c)
      <3>1. UNCHANGED sesIdVars
        BY <2>5 DEF StoreMessage, CaptureCopy, RecordEvent, ReadDestinations
      <3> QED
        BY <3>1, <1>0
    <2>6. CASE (\E d \in Destinations : PublishTo(c, d)) \/ EventPublished(c) \/ FinishSend(c)
      <3>1. UNCHANGED sesIdVars
        BY <2>6 DEF PublishTo, EventPublished, FinishSend
      <3> QED
        BY <3>1, <1>0
    <2>7. CASE \E rcpts \in RecipientSets, cs \in {None, ConfigurationSet}, feedback \in BOOLEAN :
                  SendEmail(c, rcpts, cs, feedback)
      <3>1. UNCHANGED sesIdVars
        BY <2>7 DEF SendEmail
      <3> QED
        BY <3>1, <1>0
    <2> QED
      BY <1>3, <2>1, <2>2, <2>3, <2>4, <2>5, <2>6, <2>7 DEF Send
  <1> QED
    BY <1>1, <1>2, <1>3 DEF SesSendingNext

LEMMA SesIdsStutter ==
    ASSUME SesIdsInv, UNCHANGED sesIdVars
    PROVE  SesIdsInv'
  BY DEF sesIdVars, SesIdsInv, SesTypeOK, IdentityOk, CopyOk

\* A status that was forced stays until a request saves that had read the identity
\* before, and an identity that is verified by reading has been read as often as that
\* takes, with any number of clients that read, change, delete and send at once.
THEOREM StatusIsEarned == SesSpec => []StatusEarned
  <1>1. SesIdsInv => StatusEarned
    BY DEF SesIdsInv, IdentityOk, HasForced, HasChecks, StatusEarned, ForcedStays, VerifiedByChecks
  <1>2. SesIdsInv /\ [SesNext]_<<sesIdVars, sesSendVars>> => SesIdsInv'
    BY SesIdentityStep, SesSendingStep, SesIdsStutter DEF SesNext
  <1> QED
    BY SesIdsInitInv, <1>1, <1>2, PTL DEF SesSpec

-----------------------------------------------------------------------------
(* SES sending: what a send leaves behind *)

People == UNION RecipientSets
EventRecords ==
    [type : {"Send", "Reject", "Delivery", "Bounce", "Complaint", "DeliveryDelay"},
     rcpts : SUBSET People]

LoggedIn(w, type) == UNION {w[n].rcpts : n \in {k \in DOMAIN w : w[k].type = type}}
HasType(w, type) == \E n \in DOMAIN w : w[n].type = type
HavingIn(status, set) == {x \in DOMAIN status : status[x] \in set}

\* A log w tells what became of every recipient.
Story(status, w) ==
    /\ w # <<>> /\ w[1].type = "Send"
    /\ LoggedIn(w, "Delivery") = HavingIn(status, {"delivered", "complained"})
    /\ LoggedIn(w, "Complaint") = HavingIn(status, {"complained"})
    /\ LoggedIn(w, "Bounce") = HavingIn(status, {"bounced"})
    /\ LoggedIn(w, "DeliveryDelay") = HavingIn(status, {"delayed"})
    /\ HasType(w, "Reject") = (HavingIn(status, {"rejected"}) # {})

\* An event, if it is about anybody.
OneEvent(type, rcpts) == IF rcpts = {} THEN <<>> ELSE <<[type |-> type, rcpts |-> rcpts]>>

LEMMA InLog ==
    ASSUME NEW w, NEW type, NEW x
    PROVE  x \in LoggedIn(w, type) <=> \E n \in DOMAIN w : w[n].type = type /\ x \in w[n].rcpts
  BY DEF LoggedIn

LEMMA OneLogged ==
    ASSUME NEW t \in {"Send", "Reject", "Delivery", "Bounce", "Complaint", "DeliveryDelay"},
           NEW R \in SUBSET People
    PROVE  /\ OneEvent(t, R) \in Seq(EventRecords)
           /\ \A type : LoggedIn(OneEvent(t, R), type) = IF type = t THEN R ELSE {}
           /\ \A type : HasType(OneEvent(t, R), type) = (type = t /\ R # {})
  <1>1. CASE R = {}
    <2>1. OneEvent(t, R) = <<>>
      BY <1>1 DEF OneEvent
    <2>2. DOMAIN OneEvent(t, R) = {} /\ OneEvent(t, R) \in Seq(EventRecords)
      BY <2>1
    <2>3. ASSUME NEW type, NEW x PROVE x \notin LoggedIn(OneEvent(t, R), type)
      BY <2>2, InLog
    <2> QED
      BY <1>1, <2>2, <2>3 DEF HasType
  <1>2. CASE R # {}
    <2> DEFINE e == [type |-> t, rcpts |-> R]
    <2>1. OneEvent(t, R) = <<e>>
      BY <1>2 DEF OneEvent
    <2>2. e \in EventRecords /\ e.type = t /\ e.rcpts = R
      BY DEF EventRecords
    <2> HIDE DEF e
    <2>3. OneEvent(t, R) \in Seq(EventRecords) /\ DOMAIN OneEvent(t, R) = {1} /\ OneEvent(t, R)[1] = e
      BY <2>1, <2>2
    <2>4. ASSUME NEW type, NEW x
          PROVE  x \in LoggedIn(OneEvent(t, R), type) <=> type = t /\ x \in R
      BY <2>2, <2>3, InLog
    <2>5. ASSUME NEW type PROVE LoggedIn(OneEvent(t, R), type) = IF type = t THEN R ELSE {}
      BY <2>4
    <2>6. ASSUME NEW type PROVE HasType(OneEvent(t, R), type) = (type = t /\ R # {})
      BY <1>2, <2>2, <2>3 DEF HasType
    <2> QED
      BY <2>3, <2>5, <2>6
  <1> QED
    BY <1>1, <1>2

LEMMA TwoLogged ==
    ASSUME NEW s \in Seq(EventRecords), NEW t \in Seq(EventRecords)
    PROVE  /\ s \o t \in Seq(EventRecords)
           /\ \A type : LoggedIn(s \o t, type) = LoggedIn(s, type) \cup LoggedIn(t, type)
           /\ \A type : HasType(s \o t, type) = (HasType(s, type) \/ HasType(t, type))
  <1> DEFINE w == s \o t
  <1>1. /\ w \in Seq(EventRecords) /\ DOMAIN w = 1..Len(s) + Len(t)
        /\ DOMAIN s = 1..Len(s) /\ DOMAIN t = 1..Len(t) /\ Len(s) \in Nat /\ Len(t) \in Nat
        /\ \A n \in 1..Len(s) : w[n] = s[n]
        /\ \A n \in 1..Len(t) : w[Len(s) + n] = t[n]
    OBVIOUS
  <1> HIDE DEF w
  <1>2. \A n \in DOMAIN s : n \in DOMAIN w /\ w[n] = s[n]
    BY <1>1
  <1>3. \A n \in DOMAIN t : Len(s) + n \in DOMAIN w /\ w[Len(s) + n] = t[n]
    BY <1>1
  <1>4. ASSUME NEW n \in DOMAIN w
        PROVE  \/ n \in DOMAIN s /\ w[n] = s[n]
               \/ \E k \in DOMAIN t : w[n] = t[k]
    <2>1. CASE n <= Len(s)
      BY <2>1, <1>1
    <2>2. CASE n > Len(s)
      <3>1. n - Len(s) \in DOMAIN t /\ Len(s) + (n - Len(s)) = n
        BY <2>2, <1>1
      <3> QED
        BY <3>1, <1>3
    <2> QED
      BY <2>1, <2>2, <1>1
  <1>5. ASSUME NEW type, NEW x
        PROVE  x \in LoggedIn(w, type) <=> x \in LoggedIn(s, type) \/ x \in LoggedIn(t, type)
    <2>1. x \in LoggedIn(s, type) => x \in LoggedIn(w, type)
      BY <1>2, InLog
    <2>2. x \in LoggedIn(t, type) => x \in LoggedIn(w, type)
      BY <1>3, InLog
    <2>3. x \in LoggedIn(w, type) => x \in LoggedIn(s, type) \/ x \in LoggedIn(t, type)
      BY <1>4, InLog
    <2> QED
      BY <2>1, <2>2, <2>3
  <1>6. ASSUME NEW type PROVE HasType(w, type) = (HasType(s, type) \/ HasType(t, type))
    <2>1. HasType(s, type) => HasType(w, type)
      BY <1>2 DEF HasType
    <2>2. HasType(t, type) => HasType(w, type)
      BY <1>3 DEF HasType
    <2>3. HasType(w, type) => HasType(s, type) \/ HasType(t, type)
      BY <1>4 DEF HasType
    <2> QED
      BY <2>1, <2>2, <2>3 DEF HasType
  <1>7. ASSUME NEW type PROVE LoggedIn(w, type) = LoggedIn(s, type) \cup LoggedIn(t, type)
    BY <1>5
  <1> QED
    BY <1>1, <1>6, <1>7 DEF w

Outcomes == {"General", "Suppressed", "OnAccountSuppressionList", "Complaint", "OutOfOffice",
             "Delayed", "Delivered"}

LEMMA OutcomeKnown == ASSUME NEW r, NEW x PROVE Outcome(r, x) \in Outcomes
  BY DEF Outcome, Outcomes

\* The status that is stored for a recipient, by its outcome.
LEMMA StatusKnown ==
    ASSUME NEW r, NEW x \in r.rcpts
    PROVE  LET st == RecipientStatus(r)[x] IN
           /\ Rejected(r) => st = "rejected"
           /\ ~Rejected(r) =>
                /\ st # "rejected"
                /\ st \in {"delivered", "complained"} <=> Outcome(r, x) \in {"Delivered", "OutOfOffice", "Complaint"}
                /\ st = "complained" <=> Outcome(r, x) = "Complaint"
                /\ st = "bounced" <=> Outcome(r, x) \in SubTypes
                /\ st = "delayed" <=> Outcome(r, x) = "Delayed"
                /\ st \in {"delivered", "complained", "delayed"} <=> Outcome(r, x) \notin SubTypes
  <1> DEFINE o == Outcome(r, x)
  <1>1. RecipientStatus(r)[x] =
          IF Rejected(r) THEN "rejected"
          ELSE CASE o \in SubTypes -> "bounced" [] o = "Delayed" -> "delayed"
                 [] o = "Complaint" -> "complained" [] OTHER -> "delivered"
    BY DEF RecipientStatus
  <1>2. o \in Outcomes
    BY OutcomeKnown
  <1> HIDE DEF o
  <1>3. RecipientStatus(r)[x] =
          IF Rejected(r) THEN "rejected"
          ELSE IF o \in SubTypes THEN "bounced" ELSE IF o = "Delayed" THEN "delayed"
          ELSE IF o = "Complaint" THEN "complained" ELSE "delivered"
    BY <1>1, <1>2 DEF SubTypes, Outcomes
  <1> QED
    BY <1>2, <1>3 DEF SubTypes, Outcomes, o

LEMMA EventsTell ==
    ASSUME NEW r, r.rcpts \in RecipientSets
    PROVE  /\ Events(r) \in Seq(EventRecords)
           /\ Story(RecipientStatus(r), Events(r))
           /\ DeliversAny(r) = (HavingIn(RecipientStatus(r), {"delivered", "complained", "delayed"}) # {})
  <1> DEFINE st == RecipientStatus(r)
             send == <<[type |-> "Send", rcpts |-> {}]>>
  <1>0. DOMAIN st = r.rcpts /\ r.rcpts \subseteq People
    BY DEF RecipientStatus, People
  <1>1. /\ send \in Seq(EventRecords) /\ Len(send) = 1 /\ send[1].type = "Send"
        /\ \A type : LoggedIn(send, type) = {}
        /\ \A type : HasType(send, type) = (type = "Send")
    <2>1. [type |-> "Send", rcpts |-> {}] \in EventRecords
      BY DEF EventRecords
    <2>2. send \in Seq(EventRecords) /\ DOMAIN send = {1} /\ Len(send) = 1
          /\ send[1].type = "Send" /\ send[1].rcpts = {}
      BY <2>1
    <2> HIDE DEF send
    <2>3. ASSUME NEW type, NEW x PROVE x \notin LoggedIn(send, type)
      BY <2>2, InLog
    <2>4. ASSUME NEW type PROVE HasType(send, type) = (type = "Send")
      BY <2>2 DEF HasType
    <2> QED
      BY <2>2, <2>3, <2>4
  <1>2. \A s \in Seq(EventRecords) : send \o s # <<>> /\ (send \o s)[1].type = "Send"
    <2> SUFFICES ASSUME NEW s \in Seq(EventRecords)
                 PROVE  send \o s # <<>> /\ (send \o s)[1].type = "Send"
      OBVIOUS
    <2> HIDE DEF send
    <2>1. Len(send \o s) = 1 + Len(s) /\ (send \o s)[1] = send[1] /\ Len(s) \in Nat
      <3>1. send \in Seq(EventRecords) /\ Len(send) = 1 /\ Len(s) \in Nat
        BY <1>1
      <3>2. /\ Len(send \o s) = Len(send) + Len(s)
            /\ \A i \in 1..Len(send) + Len(s) : (send \o s)[i] =
                  IF i <= Len(send) THEN send[i] ELSE s[i - Len(send)]
        BY <3>1, ConcatProperties
      <3>3. 1 \in 1..Len(send) + Len(s) /\ 1 <= Len(send)
        BY <3>1
      <3> QED
        BY <3>1, <3>2, <3>3
    <2>2. send \o s # <<>>
      <3> SUFFICES ASSUME send \o s = <<>> PROVE FALSE
        OBVIOUS
      <3>1. Len(send \o s) = 0
        OBVIOUS
      <3> QED
        BY <2>1, <3>1
    <2> QED
      BY <1>1, <2>1, <2>2
  <1>3. CASE Rejected(r)
    <2> DEFINE rej == <<[type |-> "Reject", rcpts |-> {}]>>
    <2>1. Events(r) = send \o rej
      BY <1>3 DEF Events
    <2>2. /\ rej \in Seq(EventRecords)
          /\ \A type : LoggedIn(rej, type) = {}
          /\ HasType(rej, "Reject")
      <3>1. [type |-> "Reject", rcpts |-> {}] \in EventRecords
        BY DEF EventRecords
      <3>2. rej \in Seq(EventRecords) /\ DOMAIN rej = {1} /\ rej[1].type = "Reject" /\ rej[1].rcpts = {}
        BY <3>1
      <3> HIDE DEF rej
      <3>3. ASSUME NEW type, NEW x PROVE x \notin LoggedIn(rej, type)
        BY <3>2, InLog
      <3> QED
        BY <3>2, <3>3 DEF HasType
    <2>3. \A x \in r.rcpts : st[x] = "rejected"
      BY <1>3, StatusKnown
    <2>4. "reject" \in r.rcpts
      BY <1>3 DEF Rejected
    <2> HIDE DEF st, send, rej
    <2>5. /\ Events(r) \in Seq(EventRecords)
          /\ \A type : LoggedIn(Events(r), type) = {}
          /\ HasType(Events(r), "Reject")
      <3>1. /\ send \o rej \in Seq(EventRecords)
            /\ \A type : LoggedIn(send \o rej, type) = LoggedIn(send, type) \cup LoggedIn(rej, type)
            /\ \A type : HasType(send \o rej, type) = (HasType(send, type) \/ HasType(rej, type))
        BY <2>2, <1>1, TwoLogged
      <3> QED
        BY <3>1, <2>1, <2>2, <1>1
    <2>6. /\ HavingIn(st, {"delivered", "complained"}) = {} /\ HavingIn(st, {"complained"}) = {}
          /\ HavingIn(st, {"bounced"}) = {} /\ HavingIn(st, {"delayed"}) = {}
          /\ HavingIn(st, {"rejected"}) # {} /\ HavingIn(st, {"delivered", "complained", "delayed"}) = {}
      BY <1>0, <2>3, <2>4 DEF HavingIn
    <2>7. Events(r) # <<>> /\ Events(r)[1].type = "Send"
      BY <2>1, <2>2, <1>2
    <2>8. Story(st, Events(r))
      BY <2>5, <2>6, <2>7 DEF Story, HasType
    <2>9. DeliversAny(r) = FALSE
      BY <1>3 DEF DeliversAny
    <2> QED
      BY <2>5, <2>6, <2>8, <2>9 DEF st
  <1>4. CASE ~Rejected(r)
    <2> DEFINE W(o) == WithOutcome(r, {o})
               a == OneEvent("Delivery", DeliveredTo(r))
               b == OneEvent("Bounce", W("General"))
               c == OneEvent("Bounce", W("OnAccountSuppressionList"))
               d == OneEvent("Bounce", W("Suppressed"))
               e == OneEvent("Complaint", W("Complaint"))
               f == OneEvent("DeliveryDelay", W("Delayed"))
    <2>1. Events(r) = send \o (a \o b \o c \o d \o e \o f)
      BY <1>4 DEF Events, OneEvent
    <2>2. DeliveredTo(r) \in SUBSET People /\ \A o : W(o) \in SUBSET People
      BY <1>0 DEF DeliveredTo, WithOutcome
    <2> HIDE DEF W
    <2>3. /\ a \in Seq(EventRecords) /\ b \in Seq(EventRecords) /\ c \in Seq(EventRecords)
          /\ d \in Seq(EventRecords) /\ e \in Seq(EventRecords) /\ f \in Seq(EventRecords)
      BY <2>2, OneLogged
    <2>4. ASSUME NEW type
          PROVE  /\ LoggedIn(a, type) = IF type = "Delivery" THEN DeliveredTo(r) ELSE {}
                 /\ LoggedIn(b, type) = IF type = "Bounce" THEN W("General") ELSE {}
                 /\ LoggedIn(c, type) = IF type = "Bounce" THEN W("OnAccountSuppressionList") ELSE {}
                 /\ LoggedIn(d, type) = IF type = "Bounce" THEN W("Suppressed") ELSE {}
                 /\ LoggedIn(e, type) = IF type = "Complaint" THEN W("Complaint") ELSE {}
                 /\ LoggedIn(f, type) = IF type = "DeliveryDelay" THEN W("Delayed") ELSE {}
      BY <2>2, OneLogged
    <2>5. /\ ~HasType(a, "Reject") /\ ~HasType(b, "Reject") /\ ~HasType(c, "Reject")
          /\ ~HasType(d, "Reject") /\ ~HasType(e, "Reject") /\ ~HasType(f, "Reject")
      <3>1. ~HasType(a, "Reject")
        BY <2>2, OneLogged
      <3>2. ~HasType(b, "Reject")
        BY <2>2, OneLogged
      <3>3. ~HasType(c, "Reject")
        BY <2>2, OneLogged
      <3>4. ~HasType(d, "Reject")
        BY <2>2, OneLogged
      <3>5. ~HasType(e, "Reject")
        BY <2>2, OneLogged
      <3>6. ~HasType(f, "Reject")
        BY <2>2, OneLogged
      <3> QED BY <3>1, <3>2, <3>3, <3>4, <3>5, <3>6
    <2> HIDE DEF a, b, c, d, e, f, send, st
    <2>6. /\ a \o b \in Seq(EventRecords) /\ ~HasType(a \o b, "Reject")
          /\ \A type : LoggedIn(a \o b, type) = LoggedIn(a, type) \cup LoggedIn(b, type)
      BY <2>3, <2>5, TwoLogged
    <2>7. /\ a \o b \o c \in Seq(EventRecords) /\ ~HasType(a \o b \o c, "Reject")
          /\ \A type : LoggedIn(a \o b \o c, type) = LoggedIn(a \o b, type) \cup LoggedIn(c, type)
      BY <2>3, <2>5, <2>6, TwoLogged
    <2>8. /\ a \o b \o c \o d \in Seq(EventRecords) /\ ~HasType(a \o b \o c \o d, "Reject")
          /\ \A type : LoggedIn(a \o b \o c \o d, type) = LoggedIn(a \o b \o c, type) \cup LoggedIn(d, type)
      BY <2>3, <2>5, <2>7, TwoLogged
    <2>9. /\ a \o b \o c \o d \o e \in Seq(EventRecords) /\ ~HasType(a \o b \o c \o d \o e, "Reject")
          /\ \A type : LoggedIn(a \o b \o c \o d \o e, type)
                = LoggedIn(a \o b \o c \o d, type) \cup LoggedIn(e, type)
      BY <2>3, <2>5, <2>8, TwoLogged
    <2>10. /\ a \o b \o c \o d \o e \o f \in Seq(EventRecords) /\ ~HasType(a \o b \o c \o d \o e \o f, "Reject")
           /\ \A type : LoggedIn(a \o b \o c \o d \o e \o f, type)
                 = LoggedIn(a \o b \o c \o d \o e, type) \cup LoggedIn(f, type)
      BY <2>3, <2>5, <2>9, TwoLogged
    <2> DEFINE w == a \o b \o c \o d \o e \o f
    <2>11. ASSUME NEW type
           PROVE  LoggedIn(w, type) = LoggedIn(a, type) \cup LoggedIn(b, type) \cup LoggedIn(c, type)
                     \cup LoggedIn(d, type) \cup LoggedIn(e, type) \cup LoggedIn(f, type)
      BY <2>6, <2>7, <2>8, <2>9, <2>10
    <2>12. w \in Seq(EventRecords) /\ ~HasType(w, "Reject")
      BY <2>10
    <2> HIDE DEF w
    <2>13. /\ Events(r) \in Seq(EventRecords) /\ ~HasType(Events(r), "Reject")
           /\ \A type : LoggedIn(Events(r), type) = LoggedIn(w, type)
      <3>1. Events(r) = send \o w
        BY <2>1 DEF w
      <3>2. /\ send \o w \in Seq(EventRecords)
            /\ \A type : LoggedIn(send \o w, type) = LoggedIn(send, type) \cup LoggedIn(w, type)
            /\ \A type : HasType(send \o w, type) = (HasType(send, type) \/ HasType(w, type))
        BY <2>12, <1>1, TwoLogged
      <3>3. HasType(send, "Reject") = FALSE /\ \A type : LoggedIn(send, type) = {}
        BY <1>1
      <3> QED
        BY <3>1, <3>2, <3>3, <2>12
    <2>14. /\ LoggedIn(Events(r), "Delivery") = DeliveredTo(r)
           /\ LoggedIn(Events(r), "Bounce") = W("General") \cup W("OnAccountSuppressionList") \cup W("Suppressed")
           /\ LoggedIn(Events(r), "Complaint") = W("Complaint")
           /\ LoggedIn(Events(r), "DeliveryDelay") = W("Delayed")
      <3> HIDE DEF W
      <3>0. \A type : LoggedIn(Events(r), type) = LoggedIn(w, type)
        BY <2>13
      <3>1. LoggedIn(Events(r), "Delivery") = DeliveredTo(r)
        <4>1. /\ LoggedIn(a, "Delivery") = DeliveredTo(r) /\ LoggedIn(b, "Delivery") = {}
              /\ LoggedIn(c, "Delivery") = {} /\ LoggedIn(d, "Delivery") = {}
              /\ LoggedIn(e, "Delivery") = {} /\ LoggedIn(f, "Delivery") = {}
          BY <2>4
        <4>2. LoggedIn(w, "Delivery") = LoggedIn(a, "Delivery") \cup LoggedIn(b, "Delivery")
                 \cup LoggedIn(c, "Delivery") \cup LoggedIn(d, "Delivery")
                 \cup LoggedIn(e, "Delivery") \cup LoggedIn(f, "Delivery")
          BY <2>11
        <4> QED BY <4>1, <4>2, <3>0
      <3>2. LoggedIn(Events(r), "Bounce") = W("General") \cup W("OnAccountSuppressionList") \cup W("Suppressed")
        BY <2>4, <2>11, <3>0
      <3>3. LoggedIn(Events(r), "Complaint") = W("Complaint")
        BY <2>4, <2>11, <3>0
      <3>4. LoggedIn(Events(r), "DeliveryDelay") = W("Delayed")
        BY <2>4, <2>11, <3>0
      <3> QED
        BY <3>1, <3>2, <3>3, <3>4
    <2>15. \A x \in r.rcpts :
              /\ st[x] # "rejected"
              /\ st[x] \in {"delivered", "complained"} <=> Outcome(r, x) \in {"Delivered", "OutOfOffice", "Complaint"}
              /\ st[x] = "complained" <=> Outcome(r, x) = "Complaint"
              /\ st[x] = "bounced" <=> Outcome(r, x) \in SubTypes
              /\ st[x] = "delayed" <=> Outcome(r, x) = "Delayed"
              /\ st[x] \in {"delivered", "complained", "delayed"} <=> Outcome(r, x) \notin SubTypes
      BY <1>4, StatusKnown DEF st
    <2>16. /\ DeliveredTo(r) = HavingIn(st, {"delivered", "complained"})
           /\ W("Complaint") = HavingIn(st, {"complained"})
           /\ W("Delayed") = HavingIn(st, {"delayed"})
           /\ W("General") \cup W("OnAccountSuppressionList") \cup W("Suppressed") = HavingIn(st, {"bounced"})
           /\ HavingIn(st, {"rejected"}) = {}
      BY <2>15, <1>0 DEF W, DeliveredTo, WithOutcome, HavingIn, SubTypes
    <2>17. Events(r) # <<>> /\ Events(r)[1].type = "Send"
      BY <2>1, <2>12, <1>2 DEF w
    <2>18. Story(st, Events(r))
      BY <2>13, <2>14, <2>16, <2>17 DEF Story, HasType
    <2>19. DeliversAny(r) = (HavingIn(st, {"delivered", "complained", "delayed"}) # {})
      BY <2>15, <1>0, <1>4 DEF DeliversAny, HavingIn
    <2> QED
      BY <2>13, <2>18, <2>19 DEF st
  <1> QED
    BY <1>3, <1>4

TellStates == {"capture", "record", "destinations", "publish"}

\* The last event of the log is not through with yet.
Half == {"destinations", "publish"}

EventMatches(row, type) == row.enabled /\ row.sns /\ type \in row.types

\* Of a request r that has stored its message: what it has recorded, M, and what it is
\* still to record are the story of the message;
ToldLog(r, M) ==
    LET m == M[r.id] IN
    /\ DOMAIN r = {"at", "id", "deliver", "events", "replies", "steady", "to"}
    /\ r.id \in DOMAIN M /\ m.done = FALSE
    /\ r.events \in Seq(EventRecords)
    /\ r.at \in Half => r.events # <<>> /\ Len(m.log) >= 1 /\ m.log[Len(m.log)] = Head(r.events)
    /\ Story(m.status, m.log \o (IF r.at \in Half THEN Tail(r.events) ELSE r.events))

\* what is in the inbox, I, is what it has come to,
ToldInbox(r, M, I) ==
    LET m == M[r.id] IN
    /\ r.deliver = (HavingIn(m.status, {"delivered", "complained", "delayed"}) # {})
    /\ (<<"copy", r.id>> \in I) = (r.at # "capture" /\ r.deliver)
    /\ \A k \in DOMAIN m.log : (<<"feedback", r.id, k>> \in I) =
          (m.feedback /\ m.log[k].type \in {"Bounce", "Complaint"} /\ ~(r.at \in Half /\ k = Len(m.log)))

\* and so is what was published, T, to a destination d whose row has not changed.
ToldTo(r, m, T, d, row) ==
    /\ \A k \in DOMAIN m.log : (<<r.id, k, d>> \in T) =
          (/\ EventMatches(row, m.log[k].type)
           /\ ~(k = Len(m.log) /\ (r.at = "destinations" \/ (r.at = "publish" /\ d \in r.to))))
    /\ r.at = "publish" /\ d \in r.to => EventMatches(row, Head(r.events).type)

ToldTopics(r, M, T, D) ==
    /\ r.steady \subseteq DOMAIN D
    /\ M[r.id].cs # None => \A d \in r.steady : ToldTo(r, M[r.id], T, d, D[d])

ToldOk(r, M, I, T, D) == ToldLog(r, M) /\ ToldInbox(r, M, I) /\ ToldTopics(r, M, T, D)

\* A request that has not stored its message.
Asking(r, D) ==
    /\ r.at \in {"verify", "set", "ask"}
    /\ DOMAIN r = {"at", "rcpts", "cs", "feedback", "verify", "candidates", "ask", "suppressed", "steady"}
    /\ r.rcpts \in RecipientSets
    /\ r.steady \subseteq DOMAIN D

SendRequest(r, M, I, T, D) ==
    \/ r = SesIdle
    \/ r.at = "destination" /\ DOMAIN r = {"at", "name", "row"}
    \/ Asking(r, D)
    \/ r.at \in TellStates /\ ToldOk(r, M, I, T, D)

MailRow(m) ==
    /\ DOMAIN m = {"status", "log", "done", "cs", "feedback", "steady"}
    /\ m.log \in Seq(EventRecords)

\* What the properties say of a message that was sent.
SentOk(i, M, I) ==
    LET m == M[i] IN
    m.done =>
        /\ Story(m.status, m.log)
        /\ (<<"copy", i>> \in I) = (HavingIn(m.status, {"delivered", "complained", "delayed"}) # {})
        /\ \A n \in DOMAIN m.log : (<<"feedback", i, n>> \in I) =
              (m.feedback /\ m.log[n].type \in {"Bounce", "Complaint"})

PublishedOk(i, M, T) ==
    LET m == M[i] IN
    m.done /\ m.cs # None => \A d \in DOMAIN m.steady, n \in DOMAIN m.log :
        (<<i, n, d>> \in T) = EventMatches(m.steady[d], m.log[n].type)

\* Nothing is said of an event that is not recorded.
MarksOf(M, I, T) ==
    /\ \A i : <<"copy", i>> \in I => i \in DOMAIN M
    /\ \A i, k : <<"feedback", i, k>> \in I => i \in DOMAIN M /\ k \in DOMAIN M[i].log
    /\ \A i, k, d : <<i, k, d>> \in T => i \in DOMAIN M /\ k \in DOMAIN M[i].log

SendInv ==
    /\ Cardinality(DOMAIN sesMails) \in Nat
    /\ DOMAIN sesMails = 1..Cardinality(DOMAIN sesMails)
    /\ \A i \in DOMAIN sesMails :
          MailRow(sesMails[i]) /\ SentOk(i, sesMails, sesInbox) /\ PublishedOk(i, sesMails, Tried)
    /\ MarksOf(sesMails, sesInbox, Tried)
    /\ DOMAIN sesSend = SesClients
    /\ \A c \in SesClients : SendRequest(sesSend[c], sesMails, sesInbox, Tried, sesDests)
    /\ \A c, d \in SesClients : c # d /\ sesSend[c].at \in TellStates /\ sesSend[d].at \in TellStates
          => sesSend[c].id # sesSend[d].id
    /\ DestinationsHaveSet

LEMMA SendInitInv == SesSendingInit => SendInv
  <1> SUFFICES ASSUME SesSendingInit PROVE SendInv
    OBVIOUS
  <1>1. DOMAIN sesMails = {} /\ Cardinality({}) = 0 /\ 1..0 = {}
    BY FS_EmptySet DEF SesSendingInit
  <1>2. MarksOf(sesMails, sesInbox, Tried)
    BY DEF SesSendingInit, MarksOf, Tried
  <1>3. \A c \in SesClients : sesSend[c] = SesIdle /\ sesSend[c].at \notin TellStates
    BY DEF SesSendingInit, SesIdle, TellStates
  <1>4. DestinationsHaveSet /\ DOMAIN sesSend = SesClients
    BY DEF SesSendingInit, DestinationsHaveSet
  <1> QED
    BY <1>1, <1>2, <1>3, <1>4 DEF SendInv, SendRequest

LEMMA SendImplies == SendInv => SendsTraced
  <1> SUFFICES ASSUME SendInv PROVE SendsTraced
    OBVIOUS
  <1>1. SentConsistently
    <2> SUFFICES ASSUME NEW i \in DOMAIN sesMails, sesMails[i].done
                 PROVE  LET m == sesMails[i] IN
            /\ m.log[1].type = "Send"
            /\ Logged(m, "Delivery") = Having(m, {"delivered", "complained"})
            /\ Logged(m, "Complaint") = Having(m, {"complained"})
            /\ Logged(m, "Bounce") = Having(m, {"bounced"})
            /\ Logged(m, "DeliveryDelay") = Having(m, {"delayed"})
            /\ (\E n \in DOMAIN m.log : m.log[n].type = "Reject") = (Having(m, {"rejected"}) # {})
            /\ (<<"copy", i>> \in sesInbox) = (Having(m, {"delivered", "complained", "delayed"}) # {})
            /\ \A n \in DOMAIN m.log : (<<"feedback", i, n>> \in sesInbox) =
                  (m.feedback /\ m.log[n].type \in {"Bounce", "Complaint"})
      BY DEF SentConsistently
    <2> DEFINE m == sesMails[i]
    <2>1. SentOk(i, sesMails, sesInbox)
      BY DEF SendInv
    <2>2. \A type : Logged(m, type) = LoggedIn(m.log, type)
      BY DEF Logged, LoggedIn
    <2>3. \A set : Having(m, set) = HavingIn(m.status, set)
      BY DEF Having, HavingIn
    <2>4. Story(m.status, m.log)
          /\ (<<"copy", i>> \in sesInbox) = (HavingIn(m.status, {"delivered", "complained", "delayed"}) # {})
          /\ \A n \in DOMAIN m.log : (<<"feedback", i, n>> \in sesInbox) =
                (m.feedback /\ m.log[n].type \in {"Bounce", "Complaint"})
      BY <2>1 DEF SentOk
    <2>5. (\E n \in DOMAIN m.log : m.log[n].type = "Reject") = (Having(m, {"rejected"}) # {})
      BY <2>3, <2>4 DEF Story, HasType
    <2> QED
      BY <2>2, <2>3, <2>4, <2>5 DEF Story
  <1>2. PublishedToMatching
    BY DEF SendInv, PublishedOk, PublishedToMatching, EventMatches
  <1> QED
    BY <1>1, <1>2 DEF SendInv, SendsTraced

\* A step of a request that tells about message i touches nothing that is about
\* another one;
OthersKept(i) ==
    /\ DOMAIN sesMails' = DOMAIN sesMails
    /\ \A j \in DOMAIN sesMails \ {i} : sesMails'[j] = sesMails[j]
    /\ \A j : j # i => (<<"copy", j>> \in sesInbox') = (<<"copy", j>> \in sesInbox)
    /\ \A j, k : j # i => (<<"feedback", j, k>> \in sesInbox') = (<<"feedback", j, k>> \in sesInbox)
    /\ \A j, k, d : j # i => (<<j, k, d>> \in Tried') = (<<j, k, d>> \in Tried)
    /\ sesDests' = sesDests /\ sesSet' = sesSet /\ sesStray' = sesStray

\* what it leaves about i is in order.
TellsOf(i, M, I, T) ==
    /\ MailRow(M[i])
    /\ \A k : <<"feedback", i, k>> \in I => k \in DOMAIN M[i].log
    /\ \A k, d : <<i, k, d>> \in T => k \in DOMAIN M[i].log
    /\ SentOk(i, M, I) /\ PublishedOk(i, M, T)

LEMMA SendTells ==
    ASSUME SendInv, NEW c \in SesClients, sesSend[c].at \in TellStates,
           NEW i, i = sesSend[c].id, NEW x, sesSend' = [sesSend EXCEPT ![c] = x],
           OthersKept(i), TellsOf(i, sesMails', sesInbox', Tried'),
           x = SesIdle \/ (x.at \in TellStates /\ x.id = i
                           /\ ToldOk(x, sesMails', sesInbox', Tried', sesDests'))
    PROVE  SendInv'
  <1> USE DEF OthersKept, TellsOf
  <1>0. SesIdle.at \notin TellStates
    BY DEF SesIdle, TellStates
  <1>1. SendRequest(sesSend[c], sesMails, sesInbox, Tried, sesDests) /\ sesSend[c] # SesIdle
    BY <1>0 DEF SendInv
  <1>2. i \in DOMAIN sesMails
    BY <1>1 DEF SendRequest, Asking, ToldOk, ToldLog, TellStates
  <1>3. MarksOf(sesMails', sesInbox', Tried')
    <2>1. \A j : <<"copy", j>> \in sesInbox' => j \in DOMAIN sesMails'
      BY <1>2 DEF SendInv, MarksOf
    <2>2. \A j, k : <<"feedback", j, k>> \in sesInbox' => j \in DOMAIN sesMails' /\ k \in DOMAIN sesMails'[j].log
      <3> SUFFICES ASSUME NEW j, NEW k, <<"feedback", j, k>> \in sesInbox'
                   PROVE  j \in DOMAIN sesMails' /\ k \in DOMAIN sesMails'[j].log
        OBVIOUS
      <3>1. CASE j = i
        BY <3>1, <1>2
      <3>2. CASE j # i
        <4>1. j \in DOMAIN sesMails /\ k \in DOMAIN sesMails[j].log
          BY <3>2 DEF SendInv, MarksOf
        <4> QED
          BY <4>1, <3>2
      <3> QED
        BY <3>1, <3>2
    <2>3. \A j, k, d : <<j, k, d>> \in Tried' => j \in DOMAIN sesMails' /\ k \in DOMAIN sesMails'[j].log
      <3> SUFFICES ASSUME NEW j, NEW k, NEW d, <<j, k, d>> \in Tried'
                   PROVE  j \in DOMAIN sesMails' /\ k \in DOMAIN sesMails'[j].log
        OBVIOUS
      <3>1. CASE j = i
        BY <3>1, <1>2
      <3>2. CASE j # i
        <4>1. j \in DOMAIN sesMails /\ k \in DOMAIN sesMails[j].log
          BY <3>2 DEF SendInv, MarksOf
        <4> QED
          BY <4>1, <3>2
      <3> QED
        BY <3>1, <3>2
    <2> QED
      BY <2>1, <2>2, <2>3 DEF MarksOf
  <1>4. ASSUME NEW j \in DOMAIN sesMails
        PROVE  MailRow(sesMails'[j]) /\ SentOk(j, sesMails', sesInbox') /\ PublishedOk(j, sesMails', Tried')
    <2>1. CASE j = i
      BY <2>1
    <2>2. CASE j # i
      <3>1. /\ sesMails'[j] = sesMails[j] /\ MailRow(sesMails[j]) /\ SentOk(j, sesMails, sesInbox)
            /\ PublishedOk(j, sesMails, Tried)
        BY <2>2 DEF SendInv
      <3>2. SentOk(j, sesMails', sesInbox')
        BY <2>2, <3>1 DEF SentOk
      <3>3. PublishedOk(j, sesMails', Tried')
        BY <2>2, <3>1 DEF PublishedOk
      <3> QED
        BY <3>1, <3>2, <3>3
    <2> QED
      BY <2>1, <2>2
  <1>5. ASSUME NEW d \in SesClients
        PROVE  SendRequest(sesSend'[d], sesMails', sesInbox', Tried', sesDests')
    <2>1. CASE d = c
      BY <2>1 DEF SendInv, SendRequest
    <2>2. CASE d # c
      <3> DEFINE r == sesSend[d]
      <3>1. sesSend'[d] = r
        BY <2>2
      <3>2. SendRequest(r, sesMails, sesInbox, Tried, sesDests)
        BY DEF SendInv
      <3>3. CASE r.at \in TellStates /\ ToldOk(r, sesMails, sesInbox, Tried, sesDests)
        <4>1. r.id # i
          BY <2>2, <3>3 DEF SendInv
        <4>2. r.id \in DOMAIN sesMails
          BY <3>3 DEF ToldOk, ToldLog
        <4>3. sesMails'[r.id] = sesMails[r.id]
          BY <4>1, <4>2
        <4> HIDE DEF r
        <4>4. ToldLog(r, sesMails')
          BY <4>3, <3>3 DEF ToldOk, ToldLog
        <4>5. ToldInbox(r, sesMails', sesInbox')
          <5>1. (<<"copy", r.id>> \in sesInbox') = (<<"copy", r.id>> \in sesInbox)
            BY <4>1
          <5>2. \A k : (<<"feedback", r.id, k>> \in sesInbox') = (<<"feedback", r.id, k>> \in sesInbox)
            BY <4>1
          <5>3. ToldInbox(r, sesMails, sesInbox)
            BY <3>3 DEF ToldOk
          <5> QED BY <4>3, <5>1, <5>2, <5>3 DEF ToldInbox
        <4>6. ToldTopics(r, sesMails', Tried', sesDests')
          <5>1. \A k, e : (<<r.id, k, e>> \in Tried') = (<<r.id, k, e>> \in Tried)
            BY <4>1
          <5>2. sesDests' = sesDests /\ ToldTopics(r, sesMails, Tried, sesDests)
            BY <3>3 DEF ToldOk
          <5>3. ASSUME NEW e \in r.steady, ToldTo(r, sesMails[r.id], Tried, e, sesDests[e])
                PROVE  ToldTo(r, sesMails[r.id], Tried', e, sesDests[e])
            BY <5>1, <5>3 DEF ToldTo
          <5> QED
            BY <4>3, <5>2, <5>3 DEF ToldTopics
        <4> QED
          BY <3>1, <3>3, <4>4, <4>5, <4>6 DEF SendRequest, ToldOk
      <3>4. CASE ~(r.at \in TellStates /\ ToldOk(r, sesMails, sesInbox, Tried, sesDests))
        BY <3>1, <3>2, <3>4 DEF SendRequest, Asking
      <3> QED
        BY <3>3, <3>4
    <2> QED
      BY <2>1, <2>2
  <1>6. \A d, e \in SesClients : d # e /\ sesSend'[d].at \in TellStates /\ sesSend'[e].at \in TellStates
           => sesSend'[d].id # sesSend'[e].id
    <2>1. \A d \in SesClients : sesSend'[d].at \in TellStates =>
             sesSend[d].at \in TellStates /\ sesSend'[d].id = sesSend[d].id
      BY <1>0 DEF SendInv
    <2> QED
      BY <2>1 DEF SendInv
  <1>7. DestinationsHaveSet' /\ DOMAIN sesSend' = SesClients
    BY DEF SendInv, DestinationsHaveSet
  <1>8. Cardinality(DOMAIN sesMails') \in Nat /\ DOMAIN sesMails' = 1..Cardinality(DOMAIN sesMails')
    BY DEF SendInv
  <1> QED
    BY <1>3, <1>4, <1>5, <1>6, <1>7, <1>8 DEF SendInv

\* A request that has stored nothing goes on.
LEMMA SendQuiet ==
    ASSUME SendInv, NEW c \in SesClients, NEW x, sesSend' = [sesSend EXCEPT ![c] = x],
           UNCHANGED <<sesMails, sesInbox, Tried, sesDests, sesStray>>, sesSet' = sesSet,
           \/ x = SesIdle
           \/ x.at = "destination" /\ DOMAIN x = {"at", "name", "row"}
           \/ Asking(x, sesDests)
    PROVE  SendInv'
  <1>1. SendRequest(x, sesMails, sesInbox, Tried, sesDests) /\ x.at \notin TellStates
    BY DEF SendRequest, Asking, SesIdle, TellStates
  <1>2. ASSUME NEW d \in SesClients
        PROVE  SendRequest(sesSend'[d], sesMails', sesInbox', Tried', sesDests')
    <2>1. sesSend'[d] = x \/ sesSend'[d] = sesSend[d]
      BY DEF SendInv
    <2>2. SendRequest(sesSend'[d], sesMails, sesInbox, Tried, sesDests)
      BY <2>1, <1>1 DEF SendInv
    <2> QED
      BY <2>2
  <1>3. \A d, e \in SesClients : d # e /\ sesSend'[d].at \in TellStates /\ sesSend'[e].at \in TellStates
           => sesSend'[d].id # sesSend'[e].id
    <2>1. \A d \in SesClients : sesSend'[d].at \in TellStates => sesSend'[d] = sesSend[d]
      BY <1>1 DEF SendInv
    <2> QED
      BY <2>1 DEF SendInv
  <1>4. DestinationsHaveSet' /\ DOMAIN sesSend' = SesClients
    BY DEF SendInv, DestinationsHaveSet
  <1>5. /\ Cardinality(DOMAIN sesMails') \in Nat
        /\ DOMAIN sesMails' = 1..Cardinality(DOMAIN sesMails')
        /\ MarksOf(sesMails', sesInbox', Tried')
        /\ \A i \in DOMAIN sesMails' : MailRow(sesMails'[i]) /\ SentOk(i, sesMails', sesInbox')
                                       /\ PublishedOk(i, sesMails', Tried')
    BY DEF SendInv
  <1> QED
    BY <1>2, <1>3, <1>4, <1>5 DEF SendInv

\* Event destinations change, and the requests under way know of it.
LEMMA SendUnsteadied ==
    ASSUME SendInv, NEW names, NEW S \in SUBSET SesClients,
           DOMAIN sesSend' = SesClients,
           \A c \in S : sesSend'[c] = SesIdle,
           \A c \in SesClients \ S : sesSend'[c] = Unsteady(names)[c],
           UNCHANGED <<sesMails, sesInbox, Tried>>,
           \A d \in DOMAIN sesDests \ names : d \in DOMAIN sesDests' /\ sesDests'[d] = sesDests[d],
           DestinationsHaveSet'
    PROVE  SendInv'
  <1>1. ASSUME NEW c \in SesClients \ S
        PROVE  /\ SendRequest(sesSend'[c], sesMails, sesInbox, Tried, sesDests')
               /\ sesSend'[c].at = sesSend[c].at
               /\ sesSend[c].at \in TellStates => sesSend'[c].id = sesSend[c].id
    <2> DEFINE r == sesSend[c]
               x == [r EXCEPT !.steady = r.steady \ names]
    <2>0. SendRequest(r, sesMails, sesInbox, Tried, sesDests)
      BY DEF SendInv
    <2>1. sesSend'[c] = IF "steady" \in DOMAIN r THEN x ELSE r
      BY DEF Unsteady
    <2>2. CASE r = SesIdle \/ (r.at = "destination" /\ DOMAIN r = {"at", "name", "row"})
      <3>1. "steady" \notin DOMAIN r
        BY <2>2 DEF SesIdle
      <3> QED
        BY <2>1, <2>2, <3>1 DEF SendRequest
    <2>3. CASE Asking(r, sesDests)
      <3>1. /\ "steady" \in DOMAIN r /\ "at" \in DOMAIN r /\ "rcpts" \in DOMAIN r
        BY <2>3 DEF Asking
      <3>2. DOMAIN x = DOMAIN r /\ x.at = r.at /\ x.rcpts = r.rcpts /\ x.steady = r.steady \ names
        BY <3>1
      <3> HIDE DEF x, r
      <3>3. Asking(x, sesDests')
        BY <2>3, <3>2 DEF Asking
      <3>4. r.at \notin TellStates
        BY <2>3 DEF Asking, TellStates
      <3> QED
        BY <2>1, <3>1, <3>2, <3>3, <3>4 DEF SendRequest, r
    <2>4. CASE r.at \in TellStates /\ ToldOk(r, sesMails, sesInbox, Tried, sesDests)
      <3>1. DOMAIN r = {"at", "id", "deliver", "events", "replies", "steady", "to"}
        BY <2>4 DEF ToldOk, ToldLog
      <3>2. /\ DOMAIN x = DOMAIN r /\ x.at = r.at /\ x.id = r.id /\ x.deliver = r.deliver
            /\ x.events = r.events /\ x.to = r.to /\ x.steady = r.steady \ names /\ "steady" \in DOMAIN r
        BY <3>1
      <3> HIDE DEF x, r
      <3>3. ToldLog(x, sesMails)
        BY <2>4, <3>2 DEF ToldOk, ToldLog
      <3>4. ToldInbox(x, sesMails, sesInbox)
        BY <2>4, <3>2 DEF ToldOk, ToldInbox
      <3>5. ToldTopics(x, sesMails, Tried, sesDests')
        <4>1. ToldTopics(r, sesMails, Tried, sesDests)
          BY <2>4 DEF ToldOk
        <4>2. \A d \in x.steady : d \in r.steady /\ d \in DOMAIN sesDests' /\ sesDests'[d] = sesDests[d]
          BY <4>1, <3>2 DEF ToldTopics
        <4>3. ASSUME NEW d \in x.steady, ToldTo(r, sesMails[r.id], Tried, d, sesDests[d])
              PROVE  ToldTo(x, sesMails[r.id], Tried, d, sesDests[d])
          BY <4>3, <3>2 DEF ToldTo
        <4>4. x.steady \subseteq DOMAIN sesDests' /\ x.id = r.id
          BY <4>2, <3>2
        <4>5. ASSUME sesMails[x.id].cs # None, NEW d \in x.steady
              PROVE  ToldTo(x, sesMails[x.id], Tried, d, sesDests'[d])
          <5>1. ToldTo(r, sesMails[r.id], Tried, d, sesDests[d])
            BY <4>1, <4>2, <4>4, <4>5 DEF ToldTopics
          <5> QED
            BY <5>1, <4>2, <4>3, <4>4
        <4> QED
          BY <4>4, <4>5 DEF ToldTopics
      <3> QED
        BY <2>1, <2>4, <3>2, <3>3, <3>4, <3>5 DEF SendRequest, ToldOk, r
    <2> QED
      BY <2>0, <2>2, <2>3, <2>4 DEF SendRequest
  <1>2. \A c \in SesClients : sesSend'[c].at \in TellStates =>
           sesSend[c].at \in TellStates /\ sesSend'[c].id = sesSend[c].id
    BY <1>1 DEF SesIdle, TellStates
  <1>3. \A c \in SesClients : SendRequest(sesSend'[c], sesMails', sesInbox', Tried', sesDests')
    <2>1. \A c \in SesClients : SendRequest(sesSend'[c], sesMails, sesInbox, Tried, sesDests')
      BY <1>1 DEF SendRequest
    <2> QED
      BY <2>1
  <1>4. \A d, e \in SesClients : d # e /\ sesSend'[d].at \in TellStates /\ sesSend'[e].at \in TellStates
           => sesSend'[d].id # sesSend'[e].id
    BY <1>2 DEF SendInv
  <1>5. /\ Cardinality(DOMAIN sesMails') \in Nat
        /\ DOMAIN sesMails' = 1..Cardinality(DOMAIN sesMails')
        /\ MarksOf(sesMails', sesInbox', Tried')
        /\ \A i \in DOMAIN sesMails' : MailRow(sesMails'[i]) /\ SentOk(i, sesMails', sesInbox')
                                       /\ PublishedOk(i, sesMails', Tried')
    BY DEF SendInv
  <1> QED
    BY <1>3, <1>4, <1>5 DEF SendInv

\* What is known of a request that has stored its message.
LEMMA Telling ==
    ASSUME SendInv, NEW c \in SesClients, sesSend[c].at \in TellStates
    PROVE  LET r == sesSend[c] IN
           /\ ToldLog(r, sesMails) /\ ToldInbox(r, sesMails, sesInbox)
           /\ ToldTopics(r, sesMails, Tried, sesDests)
           /\ r.id \in DOMAIN sesMails /\ MailRow(sesMails[r.id]) /\ sesMails[r.id].done = FALSE
           /\ DOMAIN r = {"at", "id", "deliver", "events", "replies", "steady", "to"}
           /\ \A k : <<"feedback", r.id, k>> \in sesInbox => k \in DOMAIN sesMails[r.id].log
           /\ \A k, d : <<r.id, k, d>> \in Tried => k \in DOMAIN sesMails[r.id].log
  <1> DEFINE r == sesSend[c]
  <1>1. ToldOk(r, sesMails, sesInbox, Tried, sesDests)
    BY DEF SendInv, SendRequest, Asking, SesIdle, TellStates
  <1>2. /\ r.id \in DOMAIN sesMails /\ sesMails[r.id].done = FALSE
        /\ DOMAIN r = {"at", "id", "deliver", "events", "replies", "steady", "to"}
    BY <1>1 DEF ToldOk, ToldLog
  <1>3. MailRow(sesMails[r.id])
    BY <1>2 DEF SendInv
  <1>4. /\ \A k : <<"feedback", r.id, k>> \in sesInbox => k \in DOMAIN sesMails[r.id].log
        /\ \A k, d : <<r.id, k, d>> \in Tried => k \in DOMAIN sesMails[r.id].log
    BY DEF SendInv, MarksOf
  <1> QED
    BY <1>1, <1>2, <1>3, <1>4 DEF ToldOk

\* A message that is not done is not one the properties speak of.
LEMMA NotDone ==
    ASSUME NEW i, NEW M, NEW I, NEW T, M[i].done = FALSE
    PROVE  SentOk(i, M, I) /\ PublishedOk(i, M, T)
  BY DEF SentOk, PublishedOk

LEMMA CaptureCopyInv ==
    ASSUME SendInv, NEW c \in SesClients, CaptureCopy(c)
    PROVE  SendInv'
  <1> DEFINE r == sesSend[c]
             i == r.id
             x == [r EXCEPT !.at = "record"]
  <1>1. r.at = "capture" /\ r.at \in TellStates
    BY DEF CaptureCopy, TellStates
  <1>2. /\ ToldLog(r, sesMails) /\ ToldInbox(r, sesMails, sesInbox)
        /\ ToldTopics(r, sesMails, Tried, sesDests)
        /\ i \in DOMAIN sesMails /\ MailRow(sesMails[i]) /\ sesMails[i].done = FALSE
        /\ DOMAIN r = {"at", "id", "deliver", "events", "replies", "steady", "to"}
        /\ \A k : <<"feedback", i, k>> \in sesInbox => k \in DOMAIN sesMails[i].log
        /\ \A k, d : <<i, k, d>> \in Tried => k \in DOMAIN sesMails[i].log
    BY <1>1, Telling
  <1>3. /\ sesInbox' = IF r.deliver THEN sesInbox \cup {<<"copy", i>>} ELSE sesInbox
        /\ sesSend' = [sesSend EXCEPT ![c] = x]
        /\ sesDests' = sesDests /\ sesSet' = sesSet /\ sesStray' = sesStray
        /\ sesMails' = sesMails /\ Tried' = Tried
    BY DEF CaptureCopy, MailGo, Tried
  <1>4. /\ x.at = "record" /\ x.id = i /\ x.deliver = r.deliver /\ x.events = r.events
        /\ x.to = r.to /\ x.steady = r.steady /\ DOMAIN x = DOMAIN r
    BY <1>2
  <1> HIDE DEF r, x, i
  <1>5. /\ \A j : j # i => (<<"copy", j>> \in sesInbox') = (<<"copy", j>> \in sesInbox)
        /\ \A j, k : (<<"feedback", j, k>> \in sesInbox') = (<<"feedback", j, k>> \in sesInbox)
    BY <1>3
  <1>6. ToldLog(x, sesMails)
    BY <1>1, <1>2, <1>4 DEF ToldLog, Half, i
  <1>7. ToldInbox(x, sesMails, sesInbox')
    <2>1. (<<"copy", i>> \in sesInbox') = r.deliver
      <3>1. (<<"copy", i>> \in sesInbox) = FALSE
        BY <1>1, <1>2 DEF ToldInbox, i
      <3>2. r.deliver \in BOOLEAN
        BY <1>2 DEF ToldInbox
      <3> QED
        BY <3>1, <3>2, <1>3
    <2>2. r.deliver = (HavingIn(sesMails[i].status, {"delivered", "complained", "delayed"}) # {})
      BY <1>2 DEF ToldInbox, i
    <2>3. ASSUME NEW k \in DOMAIN sesMails[i].log
          PROVE  (<<"feedback", i, k>> \in sesInbox') =
                    (sesMails[i].feedback /\ sesMails[i].log[k].type \in {"Bounce", "Complaint"})
      BY <1>1, <1>2, <1>5 DEF ToldInbox, Half, i
    <2>4. (<<"copy", i>> \in sesInbox') = (x.at # "capture" /\ x.deliver)
      <3>1. r.deliver \in BOOLEAN
        BY <2>2
      <3> QED
        BY <2>1, <3>1, <1>4
    <2>5. x.at \notin Half
      BY <1>4 DEF Half
    <2> QED
      BY <2>2, <2>3, <2>4, <2>5, <1>4 DEF ToldInbox
  <1>8. ToldTopics(x, sesMails, Tried, sesDests)
    <2>1. r.id = i /\ x.id = r.id
      BY <1>4 DEF i
    <2>2. ASSUME NEW d, ToldTo(r, sesMails[r.id], Tried, d, sesDests[d])
          PROVE  ToldTo(x, sesMails[r.id], Tried, d, sesDests[d])
      <3> DEFINE m == sesMails[r.id]
                 row == sesDests[d]
      <3>1. ToldTo(r, m, Tried, d, row)
        BY <2>2
      <3> HIDE DEF m, row
      <3>2. ToldTo(x, m, Tried, d, row)
        BY <1>1, <1>4, <2>1, <3>1 DEF ToldTo
      <3> QED BY <3>2 DEF m, row
    <2> QED BY <1>2, <1>4, <2>1, <2>2 DEF ToldTopics
  <1>9. x.at \in TellStates /\ ToldOk(x, sesMails', sesInbox', Tried', sesDests')
    BY <1>3, <1>4, <1>6, <1>7, <1>8 DEF ToldOk, TellStates
  <1>10. OthersKept(i)
    BY <1>3, <1>5 DEF OthersKept
  <1>11. TellsOf(i, sesMails', sesInbox', Tried')
    <2>1. SentOk(i, sesMails', sesInbox') /\ PublishedOk(i, sesMails', Tried')
      BY <1>2, <1>3, NotDone
    <2> QED
      BY <2>1, <1>2, <1>3, <1>5 DEF TellsOf
  <1>12. sesSend[c].at \in TellStates /\ i = sesSend[c].id
    BY <1>1 DEF r, i
  <1> QED
    BY <1>3, <1>4, <1>9, <1>10, <1>11, <1>12, SendTells

LEMMA LogGrows ==
    ASSUME NEW s \in Seq(EventRecords), NEW e \in EventRecords
    PROVE  LET w == Append(s, e) IN
           /\ w \in Seq(EventRecords) /\ Len(w) = Len(s) + 1 /\ Len(w) >= 1 /\ w[Len(w)] = e
           /\ DOMAIN w = DOMAIN s \cup {Len(w)} /\ Len(w) \notin DOMAIN s
           /\ \A k \in DOMAIN s : w[k] = s[k] /\ k # Len(w)
  <1> DEFINE w == Append(s, e)
  <1>1. /\ w \in Seq(EventRecords) /\ Len(w) = Len(s) + 1 /\ DOMAIN w = 1..Len(w)
        /\ \A k \in 1..Len(s) : w[k] = s[k]
        /\ w[Len(s) + 1] = e /\ DOMAIN s = 1..Len(s) /\ Len(s) \in Nat
    BY AppendProperties
  <1> HIDE DEF w
  <1>2. DOMAIN w = DOMAIN s \cup {Len(w)} /\ Len(w) \notin DOMAIN s /\ Len(w) >= 1
    BY <1>1
  <1>3. \A k \in DOMAIN s : w[k] = s[k] /\ k # Len(w)
    BY <1>1, <1>2
  <1> QED
    BY <1>1, <1>2, <1>3 DEF w

LEMMA RecordEventInv ==
    ASSUME SendInv, NEW c \in SesClients, RecordEvent(c)
    PROVE  SendInv'
  <1> DEFINE r == sesSend[c]
             i == r.id
             m == sesMails[i]
             e == Head(r.events)
             n == [m EXCEPT !.log = Append(m.log, e)]
             x == [r EXCEPT !.at = IF m.cs = None THEN "publish" ELSE "destinations"]
  <1>1. r.at = "record" /\ r.at \in TellStates /\ r.events # <<>>
    BY DEF RecordEvent, TellStates
  <1>2. /\ ToldLog(r, sesMails) /\ ToldInbox(r, sesMails, sesInbox)
        /\ ToldTopics(r, sesMails, Tried, sesDests)
        /\ i \in DOMAIN sesMails /\ MailRow(m) /\ m.done = FALSE
        /\ DOMAIN r = {"at", "id", "deliver", "events", "replies", "steady", "to"}
        /\ \A k : <<"feedback", i, k>> \in sesInbox => k \in DOMAIN m.log
        /\ \A k, d : <<i, k, d>> \in Tried => k \in DOMAIN m.log
    BY <1>1, Telling
  <1>3. /\ sesMails' = [sesMails EXCEPT ![i] = n]
        /\ sesSend' = [sesSend EXCEPT ![c] = x]
        /\ sesDests' = sesDests /\ sesSet' = sesSet /\ sesStray' = sesStray
        /\ sesInbox' = sesInbox /\ Tried' = Tried
    BY DEF RecordEvent, MailGo, Tried
  <1>4. /\ x.at = (IF m.cs = None THEN "publish" ELSE "destinations")
        /\ x.id = i /\ x.deliver = r.deliver /\ x.events = r.events
        /\ x.to = r.to /\ x.steady = r.steady /\ DOMAIN x = DOMAIN r
    BY <1>2
  <1>5. /\ n.log = Append(m.log, e) /\ n.status = m.status /\ n.done = m.done /\ n.cs = m.cs
        /\ n.feedback = m.feedback /\ DOMAIN n = DOMAIN m
    BY <1>2 DEF MailRow
  <1>6. m.log \in Seq(EventRecords) /\ r.events \in Seq(EventRecords) /\ e \in EventRecords
    <2>1. r.events \in Seq(EventRecords)
      BY <1>2 DEF ToldLog
    <2> QED
      BY <2>1, <1>1, <1>2, HeadTailProperties DEF MailRow
  <1>7. /\ n.log \in Seq(EventRecords) /\ Len(n.log) >= 1 /\ n.log[Len(n.log)] = e
        /\ DOMAIN n.log = DOMAIN m.log \cup {Len(n.log)} /\ Len(n.log) \notin DOMAIN m.log
        /\ \A k \in DOMAIN m.log : n.log[k] = m.log[k] /\ k # Len(n.log)
    <2> HIDE DEF r, x, i, m, e, n
    <2> QED
      BY <1>5, <1>6, LogGrows
  <1>8. n.log \o Tail(r.events) = m.log \o r.events
    BY <1>1, <1>5, <1>6, HeadTaken
  <1>9. sesMails'[i] = n
    BY <1>2, <1>3
  <1>10. r.at \notin Half /\ x.at \in Half /\ x.at \in TellStates /\ x.at # "capture"
    BY <1>1, <1>4 DEF Half, TellStates
  <1>11. ToldLog(x, sesMails')
    <2>1. Story(m.status, m.log \o r.events)
      BY <1>2, <1>10 DEF ToldLog
    <2>2. Head(x.events) = e /\ Tail(x.events) = Tail(r.events) /\ DOMAIN sesMails' = DOMAIN sesMails
      BY <1>3, <1>4
    <2> HIDE DEF r, x, i, m, e, n
    <2> QED
      BY <2>1, <2>2, <1>1, <1>2, <1>4, <1>5, <1>6, <1>7, <1>8, <1>9, <1>10 DEF ToldLog
  <1> HIDE DEF r, x, i, m, e, n
  <1>12. ToldInbox(x, sesMails', sesInbox)
    <2>1. /\ r.deliver = (HavingIn(m.status, {"delivered", "complained", "delayed"}) # {})
          /\ (<<"copy", i>> \in sesInbox) = r.deliver
      BY <1>1, <1>2 DEF ToldInbox, i, m
    <2>2. ASSUME NEW k \in DOMAIN n.log
          PROVE  (<<"feedback", i, k>> \in sesInbox) =
                    (n.feedback /\ n.log[k].type \in {"Bounce", "Complaint"} /\ ~(k = Len(n.log)))
      <3>1. CASE k \in DOMAIN m.log
        BY <3>1, <1>2, <1>5, <1>7, <1>10 DEF ToldInbox, i, m
      <3>2. CASE k = Len(n.log)
        BY <3>2, <1>2, <1>7
      <3> QED
        BY <3>1, <3>2, <1>7
    <2>3. (<<"copy", i>> \in sesInbox) = (x.at # "capture" /\ x.deliver)
      <3>1. r.deliver \in BOOLEAN
        BY <2>1
      <3> QED
        BY <2>1, <3>1, <1>4, <1>10
    <2> QED
      BY <2>1, <2>2, <2>3, <1>4, <1>5, <1>9, <1>10 DEF ToldInbox
  <1>13. ToldTopics(x, sesMails', Tried, sesDests)
    <2>1. r.steady \subseteq DOMAIN sesDests
      BY <1>2 DEF ToldTopics
    <2>2. ASSUME m.cs # None, NEW d \in r.steady
          PROVE  ToldTo(x, n, Tried, d, sesDests[d])
      <3>1. ToldTo(r, m, Tried, d, sesDests[d])
        BY <2>2, <1>2 DEF ToldTopics, i, m
      <3>2. x.at = "destinations"
        BY <2>2, <1>4
      <3>3. ASSUME NEW k \in DOMAIN n.log
            PROVE  (<<i, k, d>> \in Tried) =
                      (EventMatches(sesDests[d], n.log[k].type) /\ ~(k = Len(n.log)))
        <4>1. CASE k \in DOMAIN m.log
          BY <4>1, <3>1, <1>1, <1>7 DEF ToldTo, i
        <4>2. CASE k = Len(n.log)
          BY <4>2, <1>2, <1>7
        <4> QED
          BY <4>1, <4>2, <1>7
      <3> QED
        BY <3>2, <3>3, <1>4 DEF ToldTo
    <2> QED
      BY <2>1, <2>2, <1>4, <1>5, <1>9 DEF ToldTopics
  <1>14. ToldOk(x, sesMails', sesInbox', Tried', sesDests')
    BY <1>3, <1>11, <1>12, <1>13 DEF ToldOk
  <1>15. OthersKept(i)
    BY <1>3 DEF OthersKept
  <1>16. TellsOf(i, sesMails', sesInbox', Tried')
    <2>1. SentOk(i, sesMails', sesInbox') /\ PublishedOk(i, sesMails', Tried')
      BY <1>2, <1>5, <1>9, NotDone
    <2>2. MailRow(n)
      BY <1>2, <1>5, <1>7 DEF MailRow
    <2> QED
      BY <2>1, <2>2, <1>2, <1>3, <1>7, <1>9 DEF TellsOf
  <1>17. sesSend[c].at \in TellStates /\ i = sesSend[c].id
    BY <1>1 DEF r, i
  <1> QED
    BY <1>3, <1>4, <1>10, <1>14, <1>15, <1>16, <1>17, SendTells

LEMMA ReadDestinationsInv ==
    ASSUME SendInv, NEW c \in SesClients, ReadDestinations(c)
    PROVE  SendInv'
  <1> DEFINE r == sesSend[c]
             i == r.id
             m == sesMails[i]
             to == Matching(Head(r.events).type)
             x == [r EXCEPT !.at = "publish", !.to = to]
  <1>1. r.at = "destinations" /\ r.at \in TellStates
    BY DEF ReadDestinations, TellStates
  <1>2. /\ ToldLog(r, sesMails) /\ ToldInbox(r, sesMails, sesInbox)
        /\ ToldTopics(r, sesMails, Tried, sesDests)
        /\ i \in DOMAIN sesMails /\ MailRow(m) /\ m.done = FALSE
        /\ DOMAIN r = {"at", "id", "deliver", "events", "replies", "steady", "to"}
        /\ \A k : <<"feedback", i, k>> \in sesInbox => k \in DOMAIN m.log
        /\ \A k, d : <<i, k, d>> \in Tried => k \in DOMAIN m.log
    BY <1>1, Telling
  <1>3. /\ sesSend' = [sesSend EXCEPT ![c] = x]
        /\ sesDests' = sesDests /\ sesSet' = sesSet /\ sesStray' = sesStray
        /\ sesMails' = sesMails /\ sesInbox' = sesInbox /\ Tried' = Tried
    BY DEF ReadDestinations, MailGo, Tried
  <1>4. /\ x.at = "publish" /\ x.id = i /\ x.deliver = r.deliver /\ x.events = r.events
        /\ x.to = to /\ x.steady = r.steady /\ DOMAIN x = DOMAIN r
    BY <1>2
  <1>5. x.at \in Half /\ r.at \in Half /\ x.at \in TellStates /\ x.at # "capture" /\ r.at # "capture"
    BY <1>1, <1>4 DEF Half, TellStates
  <1>6. \A d \in DOMAIN sesDests : d \in to <=> EventMatches(sesDests[d], Head(r.events).type)
    BY DEF Matching, Wants, EventMatches
  <1>7. m.log \in Seq(EventRecords) /\ m.log[Len(m.log)] = Head(r.events)
    BY <1>2, <1>5 DEF ToldLog, MailRow
  <1> HIDE DEF r, x, i, m, to
  <1>8. ToldLog(x, sesMails)
    BY <1>2, <1>4, <1>5 DEF ToldLog, i
  <1>9. ToldInbox(x, sesMails, sesInbox)
    BY <1>2, <1>4, <1>5 DEF ToldInbox, i
  <1>10. ToldTopics(x, sesMails, Tried, sesDests)
    <2>1. r.steady \subseteq DOMAIN sesDests
      BY <1>2 DEF ToldTopics
    <2>2. ASSUME m.cs # None, NEW d \in r.steady
          PROVE  ToldTo(x, m, Tried, d, sesDests[d])
      <3>1. ToldTo(r, m, Tried, d, sesDests[d])
        BY <2>2, <1>2 DEF ToldTopics, i, m
      <3>2. d \in to <=> EventMatches(sesDests[d], Head(r.events).type)
        BY <2>1, <1>6
      <3>3. ASSUME NEW k \in DOMAIN m.log
            PROVE  (<<i, k, d>> \in Tried) =
                      (EventMatches(sesDests[d], m.log[k].type) /\ ~(k = Len(m.log) /\ d \in to))
        <4>1. (<<i, k, d>> \in Tried) = (EventMatches(sesDests[d], m.log[k].type) /\ ~(k = Len(m.log)))
          BY <3>1, <1>1 DEF ToldTo, i
        <4>2. k = Len(m.log) => (d \in to <=> EventMatches(sesDests[d], m.log[k].type))
          BY <3>2, <1>7
        <4> QED
          BY <4>1, <4>2 DEF EventMatches
      <3> QED
        BY <3>2, <3>3, <1>4 DEF ToldTo
    <2> QED
      BY <2>1, <2>2, <1>4 DEF ToldTopics, m
  <1>11. ToldOk(x, sesMails', sesInbox', Tried', sesDests')
    BY <1>3, <1>8, <1>9, <1>10 DEF ToldOk
  <1>12. OthersKept(i)
    BY <1>3 DEF OthersKept
  <1>13. TellsOf(i, sesMails', sesInbox', Tried')
    <2>1. SentOk(i, sesMails', sesInbox') /\ PublishedOk(i, sesMails', Tried')
      BY <1>2, <1>3, NotDone DEF m
    <2> QED
      BY <2>1, <1>2, <1>3 DEF TellsOf, m
  <1>14. sesSend[c].at \in TellStates /\ i = sesSend[c].id
    BY <1>1 DEF r, i
  <1> QED
    BY <1>3, <1>4, <1>5, <1>11, <1>12, <1>13, <1>14, SendTells

LEMMA PublishToInv ==
    ASSUME SendInv, NEW c \in SesClients, NEW d, PublishTo(c, d)
    PROVE  SendInv'
  <1> DEFINE r == sesSend[c]
             i == r.id
             m == sesMails[i]
             x == [r EXCEPT !.to = r.to \ {d}]
  <1>1. r.at = "publish" /\ r.at \in TellStates /\ r.at \in Half /\ d \in r.to
    BY DEF PublishTo, TellStates, Half
  <1>2. /\ ToldLog(r, sesMails) /\ ToldInbox(r, sesMails, sesInbox)
        /\ ToldTopics(r, sesMails, Tried, sesDests)
        /\ i \in DOMAIN sesMails /\ MailRow(m) /\ m.done = FALSE
        /\ DOMAIN r = {"at", "id", "deliver", "events", "replies", "steady", "to"}
        /\ \A k : <<"feedback", i, k>> \in sesInbox => k \in DOMAIN m.log
        /\ \A k, e : <<i, k, e>> \in Tried => k \in DOMAIN m.log
    BY <1>1, Telling
  <1>3. /\ sesSend' = [sesSend EXCEPT ![c] = x]
        /\ sesDests' = sesDests /\ sesSet' = sesSet /\ sesStray' = sesStray
        /\ sesMails' = sesMails /\ sesInbox' = sesInbox
        /\ Tried' = Tried \cup {<<i, Len(m.log), d>>}
    BY DEF PublishTo, MailGo, AfterFailure, Tried
  <1>4. /\ x.at = r.at /\ x.id = i /\ x.deliver = r.deliver /\ x.events = r.events
        /\ x.to = r.to \ {d} /\ x.steady = r.steady /\ DOMAIN x = DOMAIN r
    BY <1>2
  <1>5. m.log \in Seq(EventRecords) /\ Len(m.log) \in DOMAIN m.log /\ m.log[Len(m.log)] = Head(r.events)
    <2>1. m.log \in Seq(EventRecords) /\ Len(m.log) >= 1 /\ m.log[Len(m.log)] = Head(r.events)
      BY <1>1, <1>2 DEF ToldLog, MailRow
    <2>2. Len(m.log) \in 1..Len(m.log) /\ DOMAIN m.log = 1..Len(m.log)
      BY <2>1
    <2> QED
      BY <2>1, <2>2
  <1> HIDE DEF r, x, i, m
  <1>6. \A j, k, e : (<<j, k, e>> \in Tried') =
           (<<j, k, e>> \in Tried \/ (j = i /\ k = Len(m.log) /\ e = d))
    BY <1>3
  <1>7. ToldLog(x, sesMails)
    BY <1>2, <1>4 DEF ToldLog, i
  <1>8. ToldInbox(x, sesMails, sesInbox)
    BY <1>2, <1>4 DEF ToldInbox, i
  <1>9. ToldTopics(x, sesMails, Tried', sesDests)
    <2>1. r.steady \subseteq DOMAIN sesDests
      BY <1>2 DEF ToldTopics
    <2>2. ASSUME m.cs # None, NEW e \in r.steady
          PROVE  ToldTo(x, m, Tried', e, sesDests[e])
      <3>1. ToldTo(r, m, Tried, e, sesDests[e])
        BY <2>2, <1>2 DEF ToldTopics, i, m
      <3>2. e \in r.to => EventMatches(sesDests[e], Head(r.events).type)
        BY <3>1, <1>1 DEF ToldTo
      <3>3. ASSUME NEW k \in DOMAIN m.log
            PROVE  (<<i, k, e>> \in Tried') =
                      (EventMatches(sesDests[e], m.log[k].type) /\ ~(k = Len(m.log) /\ e \in x.to))
        <4>1. (<<i, k, e>> \in Tried) =
                 (EventMatches(sesDests[e], m.log[k].type) /\ ~(k = Len(m.log) /\ e \in r.to))
          BY <3>1, <1>1 DEF ToldTo, i
        <4>2. k = Len(m.log) /\ e = d => EventMatches(sesDests[e], m.log[k].type)
          BY <3>2, <1>1, <1>5
        <4>3. (<<i, k, e>> \in Tried') = (<<i, k, e>> \in Tried \/ (k = Len(m.log) /\ e = d))
          BY <1>6
        <4>4. e \in x.to <=> e \in r.to /\ e # d
          BY <1>4
        <4> QED
          BY <4>1, <4>2, <4>3, <4>4, <1>1 DEF EventMatches
      <3> QED
        BY <3>2, <3>3, <1>1, <1>4 DEF ToldTo
    <2> QED
      BY <2>1, <2>2, <1>4 DEF ToldTopics, m
  <1>10. ToldOk(x, sesMails', sesInbox', Tried', sesDests')
    BY <1>3, <1>7, <1>8, <1>9 DEF ToldOk
  <1>11. OthersKept(i)
    BY <1>3, <1>6 DEF OthersKept
  <1>12. TellsOf(i, sesMails', sesInbox', Tried')
    <2>1. SentOk(i, sesMails', sesInbox') /\ PublishedOk(i, sesMails', Tried')
      BY <1>2, <1>3, NotDone DEF m
    <2>2. \A k, e : <<i, k, e>> \in Tried' => k \in DOMAIN sesMails'[i].log
      BY <1>2, <1>3, <1>5, <1>6 DEF m
    <2> QED
      BY <2>1, <2>2, <1>2, <1>3 DEF TellsOf, m
  <1>13. sesSend[c].at \in TellStates /\ i = sesSend[c].id /\ x.at \in TellStates
    BY <1>1, <1>4 DEF r, i
  <1> QED
    BY <1>3, <1>4, <1>10, <1>11, <1>12, <1>13, SendTells

LEMMA EventPublishedInv ==
    ASSUME SendInv, NEW c \in SesClients, EventPublished(c)
    PROVE  SendInv'
  <1> DEFINE r == sesSend[c]
             i == r.id
             m == sesMails[i]
             last == Len(m.log)
             told == Head(r.events).type \in {"Bounce", "Complaint"} /\ m.feedback
             x == [r EXCEPT !.at = "record", !.events = Tail(r.events)]
  <1>1. r.at = "publish" /\ r.at \in TellStates /\ r.at \in Half /\ r.to = {}
    BY DEF EventPublished, TellStates, Half
  <1>2. /\ ToldLog(r, sesMails) /\ ToldInbox(r, sesMails, sesInbox)
        /\ ToldTopics(r, sesMails, Tried, sesDests)
        /\ i \in DOMAIN sesMails /\ MailRow(m) /\ m.done = FALSE
        /\ DOMAIN r = {"at", "id", "deliver", "events", "replies", "steady", "to"}
        /\ \A k : <<"feedback", i, k>> \in sesInbox => k \in DOMAIN m.log
        /\ \A k, d : <<i, k, d>> \in Tried => k \in DOMAIN m.log
    BY <1>1, Telling
  <1>3. /\ sesSend' = [sesSend EXCEPT ![c] = x]
        /\ sesDests' = sesDests /\ sesSet' = sesSet /\ sesStray' = sesStray
        /\ sesMails' = sesMails /\ Tried' = Tried
        /\ sesInbox' = IF told THEN sesInbox \cup {<<"feedback", i, last>>} ELSE sesInbox
    BY DEF EventPublished, MailGo, Tried
  <1>4. /\ x.at = "record" /\ x.id = i /\ x.deliver = r.deliver /\ x.events = Tail(r.events)
        /\ x.to = {} /\ x.steady = r.steady /\ DOMAIN x = DOMAIN r
    BY <1>1, <1>2
  <1>5. m.log \in Seq(EventRecords) /\ last \in DOMAIN m.log /\ m.log[last] = Head(r.events)
    <2>1. m.log \in Seq(EventRecords) /\ Len(m.log) >= 1 /\ m.log[Len(m.log)] = Head(r.events)
      BY <1>1, <1>2 DEF ToldLog, MailRow
    <2>2. Len(m.log) \in 1..Len(m.log) /\ DOMAIN m.log = 1..Len(m.log)
      BY <2>1
    <2> QED
      BY <2>1, <2>2
  <1>6. x.at \notin Half /\ x.at \in TellStates /\ x.at # "capture"
    BY <1>4 DEF Half, TellStates
  <1>7. r.events \in Seq(EventRecords) /\ r.events # <<>> /\ Tail(r.events) \in Seq(EventRecords)
    BY <1>1, <1>2 DEF ToldLog
  <1>8. told <=> (m.log[last].type \in {"Bounce", "Complaint"} /\ m.feedback)
    BY <1>5
  <1> HIDE DEF r, x, i, m, last, told
  <1>9. /\ \A j : (<<"copy", j>> \in sesInbox') = (<<"copy", j>> \in sesInbox)
        /\ \A j, k : (<<"feedback", j, k>> \in sesInbox') =
              (<<"feedback", j, k>> \in sesInbox \/ (told /\ j = i /\ k = last))
    BY <1>3
  <1>10. ToldLog(x, sesMails)
    <2>1. Story(m.status, m.log \o Tail(r.events))
      BY <1>1, <1>2 DEF ToldLog, i, m
    <2> QED
      BY <2>1, <1>2, <1>4, <1>6, <1>7 DEF ToldLog, i, m
  <1>11. ToldInbox(x, sesMails, sesInbox')
    <2>1. r.deliver = (HavingIn(m.status, {"delivered", "complained", "delayed"}) # {})
          /\ (<<"copy", i>> \in sesInbox') = (r.at # "capture" /\ r.deliver)
      BY <1>2, <1>9 DEF ToldInbox, i, m
    <2>2. ASSUME NEW k \in DOMAIN m.log
          PROVE  (<<"feedback", i, k>> \in sesInbox') = (m.feedback /\ m.log[k].type \in {"Bounce", "Complaint"})
      <3>1. (<<"feedback", i, k>> \in sesInbox) =
               (m.feedback /\ m.log[k].type \in {"Bounce", "Complaint"} /\ ~(k = last))
        BY <1>1, <1>2 DEF ToldInbox, i, m, last
      <3>2. (<<"feedback", i, k>> \in sesInbox') = (<<"feedback", i, k>> \in sesInbox \/ (told /\ k = last))
        BY <1>9
      <3> QED
        BY <3>1, <3>2, <1>8
    <2>3. (<<"copy", i>> \in sesInbox') = (x.at # "capture" /\ x.deliver)
      BY <2>1, <1>1, <1>4, <1>6
    <2> QED
      BY <2>1, <2>2, <2>3, <1>4, <1>6 DEF ToldInbox, m
  <1>12. ToldTopics(x, sesMails, Tried, sesDests)
    <2>1. r.steady \subseteq DOMAIN sesDests
      BY <1>2 DEF ToldTopics
    <2>2. ASSUME m.cs # None, NEW d \in r.steady
          PROVE  ToldTo(x, m, Tried, d, sesDests[d])
      <3>1. ToldTo(r, m, Tried, d, sesDests[d])
        BY <2>2, <1>2 DEF ToldTopics, i, m
      <3>2. ASSUME NEW k \in DOMAIN m.log
            PROVE  (<<i, k, d>> \in Tried) = EventMatches(sesDests[d], m.log[k].type)
        BY <3>1, <1>1 DEF ToldTo, i, EventMatches
      <3> QED
        BY <3>2, <1>4 DEF ToldTo, EventMatches
    <2> QED
      BY <2>1, <2>2, <1>4 DEF ToldTopics, m
  <1>13. ToldOk(x, sesMails', sesInbox', Tried', sesDests')
    BY <1>3, <1>10, <1>11, <1>12 DEF ToldOk
  <1>14. OthersKept(i)
    BY <1>3, <1>9 DEF OthersKept
  <1>15. TellsOf(i, sesMails', sesInbox', Tried')
    <2>1. SentOk(i, sesMails', sesInbox') /\ PublishedOk(i, sesMails', Tried')
      BY <1>2, <1>3, NotDone DEF m
    <2>2. \A k : <<"feedback", i, k>> \in sesInbox' => k \in DOMAIN sesMails'[i].log
      BY <1>2, <1>3, <1>5, <1>9 DEF m
    <2> QED
      BY <2>1, <2>2, <1>2, <1>3 DEF TellsOf, m
  <1>16. sesSend[c].at \in TellStates /\ i = sesSend[c].id
    BY <1>1 DEF r, i
  <1> QED
    BY <1>3, <1>4, <1>6, <1>13, <1>14, <1>15, <1>16, SendTells

LEMMA FinishSendInv ==
    ASSUME SendInv, NEW c \in SesClients, FinishSend(c)
    PROVE  SendInv'
  <1> DEFINE r == sesSend[c]
             i == r.id
             m == sesMails[i]
             left == Restrict(sesDests, r.steady)
             n == [m EXCEPT !.done = TRUE, !.steady = left]
  <1>1. r.at = "record" /\ r.at \in TellStates /\ r.events = <<>>
    BY DEF FinishSend, TellStates
  <1>2. /\ ToldLog(r, sesMails) /\ ToldInbox(r, sesMails, sesInbox)
        /\ ToldTopics(r, sesMails, Tried, sesDests)
        /\ i \in DOMAIN sesMails /\ MailRow(m) /\ m.done = FALSE
        /\ \A k : <<"feedback", i, k>> \in sesInbox => k \in DOMAIN m.log
        /\ \A k, d : <<i, k, d>> \in Tried => k \in DOMAIN m.log
    BY <1>1, Telling
  <1>3. /\ sesSend' = [sesSend EXCEPT ![c] = SesIdle]
        /\ sesDests' = sesDests /\ sesSet' = sesSet /\ sesStray' = sesStray
        /\ Tried' = Tried
        /\ sesMails' = [sesMails EXCEPT ![i] = n]
        /\ sesInbox' = sesInbox \cup {<<"reply", i, y>> : y \in r.replies}
    BY DEF FinishSend, MailGo, Tried
  <1>4. /\ n.log = m.log /\ n.status = m.status /\ n.done = TRUE /\ n.cs = m.cs
        /\ n.feedback = m.feedback /\ n.steady = left /\ DOMAIN n = DOMAIN m
    BY <1>2 DEF MailRow
  <1>5. sesMails'[i] = n
    BY <1>2, <1>3
  <1>6. \A d \in DOMAIN left : d \in r.steady /\ left[d] = sesDests[d]
    BY DEF Restrict
  <1>7. m.log \o <<>> = m.log
    BY <1>2 DEF MailRow
  <1>8. Story(m.status, m.log)
    BY <1>1, <1>2, <1>7 DEF ToldLog, Half
  <1> HIDE DEF r, i, m, left, n
  <1>9. /\ \A j : (<<"copy", j>> \in sesInbox') = (<<"copy", j>> \in sesInbox)
        /\ \A j, k : (<<"feedback", j, k>> \in sesInbox') = (<<"feedback", j, k>> \in sesInbox)
    BY <1>3
  <1>10. SentOk(i, sesMails', sesInbox')
    <2>1. (<<"copy", i>> \in sesInbox') = (HavingIn(m.status, {"delivered", "complained", "delayed"}) # {})
      <3>1. r.deliver = (HavingIn(m.status, {"delivered", "complained", "delayed"}) # {})
            /\ (<<"copy", i>> \in sesInbox) = (r.at # "capture" /\ r.deliver)
        BY <1>2 DEF ToldInbox, i, m
      <3> QED
        BY <3>1, <1>1, <1>9
    <2>2. ASSUME NEW k \in DOMAIN m.log
          PROVE  (<<"feedback", i, k>> \in sesInbox') = (m.feedback /\ m.log[k].type \in {"Bounce", "Complaint"})
      <3>1. (<<"feedback", i, k>> \in sesInbox) = (m.feedback /\ m.log[k].type \in {"Bounce", "Complaint"})
        BY <1>1, <1>2 DEF ToldInbox, i, m, Half
      <3> QED
        BY <3>1, <1>9
    <2> QED
      BY <2>1, <2>2, <1>4, <1>5, <1>8 DEF SentOk
  <1>11. PublishedOk(i, sesMails', Tried')
    <2> SUFFICES ASSUME m.cs # None, NEW d \in DOMAIN left, NEW k \in DOMAIN m.log
                 PROVE  (<<i, k, d>> \in Tried) = EventMatches(left[d], m.log[k].type)
      BY <1>3, <1>4, <1>5 DEF PublishedOk
    <2>1. d \in r.steady /\ left[d] = sesDests[d]
      BY <1>6
    <2>2. ToldTo(r, m, Tried, d, sesDests[d])
      BY <2>1, <1>2 DEF ToldTopics, i, m
    <2> QED
      BY <2>1, <2>2, <1>1 DEF ToldTo, i, EventMatches
  <1>12. OthersKept(i)
    BY <1>3, <1>9 DEF OthersKept
  <1>13. TellsOf(i, sesMails', sesInbox', Tried')
    <2>1. MailRow(n)
      BY <1>2, <1>4 DEF MailRow
    <2> QED
      BY <2>1, <1>2, <1>3, <1>4, <1>5, <1>9, <1>10, <1>11 DEF TellsOf
  <1>14. sesSend[c].at \in TellStates /\ i = sesSend[c].id
    BY <1>1 DEF r, i
  <1> QED
    BY <1>3, <1>12, <1>13, <1>14, SendTells

LEMMA StoreMessageInv ==
    ASSUME SendInv, NEW c \in SesClients, StoreMessage(c)
    PROVE  SendInv'
  <1> DEFINE r == sesSend[c]
             K == Cardinality(DOMAIN sesMails)
             i == K + 1
             n == [status |-> RecipientStatus(r), log |-> <<>>, done |-> FALSE,
                   cs |-> r.cs, feedback |-> r.feedback, steady |-> <<>>]
             x == [at |-> "capture", id |-> i, deliver |-> DeliversAny(r), events |-> Events(r),
                   replies |-> IF Rejected(r) THEN {} ELSE WithOutcome(r, {"OutOfOffice"}),
                   steady |-> r.steady, to |-> {}]
  <1>1. r.at = "ask"
    BY DEF StoreMessage
  <1>2. Asking(r, sesDests)
    BY <1>1 DEF SendInv, SendRequest, Asking, SesIdle, TellStates
  <1>3. /\ sesMails' = [y \in DOMAIN sesMails \cup {i} |-> IF y = i THEN n ELSE sesMails[y]]
        /\ sesSend' = [sesSend EXCEPT ![c] = x]
        /\ sesDests' = sesDests /\ sesSet' = sesSet /\ sesStray' = sesStray
        /\ sesInbox' = sesInbox /\ Tried' = Tried
    BY DEF StoreMessage, MailGo, Put, Tried
  <1>4. K \in Nat /\ DOMAIN sesMails = 1..K /\ i \notin DOMAIN sesMails
    BY DEF SendInv
  <1>5. /\ DOMAIN n = {"status", "log", "done", "cs", "feedback", "steady"}
        /\ n.status = RecipientStatus(r) /\ n.log = <<>> /\ n.done = FALSE
    OBVIOUS
  <1>6. /\ DOMAIN x = {"at", "id", "deliver", "events", "replies", "steady", "to"}
        /\ x.at = "capture" /\ x.id = i /\ x.deliver = DeliversAny(r) /\ x.events = Events(r)
        /\ x.steady = r.steady /\ x.to = {}
    OBVIOUS
  <1> HIDE DEF r, x, n
  <1>7. /\ Events(r) \in Seq(EventRecords) /\ Story(RecipientStatus(r), Events(r))
        /\ DeliversAny(r) = (HavingIn(RecipientStatus(r), {"delivered", "complained", "delayed"}) # {})
    BY <1>2, EventsTell DEF Asking
  <1>8. DOMAIN sesMails' = 1..i /\ Cardinality(DOMAIN sesMails') = i /\ i \in Nat
    <2>1. DOMAIN sesMails' = 1..i /\ i \in Nat
      BY <1>3, <1>4
    <2>2. 1 \in Int /\ i \in Int /\ ~(1 > i) /\ i - 1 + 1 = i
      BY <2>1, <1>4
    <2>3. Cardinality(1..i) = i
      BY <2>2, FS_Interval
    <2> QED
      BY <2>1, <2>3
  <1> HIDE DEF i, K
  <1>9. sesMails'[i] = n /\ \A j \in DOMAIN sesMails : sesMails'[j] = sesMails[j] /\ j # i
    BY <1>3, <1>4
  <1>10. /\ <<"copy", i>> \notin sesInbox
         /\ \A j, k : <<"feedback", j, k>> \in sesInbox => j \in DOMAIN sesMails /\ k \in DOMAIN sesMails[j].log
         /\ \A j, k, d : <<j, k, d>> \in Tried => j \in DOMAIN sesMails /\ k \in DOMAIN sesMails[j].log
         /\ \A j : <<"copy", j>> \in sesInbox => j \in DOMAIN sesMails
    BY <1>4 DEF SendInv, MarksOf
  <1>11. MarksOf(sesMails', sesInbox', Tried')
    BY <1>3, <1>9, <1>10 DEF MarksOf
  <1>12. ASSUME NEW j \in DOMAIN sesMails'
         PROVE  MailRow(sesMails'[j]) /\ SentOk(j, sesMails', sesInbox') /\ PublishedOk(j, sesMails', Tried')
    <2>1. CASE j = i
      <3>1. MailRow(n)
        BY <1>5 DEF MailRow
      <3> QED
        BY <2>1, <3>1, <1>5, <1>9, NotDone
    <2>2. CASE j \in DOMAIN sesMails
      <3>1. /\ sesMails'[j] = sesMails[j] /\ MailRow(sesMails[j]) /\ SentOk(j, sesMails, sesInbox)
            /\ PublishedOk(j, sesMails, Tried)
        BY <2>2, <1>9 DEF SendInv
      <3>2. SentOk(j, sesMails', sesInbox')
        BY <3>1, <1>3 DEF SentOk
      <3>3. PublishedOk(j, sesMails', Tried')
        BY <3>1, <1>3 DEF PublishedOk
      <3> QED
        BY <3>1, <3>2, <3>3
    <2> QED
      BY <2>1, <2>2, <1>3
  <1>13. ToldOk(x, sesMails', sesInbox', Tried', sesDests')
    <2>1. ToldLog(x, sesMails')
      <3>1. <<>> \o Events(r) = Events(r)
        BY <1>7
      <3>2. x.at \notin Half /\ x.id \in DOMAIN sesMails'
        BY <1>3, <1>6 DEF Half
      <3>3. sesMails'[x.id] = n /\ x.events \in Seq(EventRecords)
        BY <1>6, <1>7, <1>9
      <3>4. Story(n.status, n.log \o x.events)
        BY <3>1, <1>5, <1>6, <1>7
      <3> QED
        BY <3>2, <3>3, <3>4, <1>5, <1>6 DEF ToldLog
    <2>2. ToldInbox(x, sesMails', sesInbox')
      <3>1. (<<"copy", i>> \in sesInbox') = FALSE /\ DOMAIN n.log = {}
        BY <1>3, <1>5, <1>10
      <3>2. (x.at # "capture" /\ x.deliver) = FALSE
        BY <1>6
      <3> QED
        BY <3>1, <3>2, <1>5, <1>6, <1>7, <1>9 DEF ToldInbox
    <2>3. ToldTopics(x, sesMails', Tried', sesDests')
      <3>1. r.steady \subseteq DOMAIN sesDests /\ DOMAIN n.log = {}
        BY <1>2, <1>5 DEF Asking
      <3>2. ASSUME NEW d PROVE ToldTo(x, n, Tried', d, sesDests[d])
        BY <3>1, <1>6 DEF ToldTo
      <3> QED
        BY <3>1, <3>2, <1>3, <1>6, <1>9 DEF ToldTopics
    <2> QED
      BY <2>1, <2>2, <2>3 DEF ToldOk
  <1>14. ASSUME NEW d \in SesClients
         PROVE  /\ SendRequest(sesSend'[d], sesMails', sesInbox', Tried', sesDests')
                /\ d # c => sesSend'[d] = sesSend[d]
                /\ d # c /\ sesSend[d].at \in TellStates => sesSend[d].id \in DOMAIN sesMails
    <2>1. CASE d = c
      BY <2>1, <1>3, <1>6, <1>13 DEF SendInv, SendRequest, TellStates
    <2>2. CASE d # c
      <3> DEFINE q == sesSend[d]
      <3>1. sesSend'[d] = q /\ SendRequest(q, sesMails, sesInbox, Tried, sesDests)
        BY <2>2, <1>3 DEF SendInv
      <3>2. CASE q.at \in TellStates
        <4>1. /\ ToldLog(q, sesMails) /\ ToldInbox(q, sesMails, sesInbox)
              /\ ToldTopics(q, sesMails, Tried, sesDests) /\ q.id \in DOMAIN sesMails
          BY <3>2, Telling
        <4>2. sesMails'[q.id] = sesMails[q.id] /\ q.id \in DOMAIN sesMails'
          BY <4>1, <1>3, <1>9
        <4> HIDE DEF q
        <4>3. ToldLog(q, sesMails')
          BY <4>1, <4>2 DEF ToldLog
        <4>4. ToldInbox(q, sesMails', sesInbox')
          BY <4>1, <4>2, <1>3 DEF ToldInbox
        <4>5. ToldTopics(q, sesMails', Tried', sesDests')
          BY <4>1, <4>2, <1>3 DEF ToldTopics
        <4> QED
          BY <3>1, <3>2, <4>1, <4>3, <4>4, <4>5, <2>2 DEF SendRequest, ToldOk, q
      <3>3. CASE q.at \notin TellStates
        BY <3>1, <3>3, <1>3 DEF SendRequest
      <3> QED
        BY <3>2, <3>3
    <2> QED
      BY <2>1, <2>2
  <1>15. \A d, e \in SesClients : d # e /\ sesSend'[d].at \in TellStates /\ sesSend'[e].at \in TellStates
            => sesSend'[d].id # sesSend'[e].id
    <2>1. sesSend'[c].id = i
      BY <1>3, <1>6 DEF SendInv
    <2> QED
      BY <2>1, <1>14, <1>9 DEF SendInv
  <1>16. DestinationsHaveSet' /\ DOMAIN sesSend' = SesClients
    BY <1>3 DEF SendInv, DestinationsHaveSet
  <1> QED
    BY <1>8, <1>11, <1>12, <1>14, <1>15, <1>16 DEF SendInv

\* Nothing that a send has left changes.
LEMMA SendStill ==
    ASSUME SendInv, sesSend' = sesSend, sesMails' = sesMails, sesInbox' = sesInbox,
           Tried' = Tried, sesDests' = sesDests, DestinationsHaveSet'
    PROVE  SendInv'
  BY DEF SendInv

\* The checks: of the account, of the addresses, of the set and of the suppression list.
LEMMA SendChecksInv ==
    ASSUME SendInv, NEW c \in SesClients,
           \/ TryCandidate(c) \/ CandidateLoaded(c) \/ NoCandidate(c) \/ RequireSet(c)
           \/ \E y \in Plain : AskSuppressed(c, y)
           \/ \E rcpts \in RecipientSets, cs \in {None, ConfigurationSet}, feedback \in BOOLEAN :
                 SendEmail(c, rcpts, cs, feedback)
           \/ \E d \in Destinations, row \in DestinationRows : CheckDestination(c, d, row)
    PROVE  SendInv'
  <1> DEFINE r == sesSend[c]
  <1>0. /\ sesMails' = sesMails /\ sesInbox' = sesInbox /\ Tried' = Tried
        /\ sesDests' = sesDests /\ sesStray' = sesStray /\ sesSet' = sesSet
    BY DEF TryCandidate, CandidateLoaded, NoCandidate, RequireSet, AskSuppressed, SendEmail,
           CheckDestination, Tried
  <1>1. ASSUME NEW x, sesSend' = [sesSend EXCEPT ![c] = x],
               \/ x = SesIdle
               \/ x.at = "destination" /\ DOMAIN x = {"at", "name", "row"}
               \/ Asking(x, sesDests)
        PROVE  SendInv'
    BY <1>0, <1>1, SendQuiet
  <1>2. r.at \in {"verify", "set", "ask"} => Asking(r, sesDests)
    BY DEF SendInv, SendRequest, Asking, SesIdle, TellStates
  <1>3. ASSUME NEW x, Asking(r, sesDests), DOMAIN x = DOMAIN r, x.at \in {"verify", "set", "ask"},
               x.rcpts = r.rcpts, x.steady = r.steady
        PROVE  Asking(x, sesDests)
    BY <1>3 DEF Asking
  <1>4. ASSUME Asking(r, sesDests), r.at = "verify" PROVE Asking(NextAddress(r), sesDests)
    <2>1. DOMAIN r = {"at", "rcpts", "cs", "feedback", "verify", "candidates", "ask", "suppressed", "steady"}
      BY <1>4 DEF Asking
    <2> DEFINE y == [r EXCEPT !.at = "set"]
               z == [r EXCEPT !.verify = Tail(r.verify), !.candidates = Candidates[r.verify[2]]]
    <2>2. NextAddress(r) = IF Len(r.verify) = 1 THEN y ELSE z
      BY DEF NextAddress
    <2>3. DOMAIN y = DOMAIN r /\ y.at = "set" /\ y.rcpts = r.rcpts /\ y.steady = r.steady
      BY <2>1
    <2>4. DOMAIN z = DOMAIN r /\ z.at = "verify" /\ z.rcpts = r.rcpts /\ z.steady = r.steady
      BY <2>1, <1>4
    <2> HIDE DEF y, z
    <2>5. Asking(y, sesDests) /\ Asking(z, sesDests)
      BY <2>3, <2>4, <1>3, <1>4
    <2> QED
      BY <2>2, <2>5
  <1>5. ASSUME Asking(r, sesDests), r.at = "verify"
        PROVE  Asking([r EXCEPT !.candidates = Tail(r.candidates)], sesDests)
    <2> DEFINE z == [r EXCEPT !.candidates = Tail(r.candidates)]
    <2>1. DOMAIN r = {"at", "rcpts", "cs", "feedback", "verify", "candidates", "ask", "suppressed", "steady"}
      BY <1>5 DEF Asking
    <2>2. DOMAIN z = DOMAIN r /\ z.at = "verify" /\ z.rcpts = r.rcpts /\ z.steady = r.steady
      BY <2>1, <1>5
    <2> HIDE DEF z
    <2>3. Asking(z, sesDests)
      BY <2>2, <1>3, <1>5
    <2> QED
      BY <2>3 DEF z
  <1>6. CASE TryCandidate(c)
    <2>1. r.at = "verify" /\ (sesSend' = sesSend \/
             sesSend' = [sesSend EXCEPT ![c] = [r EXCEPT !.candidates = Tail(r.candidates)]])
      BY <1>6 DEF TryCandidate, MailGo
    <2>2. CASE sesSend' = sesSend
      <3>1. DestinationsHaveSet'
        BY <1>0 DEF SendInv, DestinationsHaveSet
      <3> QED
        BY <2>2, <3>1, <1>0, SendStill
    <2>3. CASE sesSend' = [sesSend EXCEPT ![c] = [r EXCEPT !.candidates = Tail(r.candidates)]]
      BY <2>1, <2>3, <1>1, <1>2, <1>5
    <2> QED
      BY <2>1, <2>2, <2>3
  <1>7. CASE CandidateLoaded(c)
    <2>1. r.at = "verify" /\ (sesSend' = [sesSend EXCEPT ![c] = NextAddress(r)] \/
             sesSend' = [sesSend EXCEPT ![c] = [r EXCEPT !.candidates = Tail(r.candidates)]])
      BY <1>7 DEF CandidateLoaded, MailGo
    <2> QED
      BY <2>1, <1>1, <1>2, <1>4, <1>5
  <1>8. CASE NoCandidate(c)
    <2>1. r.at = "verify" /\ (sesSend' = [sesSend EXCEPT ![c] = NextAddress(r)] \/
             sesSend' = [sesSend EXCEPT ![c] = SesIdle])
      BY <1>8 DEF NoCandidate, MailGo
    <2> QED
      BY <2>1, <1>1, <1>2, <1>4
  <1>9. CASE RequireSet(c)
    <2> DEFINE z == [r EXCEPT !.at = "ask"]
    <2>1. r.at = "set" /\ (sesSend' = [sesSend EXCEPT ![c] = z] \/ sesSend' = [sesSend EXCEPT ![c] = SesIdle])
      BY <1>9 DEF RequireSet, MailGo
    <2>2. Asking(r, sesDests)
      BY <2>1, <1>2
    <2>3. DOMAIN z = DOMAIN r /\ z.at = "ask" /\ z.rcpts = r.rcpts /\ z.steady = r.steady
      BY <2>2 DEF Asking
    <2> HIDE DEF z
    <2>4. Asking(z, sesDests)
      BY <2>2, <2>3, <1>3
    <2> QED
      BY <2>1, <2>4, <1>1
  <1>10. CASE \E y \in Plain : AskSuppressed(c, y)
    <2> PICK y \in Plain : AskSuppressed(c, y)
      BY <1>10
    <2> DEFINE z == [r EXCEPT !.ask = r.ask \ {y},
                              !.suppressed = IF y \in sesSuppressed THEN r.suppressed \cup {y} ELSE r.suppressed]
    <2>1. r.at = "ask" /\ sesSend' = [sesSend EXCEPT ![c] = z]
      BY DEF AskSuppressed, MailGo
    <2>2. Asking(r, sesDests)
      BY <2>1, <1>2
    <2>3. DOMAIN z = DOMAIN r /\ z.at = "ask" /\ z.rcpts = r.rcpts /\ z.steady = r.steady
      BY <2>1, <2>2 DEF Asking
    <2> HIDE DEF z
    <2>4. Asking(z, sesDests)
      BY <2>2, <2>3, <1>3
    <2> QED
      BY <2>1, <2>4, <1>1
  <1>11. CASE \E rcpts \in RecipientSets, cs \in {None, ConfigurationSet}, feedback \in BOOLEAN :
                 SendEmail(c, rcpts, cs, feedback)
    <2> PICK rcpts \in RecipientSets, cs \in {None, ConfigurationSet}, feedback \in BOOLEAN :
                 SendEmail(c, rcpts, cs, feedback)
      BY <1>11
    <2> DEFINE verify == IF sesAccount.production THEN <<Sender>>
                         ELSE <<Sender>> \o SetToSeq(rcpts \cap Plain)
               z == [at |-> "verify", rcpts |-> rcpts, cs |-> cs, feedback |-> feedback,
                     verify |-> verify, candidates |-> Candidates[Sender],
                     ask |-> rcpts \cap Plain, suppressed |-> {}, steady |-> DOMAIN sesDests]
    <2>1. sesSend' = [sesSend EXCEPT ![c] = z]
      BY DEF SendEmail, MailGo
    <2> HIDE DEF verify
    <2>2. Asking(z, sesDests)
      BY DEF Asking
    <2> HIDE DEF z
    <2> QED
      BY <2>1, <2>2, <1>1
  <1>12. CASE \E d \in Destinations, row \in DestinationRows : CheckDestination(c, d, row)
    <2> PICK d \in Destinations, row \in DestinationRows : CheckDestination(c, d, row)
      BY <1>12
    <2> DEFINE z == [at |-> "destination", name |-> d, row |-> row]
    <2>1. sesSend' = [sesSend EXCEPT ![c] = z]
      BY DEF CheckDestination, MailGo
    <2>2. z.at = "destination" /\ DOMAIN z = {"at", "name", "row"}
      OBVIOUS
    <2> HIDE DEF z
    <2> QED
      BY <2>1, <2>2, <1>1
  <1> QED
    BY <1>6, <1>7, <1>8, <1>9, <1>10, <1>11, <1>12

\* Changes of the account, of the suppression list, of the set and of its destinations.
LEMMA AdministerInv ==
    ASSUME SendInv, Administer
    PROVE  SendInv'
  <1>1. CASE (\E sending, production \in BOOLEAN : SetAccount(sending, production))
             \/ (\E x \in Plain, put \in BOOLEAN : PutSuppressed(x, put)) \/ CreateConfigurationSet
    <2>1. /\ sesSend' = sesSend /\ sesMails' = sesMails /\ sesInbox' = sesInbox /\ Tried' = Tried
          /\ sesDests' = sesDests /\ sesStray' = sesStray /\ (sesSet' = sesSet \/ sesSet' = TRUE)
      BY <1>1 DEF SetAccount, PutSuppressed, CreateConfigurationSet, Tried
    <2>2. DestinationsHaveSet'
      BY <2>1 DEF SendInv, DestinationsHaveSet
    <2> QED
      BY <2>1, <2>2, SendStill
  <1>2. CASE DeleteConfigurationSet
    <2>1. /\ sesSend' = Unsteady(DOMAIN sesDests) /\ DOMAIN sesDests' = {}
          /\ sesMails' = sesMails /\ sesInbox' = sesInbox /\ Tried' = Tried
      BY <1>2 DEF DeleteConfigurationSet, DestinationsOfSet, Restrict, Tried
    <2>2. DestinationsHaveSet' /\ DOMAIN sesSend' = SesClients
      BY <2>1 DEF DestinationsHaveSet, Unsteady
    <2> QED
      BY <2>1, <2>2, SendUnsteadied
  <1>3. ASSUME NEW d \in Destinations, DeleteDestination(d) PROVE SendInv'
    <2>1. /\ sesSend' = Unsteady({d}) /\ sesSet /\ sesSet' = sesSet
          /\ sesDests' = Restrict(sesDests, DOMAIN sesDests \ {d})
          /\ sesMails' = sesMails /\ sesInbox' = sesInbox /\ Tried' = Tried
      BY <1>3 DEF DeleteDestination, Tried
    <2>2. DestinationsHaveSet' /\ DOMAIN sesSend' = SesClients
      BY <2>1 DEF DestinationsHaveSet, Unsteady
    <2>3. \A e \in DOMAIN sesDests \ {d} : e \in DOMAIN sesDests' /\ sesDests'[e] = sesDests[e]
      BY <2>1 DEF Restrict
    <2> DEFINE names == {d}
    <2>4. {} \in SUBSET SesClients /\ \A c \in SesClients \ {} : sesSend'[c] = Unsteady(names)[c]
      BY <2>1
    <2>5. \A e \in DOMAIN sesDests \ names : e \in DOMAIN sesDests' /\ sesDests'[e] = sesDests[e]
      BY <2>3
    <2>6. sesMails' = sesMails /\ sesInbox' = sesInbox /\ Tried' = Tried
      BY <2>1
    <2> HIDE DEF names
    <2> QED
      BY <2>2, <2>4, <2>5, <2>6, SendUnsteadied
  <1>4. ASSUME NEW c \in SesClients, WriteDestination(c) PROVE SendInv'
    <2> DEFINE d == sesSend[c].name
    <2>1. /\ sesSend' = [Unsteady({d}) EXCEPT ![c] = SesIdle] /\ sesSet' = sesSet
          /\ sesDests' = Put(sesDests, d, sesSend[c].row)
          /\ sesStray' = (IF sesSet THEN sesStray \ {d} ELSE sesStray \cup {d})
          /\ sesMails' = sesMails /\ sesInbox' = sesInbox /\ Tried' = Tried
      BY <1>4 DEF WriteDestination, Tried
    <2> HIDE DEF d
    <2>2. DOMAIN sesDests' = DOMAIN sesDests \cup {d}
          /\ \A e \in DOMAIN sesDests \ {d} : e \in DOMAIN sesDests' /\ sesDests'[e] = sesDests[e]
      BY <2>1 DEF Put
    <2>3. DestinationsHaveSet'
      BY <2>1, <2>2 DEF SendInv, DestinationsHaveSet
    <2>4. /\ DOMAIN sesSend' = SesClients /\ sesSend'[c] = SesIdle
          /\ \A b \in SesClients \ {c} : sesSend'[b] = Unsteady({d})[b]
      BY <2>1 DEF Unsteady
    <2>5. {c} \in SUBSET SesClients /\ \A b \in {c} : sesSend'[b] = SesIdle
      BY <2>4
    <2> DEFINE names == {d}
               S == {c}
    <2>6. \A b \in SesClients \ S : sesSend'[b] = Unsteady(names)[b]
      BY <2>4
    <2>7. \A e \in DOMAIN sesDests \ names : e \in DOMAIN sesDests' /\ sesDests'[e] = sesDests[e]
      BY <2>2
    <2>8. sesMails' = sesMails /\ sesInbox' = sesInbox /\ Tried' = Tried
      BY <2>1
    <2>9. S \in SUBSET SesClients /\ (\A b \in S : sesSend'[b] = SesIdle) /\ DOMAIN sesSend' = SesClients
      BY <2>4, <2>5
    <2> HIDE DEF names, S
    <2> QED
      BY <2>3, <2>6, <2>7, <2>8, <2>9, SendUnsteadied
  <1>5. ASSUME NEW c \in SesClients, NEW d \in Destinations, NEW row \in DestinationRows,
               CheckDestination(c, d, row)
        PROVE  SendInv'
    BY <1>5, SendChecksInv
  <1>6. CASE CrashInDeleteConfigurationSet
    <2>1. /\ sesSend' = [c \in SesClients |-> SesIdle] /\ sesDests' = sesDests
          /\ sesStray' = sesStray \cup DOMAIN sesDests
          /\ sesMails' = sesMails /\ sesInbox' = sesInbox /\ Tried' = Tried
      BY <1>6 DEF CrashInDeleteConfigurationSet, Tried
    <2>2. DestinationsHaveSet'
      BY <2>1 DEF DestinationsHaveSet
    <2>3. SesClients \in SUBSET SesClients /\ \A c \in SesClients : sesSend'[c] = SesIdle
      BY <2>1
    <2>4. \A c \in SesClients \ SesClients : sesSend'[c] = Unsteady({})[c]
      OBVIOUS
    <2>5. \A d \in DOMAIN sesDests \ {} : d \in DOMAIN sesDests' /\ sesDests'[d] = sesDests[d]
      BY <2>1
    <2> QED
      BY <2>1, <2>2, <2>3, <2>4, <2>5, SendUnsteadied
  <1> QED
    BY <1>1, <1>2, <1>3, <1>4, <1>5, <1>6 DEF Administer

LEMMA CrashSendingInv ==
    ASSUME SendInv, CrashSending
    PROVE  SendInv'
  <1>1. /\ sesSend' = [c \in SesClients |-> SesIdle] /\ sesDests' = sesDests /\ sesSet' = sesSet
        /\ sesStray' = sesStray /\ sesMails' = sesMails /\ sesInbox' = sesInbox /\ Tried' = Tried
    BY DEF CrashSending, Tried
  <1>2. DestinationsHaveSet'
    BY <1>1 DEF SendInv, DestinationsHaveSet
  <1>3. SesClients \in SUBSET SesClients /\ \A c \in SesClients : sesSend'[c] = SesIdle
    BY <1>1
  <1>4. \A c \in SesClients \ SesClients : sesSend'[c] = Unsteady({})[c]
    OBVIOUS
  <1>5. \A d \in DOMAIN sesDests \ {} : d \in DOMAIN sesDests' /\ sesDests'[d] = sesDests[d]
    BY <1>1
  <1> QED
    BY <1>1, <1>2, <1>3, <1>4, <1>5, SendUnsteadied

LEMMA SendNextInv == SendInv /\ [SesNext]_<<sesIdVars, sesSendVars>> => SendInv'
  <1> SUFFICES ASSUME SendInv, [SesNext]_<<sesIdVars, sesSendVars>> PROVE SendInv'
    OBVIOUS
  <1>1. ASSUME UNCHANGED sesSendVars PROVE SendInv'
    <2>1. /\ sesSend' = sesSend /\ sesMails' = sesMails /\ sesInbox' = sesInbox /\ Tried' = Tried
          /\ sesDests' = sesDests /\ sesStray' = sesStray /\ sesSet' = sesSet
      BY <1>1 DEF sesSendVars, Tried
    <2>2. DestinationsHaveSet'
      BY <2>1 DEF SendInv, DestinationsHaveSet
    <2> QED
      BY <2>1, <2>2, SendStill
  <1>2. ASSUME NEW c \in SesClients, Send(c) PROVE SendInv'
    <2>1. CASE \/ TryCandidate(c) \/ CandidateLoaded(c) \/ NoCandidate(c) \/ RequireSet(c)
               \/ \E y \in Plain : AskSuppressed(c, y)
               \/ \E rcpts \in RecipientSets, cs \in {None, ConfigurationSet}, feedback \in BOOLEAN :
                     SendEmail(c, rcpts, cs, feedback)
      BY <2>1, SendChecksInv
    <2>2. CASE StoreMessage(c)
      BY <2>2, StoreMessageInv
    <2>3. CASE CaptureCopy(c)
      BY <2>3, CaptureCopyInv
    <2>4. CASE RecordEvent(c)
      BY <2>4, RecordEventInv
    <2>5. CASE ReadDestinations(c)
      BY <2>5, ReadDestinationsInv
    <2>6. CASE \E d \in Destinations : PublishTo(c, d)
      BY <2>6, PublishToInv
    <2>7. CASE EventPublished(c)
      BY <2>7, EventPublishedInv
    <2>8. CASE FinishSend(c)
      BY <2>8, FinishSendInv
    <2>9. CASE UNCHANGED sesSendVars
      BY <2>9, <1>1
    <2> QED
      BY <1>2, <2>1, <2>2, <2>3, <2>4, <2>5, <2>6, <2>7, <2>8, <2>9 DEF Send
  <1>3. CASE CrashSending
    BY <1>3, CrashSendingInv
  <1>4. CASE Administer
    BY <1>4, AdministerInv
  <1> QED
    BY <1>1, <1>2, <1>3, <1>4 DEF SesNext, SesSendingNext

\* What SendEmail stored of a message, the events it recorded and published and what it
\* left in the mailbox tell the same story, and the event destinations that were there
\* throughout were served with what they want, whatever became of the configuration set, of
\* other event destinations and of other publishes meanwhile.
THEOREM SendsAreTraced == SesSpec => []SendsTraced
  <1>1. SesIdentitiesInit /\ SesSendingInit => SendInv
    BY SendInitInv
  <1> QED
    BY <1>1, SendNextInv, SendImplies, PTL DEF SesSpec

-----------------------------------------------------------------------------
(* SES receiving *)

\* A rule as the table has it, and the requests that write a list of rules.
RuleRecords == [name : RuleNames, enabled : BOOLEAN, rcpts : SUBSET Addresses, stop : BOOLEAN]

RuleKinds == {"create", "update", "delete", "position", "reorder", "clone"}

\* The first rule of a name, if there is one.
LEMMA PositionFacts ==
    ASSUME NEW rules \in Seq(RuleRecords), NEW name
    PROVE  /\ PositionOf(rules, name) \in 0..Len(rules)
           /\ name \in Names(rules) <=> PositionOf(rules, name) # 0
           /\ PositionOf(rules, name) # 0 =>
                 PositionOf(rules, name) \in 1..Len(rules) /\ rules[PositionOf(rules, name)].name = name
  <1> DEFINE I == {i \in 1..Len(rules) : rules[i].name = name}
  <1>1. PositionOf(rules, name) = IF I # {} THEN Min(I) ELSE 0
    BY DEF PositionOf, SelectInSeq
  <1>2. Len(rules) \in Nat /\ DOMAIN rules = 1..Len(rules)
    OBVIOUS
  <1>3. I # {} => Min(I) \in I
    <2> SUFFICES ASSUME I # {} PROVE Min(I) \in I
      OBVIOUS
    <2>1. I \subseteq Nat
      BY <1>2
    <2> HIDE DEF I
    <2>2. \E x \in I : \A y \in I : x <= y
      BY <2>1, LeastNat
    <2> QED
      BY <2>2 DEF Min
  <1>4. name \in Names(rules) <=> I # {}
    BY <1>2 DEF Names
  <1>5. CASE I = {}
    BY <1>1, <1>2, <1>4, <1>5
  <1>6. CASE I # {}
    <2>1. PositionOf(rules, name) \in I
      BY <1>1, <1>3, <1>6
    <2> HIDE DEF PositionOf
    <2>2. PositionOf(rules, name) \in 1..Len(rules) /\ rules[PositionOf(rules, name)].name = name
      BY <2>1
    <2> QED
      BY <1>2, <1>4, <1>6, <2>2
  <1> QED
    BY <1>5, <1>6

\* Where a rule is placed.
LEMMA PlaceFacts ==
    ASSUME NEW rules \in Seq(RuleRecords), NEW after, Place(rules, after) # 0
    PROVE  Place(rules, after) \in 1..Len(rules) + 1
  <1>1. Len(rules) \in Nat
    OBVIOUS
  <1>2. PositionOf(rules, after) \in 0..Len(rules)
    BY PositionFacts
  <1> QED
    BY <1>1, <1>2 DEF Place

\* A rule that is put in.
LEMMA InsertFacts ==
    ASSUME NEW rules \in Seq(RuleRecords), NEW i \in 1..Len(rules) + 1, NEW x \in RuleRecords
    PROVE  /\ InsertAt(rules, i, x) \in Seq(RuleRecords)
           /\ Names(InsertAt(rules, i, x)) = Names(rules) \cup {x.name}
           /\ Distinct(rules) /\ x.name \notin Names(rules) => Distinct(InsertAt(rules, i, x))
  <1> DEFINE n == Len(rules)
             t == InsertAt(rules, i, x)
  <1>1. n \in Nat /\ DOMAIN rules = 1..n /\ i \in Nat /\ 1 <= i /\ i <= n + 1
    OBVIOUS
  <1>2. /\ t \in Seq(RuleRecords) /\ Len(t) = n + 1
        /\ \A j \in 1..n + 1 : t[j] = IF j < i THEN rules[j] ELSE IF j = i THEN x ELSE rules[j - 1]
    <2> DEFINE u == SubSeq(rules, 1, i - 1)
               v == SubSeq(rules, i, n)
    <2>1. /\ u \in Seq(RuleRecords) /\ Len(u) = i - 1 /\ \A j \in 1..i - 1 : u[j] = rules[j]
      BY <1>1
    <2>2. /\ v \in Seq(RuleRecords) /\ Len(v) = n - i + 1 /\ \A j \in 1..n - i + 1 : v[j] = rules[i + j - 1]
      BY <1>1
    <2>3. t = (u \o <<x>>) \o v
      BY DEF InsertAt
    <2> HIDE DEF u, v, t, n
    <2> DEFINE w == u \o <<x>>
    <2>4. /\ w \in Seq(RuleRecords) /\ Len(w) = i /\ w[i] = x /\ \A j \in 1..i - 1 : w[j] = rules[j]
      BY <1>1, <2>1
    <2> HIDE DEF w
    <2>5. t = w \o v
      BY <2>3 DEF w
    <2>6. t \in Seq(RuleRecords) /\ Len(t) = n + 1
      BY <1>1, <2>2, <2>4, <2>5
    <2>7. ASSUME NEW j \in 1..n + 1
          PROVE  t[j] = IF j < i THEN rules[j] ELSE IF j = i THEN x ELSE rules[j - 1]
      <3>0. (j <= i => t[j] = w[j]) /\ (j > i => t[j] = v[j - i])
        <4>1. (w \o v)[j] = IF j <= Len(w) THEN w[j] ELSE v[j - Len(w)]
          BY <1>1, <2>2, <2>4, ConcatProperties
        <4> QED
          BY <1>1, <2>4, <2>5, <4>1
      <3>1. CASE j < i
        <4>1. j \in 1..i - 1 /\ j <= i
          BY <1>1, <3>1
        <4> QED
          BY <2>4, <3>0, <3>1, <4>1
      <3>2. CASE j = i
        BY <1>1, <2>4, <3>0, <3>2
      <3>3. CASE j > i
        <4>1. j - i \in 1..n - i + 1 /\ i + (j - i) - 1 = j - 1
          BY <1>1, <3>3
        <4>2. t[j] = v[j - i]
          BY <3>0, <3>3
        <4> QED
          BY <1>1, <2>2, <3>3, <4>1, <4>2
      <3> QED
        BY <1>1, <3>1, <3>2, <3>3
    <2> QED
      BY <2>6, <2>7
  <1>3. DOMAIN t = 1..n + 1
    BY <1>2
  <1> HIDE DEF t, n
  <1>4. \A j \in 1..n : \E k \in 1..n + 1 : t[k] = rules[j]
    <2> TAKE j \in 1..n
    <2>1. CASE j < i
      BY <1>1, <1>2, <2>1
    <2>2. CASE j >= i
      <3>1. j + 1 \in 1..n + 1 /\ ~(j + 1 < i) /\ j + 1 # i /\ (j + 1) - 1 = j
        BY <1>1, <2>2
      <3> QED
        BY <1>2, <3>1
    <2> QED
      BY <1>1, <2>1, <2>2
  <1>5. \A k \in 1..n + 1 : t[k] = x \/ \E j \in 1..n : t[k] = rules[j]
    BY <1>1, <1>2
  <1>6. \E k \in 1..n + 1 : t[k] = x
    BY <1>1, <1>2
  <1>7. Names(t) = Names(rules) \cup {x.name}
    <2>1. ASSUME NEW y \in Names(t) PROVE y \in Names(rules) \cup {x.name}
      <3>1. PICK k \in 1..n + 1 : y = t[k].name
        BY <1>3, <2>1 DEF Names
      <3> QED
        BY <1>1, <1>5, <3>1 DEF Names
    <2>2. ASSUME NEW y \in Names(rules) PROVE y \in Names(t)
      <3>1. PICK j \in 1..n : y = rules[j].name
        BY <1>1, <2>2 DEF Names
      <3>2. PICK k \in 1..n + 1 : t[k] = rules[j]
        BY <1>4
      <3> QED
        BY <1>3, <3>1, <3>2 DEF Names
    <2>3. x.name \in Names(t)
      <3>1. PICK k \in 1..n + 1 : t[k] = x
        BY <1>6
      <3> QED
        BY <1>3, <3>1 DEF Names
    <2> QED
      BY <2>1, <2>2, <2>3
  <1>8. ASSUME Distinct(rules), x.name \notin Names(rules) PROVE Distinct(t)
    <2>1. \A j \in 1..n : rules[j].name # x.name
      BY <1>1, <1>8 DEF Names
    <2>2. ASSUME NEW j \in 1..n + 1, NEW k \in 1..n + 1, t[j].name = t[k].name PROVE j = k
      <3>1. ASSUME NEW m \in 1..n + 1, m # i
            PROVE  \E q \in 1..n : t[m] = rules[q] /\ q = IF m < i THEN m ELSE m - 1
        BY <1>1, <1>2, <3>1
      <3>2. CASE j = i \/ k = i
        BY <1>1, <1>2, <2>1, <2>2, <3>1, <3>2
      <3>3. CASE j # i /\ k # i
        <4>1. PICK q \in 1..n : t[j] = rules[q] /\ q = IF j < i THEN j ELSE j - 1
          BY <3>1, <3>3
        <4>2. PICK p \in 1..n : t[k] = rules[p] /\ p = IF k < i THEN k ELSE k - 1
          BY <3>1, <3>3
        <4>3. q = p
          BY <1>1, <1>8, <2>2, <4>1, <4>2 DEF Distinct
        <4> QED
          BY <1>1, <3>3, <4>1, <4>2, <4>3
      <3> QED
        BY <3>2, <3>3
    <2> QED
      BY <1>3, <2>2 DEF Distinct
  <1> QED
    BY <1>2, <1>7, <1>8 DEF t

\* A list without the rule of a name.
LEMMA WithoutFacts ==
    ASSUME NEW rules \in Seq(RuleRecords), NEW name, Distinct(rules)
    PROVE  /\ Without(rules, name) \in Seq(RuleRecords) /\ Distinct(Without(rules, name))
           /\ Names(Without(rules, name)) = Names(rules) \ {name}
  <1> DEFINE n == Len(rules)
             t == Without(rules, name)
  <1>1. n \in Nat /\ DOMAIN rules = 1..n
    OBVIOUS
  <1>2. CASE name \notin Names(rules)
    <2>1. ~\E i \in 1..n : rules[i].name = name
      BY <1>1, <1>2 DEF Names
    <2>2. t = rules
      BY <2>1 DEF Without, RemoveFirstMatch
    <2> QED
      BY <1>2, <2>2
  <1>3. CASE name \in Names(rules)
    <2> DEFINE i == PositionOf(rules, name)
    <2>1. i \in 1..n /\ rules[i].name = name
      BY <1>3, PositionFacts
    <2>2. t = RemoveAt(rules, i)
      BY <2>1 DEF Without, RemoveFirstMatch, PositionOf
    <2> DEFINE u == SubSeq(rules, 1, i - 1)
               v == SubSeq(rules, i + 1, n)
    <2> HIDE DEF i
    <2>3. /\ u \in Seq(RuleRecords) /\ Len(u) = i - 1 /\ \A j \in 1..i - 1 : u[j] = rules[j]
      BY <1>1, <2>1
    <2>4. /\ v \in Seq(RuleRecords) /\ Len(v) = n - i /\ \A j \in 1..n - i : v[j] = rules[i + j]
      <3>1. i + 1 \in Nat /\ i + 1 >= 1 /\ i + 1 <= n + 1 /\ n - (i + 1) + 1 = n - i
        BY <1>1, <2>1
      <3>2. /\ v \in Seq(RuleRecords) /\ Len(v) = n - (i + 1) + 1
            /\ \A j \in 1..n - i : v[j] = rules[(i + 1) + j - 1]
        BY <1>1, <3>1, SubSeqProperties
      <3>3. \A j \in 1..n - i : (i + 1) + j - 1 = i + j
        BY <1>1, <2>1
      <3> QED
        BY <3>1, <3>2, <3>3
    <2>5. t = u \o v
      BY <2>2 DEF RemoveAt
    <2> HIDE DEF u, v, t, n
    <2>6. t \in Seq(RuleRecords) /\ Len(t) = n - 1 /\ DOMAIN t = 1..n - 1
      <3>1. t \in Seq(RuleRecords) /\ Len(t) = Len(u) + Len(v)
        BY <2>3, <2>4, <2>5, ConcatProperties
      <3> QED
        BY <1>1, <2>1, <2>3, <2>4, <3>1
    <2>7. ASSUME NEW j \in 1..n - 1 PROVE t[j] = IF j < i THEN rules[j] ELSE rules[j + 1]
      <3>1. CASE j < i
        BY <1>1, <2>1, <2>3, <2>4, <2>5, <3>1
      <3>2. CASE j >= i
        <4>1. j - (i - 1) \in 1..n - i /\ i + (j - (i - 1)) = j + 1
          BY <1>1, <2>1, <3>2
        <4>2. t[j] = v[j - (i - 1)]
          <5>1. j \in 1..Len(u) + Len(v) /\ j > Len(u)
            BY <1>1, <2>1, <2>3, <2>4, <3>2
          <5>2. t[j] = v[j - Len(u)]
            BY <2>3, <2>4, <2>5, <5>1
          <5> QED
            BY <2>3, <5>2
        <4> QED
          BY <1>1, <2>1, <2>4, <3>2, <4>1, <4>2
      <3> QED
        BY <1>1, <2>1, <3>1, <3>2
    <2>8. \A j \in 1..n : rules[j].name = name => j = i
      BY <1>1, <2>1 DEF Distinct
    <2>9. ASSUME NEW j \in 1..n, j # i PROVE \E k \in 1..n - 1 : t[k] = rules[j]
      <3>1. CASE j < i
        <4>1. j \in 1..n - 1
          BY <1>1, <2>1, <3>1
        <4> QED
          BY <2>7, <3>1, <4>1
      <3>2. CASE j > i
        <4>1. j - 1 \in 1..n - 1 /\ ~(j - 1 < i) /\ (j - 1) + 1 = j
          BY <1>1, <2>1, <3>2
        <4> QED
          BY <2>7, <4>1
      <3> QED
        BY <1>1, <2>1, <2>9, <3>1, <3>2
    <2>10. ASSUME NEW k \in 1..n - 1
           PROVE  \E j \in 1..n : j # i /\ t[k] = rules[j] /\ j = IF k < i THEN k ELSE k + 1
      <3>1. CASE k < i
        BY <1>1, <2>1, <2>7, <3>1
      <3>2. CASE ~(k < i)
        <4>1. k + 1 \in 1..n /\ k + 1 # i
          BY <1>1, <2>1, <3>2
        <4> QED
          BY <2>7, <3>2, <4>1
      <3> QED
        BY <3>1, <3>2
    <2>11. Names(t) = Names(rules) \ {name}
      <3>1. ASSUME NEW y \in Names(t) PROVE y \in Names(rules) /\ y # name
        <4>1. PICK k \in 1..n - 1 : y = t[k].name
          BY <2>6, <3>1 DEF Names
        <4>2. PICK j \in 1..n : j # i /\ t[k] = rules[j]
          BY <2>10
        <4> QED
          BY <1>1, <2>8, <4>1, <4>2 DEF Names
      <3>2. ASSUME NEW y \in Names(rules), y # name PROVE y \in Names(t)
        <4>1. PICK j \in 1..n : y = rules[j].name
          BY <1>1, <3>2 DEF Names
        <4>2. j # i
          BY <2>1, <3>2, <4>1
        <4>3. PICK k \in 1..n - 1 : t[k] = rules[j]
          BY <2>9, <4>2
        <4> QED
          BY <2>6, <4>1, <4>3 DEF Names
      <3> QED
        BY <3>1, <3>2
    <2>12. Distinct(t)
      <3>1. ASSUME NEW j \in 1..n - 1, NEW k \in 1..n - 1, t[j].name = t[k].name PROVE j = k
        <4>1. PICK p \in 1..n : t[j] = rules[p] /\ p = (IF j < i THEN j ELSE j + 1) /\ p # i
          BY <2>10
        <4>2. PICK q \in 1..n : t[k] = rules[q] /\ q = (IF k < i THEN k ELSE k + 1) /\ q # i
          BY <2>10
        <4>3. p = q
          BY <1>1, <3>1, <4>1, <4>2 DEF Distinct
        <4> QED
          BY <1>1, <2>1, <4>1, <4>2, <4>3
      <3> QED
        BY <2>6, <3>1 DEF Distinct
    <2> QED
      BY <2>6, <2>11, <2>12 DEF t
  <1> QED
    BY <1>2, <1>3

\* What a request carries.
OpOk(op) ==
    /\ op.set \in RuleSets
    /\ op.kind \in RuleKinds \cup {"create_set", "delete_set", "activate"}
    /\ ReadSet(op) \in RuleSets /\ (op.kind # "clone" => ReadSet(op) = op.set)
    /\ op.kind \in {"create", "update"} => op.name \in RuleNames /\ op.body \in RuleBodies
    /\ op.kind = "reorder" => op.names \in Seq(RuleNames)

\* Every request carries what its kind needs.
LEMMA OpsFacts == \A op \in Ops : OpOk(op)
  <1> SUFFICES ASSUME NEW op \in Ops PROVE OpOk(op)
    OBVIOUS
  <1>1. SeqOf(RuleNames, MaxRules) \subseteq Seq(RuleNames)
    <2> SUFFICES ASSUME NEW names \in SeqOf(RuleNames, MaxRules) PROVE names \in Seq(RuleNames)
      OBVIOUS
    <2>1. PICK m \in 0..MaxRules : names \in [1..m -> RuleNames]
      BY DEF SeqOf
    <2>2. m \in Nat
      BY ReceiptRulesConstants
    <2> QED
      BY <2>1, <2>2
  <1> QED
    BY <1>1 DEF Ops, OpOk, RuleKinds, ReadSet

\* A list that names as many rules as there are, each once, names them all.
LEMMA ReorderFacts ==
    ASSUME NEW rules \in Seq(RuleRecords), NEW names \in Seq(RuleNames), Distinct(rules),
           Len(names) = Len(rules), Range(names) \subseteq Names(rules)
    PROVE  LET t == [n \in DOMAIN names |-> Named(rules, names[n])]
           IN  t \in Seq(RuleRecords) /\ (Distinct(t) => Names(rules) \subseteq Names(t))
  <1> DEFINE n == Len(rules)
             t == [i \in DOMAIN names |-> Named(rules, names[i])]
             at == [i \in 1..n |-> PositionOf(rules, names[i])]
  <1>1. n \in Nat /\ DOMAIN rules = 1..n /\ DOMAIN names = 1..n
    OBVIOUS
  <1>2. ASSUME NEW i \in 1..n PROVE t[i] \in RuleRecords /\ t[i].name = names[i]
    <2>1. names[i] \in Names(rules)
      BY <1>1 DEF Range
    <2>2. PICK k \in 1..n : rules[k].name = names[i]
      BY <1>1, <2>1 DEF Names
    <2>3. rules[k] \in Range(rules) /\ Range(rules) \subseteq RuleRecords
      BY <1>1 DEF Range
    <2>4. Named(rules, names[i]) \in Range(rules) /\ Named(rules, names[i]).name = names[i]
      BY <2>2, <2>3 DEF Named
    <2> QED
      BY <1>1, <2>3, <2>4
  <1>3. t \in Seq(RuleRecords) /\ DOMAIN t = 1..n
    BY <1>1, <1>2
  <1>4. ASSUME NEW i \in 1..n PROVE at[i] \in 1..n /\ rules[at[i]].name = names[i]
    <2>1. names[i] \in Names(rules)
      BY <1>1 DEF Range
    <2> QED
      BY <2>1, PositionFacts
  <1>5. ASSUME Distinct(t), NEW y \in Names(rules) PROVE y \in Names(t)
    <2> HIDE DEF t, at, n
    <2>1. at \in Injection(1..n, 1..n)
      <3>1. ASSUME NEW i \in 1..n, NEW k \in 1..n, at[i] = at[k] PROVE i = k
        <4>1. t[i].name = t[k].name
          BY <1>2, <1>4, <3>1
        <4> QED
          BY <1>3, <1>5, <4>1 DEF Distinct
      <3>2. at \in [1..n -> 1..n]
        BY <1>4 DEF at
      <3> QED
        BY <3>1, <3>2 DEF Injection, IsInjective
    <2>2. at \in Surjection(1..n, 1..n)
      <3>1. IsFiniteSet(1..n)
        BY <1>1, FS_Interval
      <3> QED
        BY <2>1, <3>1, FS_Injection
    <2>3. PICK k \in 1..n : y = rules[k].name
      BY <1>1, <1>5 DEF Names
    <2>4. PICK i \in 1..n : at[i] = k
      BY <2>2 DEF Surjection
    <2> QED
      BY <1>2, <1>3, <1>4, <2>3, <2>4 DEF Names
  <1> QED
    BY <1>3, <1>5

\* What a request makes of the list it read: no name twice, unless a reorder names one
\* twice, and of the rules only the one that is to be deleted is gone.
LEMMA ChangedFacts ==
    ASSUME NEW op \in Ops, op.kind \in RuleKinds, NEW rules \in Seq(RuleRecords), Distinct(rules),
           Allowed(op, rules)
    PROVE  /\ ChangedRules(op, rules) \in Seq(RuleRecords)
           /\ op.kind # "reorder" => Distinct(ChangedRules(op, rules))
           /\ Distinct(ChangedRules(op, rules)) =>
                 /\ op.kind # "delete" => Names(rules) \subseteq Names(ChangedRules(op, rules))
                 /\ op.kind = "delete" => Names(rules) \ {op.name} \subseteq Names(ChangedRules(op, rules))
                 /\ op.kind = "create" => op.name \in Names(ChangedRules(op, rules))
  <1>0. OpOk(op)
    BY OpsFacts
  <1>1. CASE op.kind = "create"
    <2> DEFINE x == Rule(op.name, op.body)
               i == Place(rules, op.after)
    <2>1. op.name \notin Names(rules) /\ i # 0 /\ ChangedRules(op, rules) = InsertAt(rules, i, x)
      BY <1>1 DEF Allowed, ChangedRules
    <2>2. x \in RuleRecords /\ x.name = op.name
      BY <1>0, <1>1, ReceiptRulesConstants DEF Rule, RuleRecords, OpOk
    <2>3. i \in 1..Len(rules) + 1
      BY <2>1, PlaceFacts
    <2> HIDE DEF x, i
    <2>4. /\ InsertAt(rules, i, x) \in Seq(RuleRecords)
          /\ Names(InsertAt(rules, i, x)) = Names(rules) \cup {x.name}
          /\ Distinct(InsertAt(rules, i, x))
      BY <2>1, <2>2, <2>3, InsertFacts
    <2> QED
      BY <1>1, <2>1, <2>2, <2>4
  <1>2. CASE op.kind = "update"
    <2> DEFINE x == Rule(op.name, op.body)
               t == [n \in DOMAIN rules |-> IF rules[n].name = op.name THEN x ELSE rules[n]]
    <2>1. ChangedRules(op, rules) = t
      BY <1>2 DEF ChangedRules
    <2>2. x \in RuleRecords /\ x.name = op.name
      BY <1>0, <1>2, ReceiptRulesConstants DEF Rule, RuleRecords, OpOk
    <2>3. Len(rules) \in Nat /\ DOMAIN rules = 1..Len(rules)
      OBVIOUS
    <2> HIDE DEF x
    <2>4. DOMAIN t = DOMAIN rules /\ \A n \in DOMAIN rules : t[n] \in RuleRecords /\ t[n].name = rules[n].name
      BY <2>2
    <2>5. t \in Seq(RuleRecords)
      BY <2>3, <2>4
    <2> HIDE DEF t
    <2>6. Distinct(t) /\ Names(t) = Names(rules)
      BY <2>4 DEF Distinct, Names
    <2> QED
      BY <1>2, <2>1, <2>5, <2>6
  <1>3. CASE op.kind = "delete"
    <2>1. ChangedRules(op, rules) = Without(rules, op.name)
      BY <1>3 DEF ChangedRules
    <2> QED
      BY <1>3, <2>1, WithoutFacts
  <1>4. CASE op.kind = "position"
    <2> DEFINE rest == Without(rules, op.name)
               i == Place(rest, op.after)
               x == Named(rules, op.name)
    <2>1. op.name \in Names(rules) /\ i # 0 /\ ChangedRules(op, rules) = InsertAt(rest, i, x)
      BY <1>4 DEF Allowed, ChangedRules
    <2>2. x \in RuleRecords /\ x.name = op.name
      <3>1. PICK k \in DOMAIN rules : rules[k].name = op.name
        BY <2>1 DEF Names
      <3>2. rules[k] \in Range(rules) /\ Range(rules) \subseteq RuleRecords
        BY <3>1 DEF Range
      <3>3. x \in Range(rules) /\ x.name = op.name
        BY <3>1, <3>2 DEF Named
      <3> QED
        BY <3>2, <3>3
    <2>3. rest \in Seq(RuleRecords) /\ Distinct(rest) /\ Names(rest) = Names(rules) \ {op.name}
      BY WithoutFacts
    <2>4. i \in 1..Len(rest) + 1
      BY <2>1, <2>3, PlaceFacts
    <2> HIDE DEF x, i, rest
    <2>5. /\ InsertAt(rest, i, x) \in Seq(RuleRecords)
          /\ Names(InsertAt(rest, i, x)) = Names(rest) \cup {x.name}
          /\ Distinct(InsertAt(rest, i, x))
      BY <2>2, <2>3, <2>4, InsertFacts
    <2> QED
      BY <1>4, <2>1, <2>2, <2>3, <2>5
  <1>5. CASE op.kind = "reorder"
    <2> DEFINE t == [n \in DOMAIN op.names |-> Named(rules, op.names[n])]
    <2>1. ChangedRules(op, rules) = t
      BY <1>5 DEF ChangedRules
    <2>2. op.names \in Seq(RuleNames) /\ Len(op.names) = Len(rules) /\ Range(op.names) \subseteq Names(rules)
      BY <1>0, <1>5 DEF Allowed, OpOk
    <2>3. t \in Seq(RuleRecords) /\ (Distinct(t) => Names(rules) \subseteq Names(t))
      BY <2>2, ReorderFacts
    <2> HIDE DEF t
    <2> QED
      BY <1>5, <2>1, <2>3
  <1>6. CASE op.kind = "clone"
    <2>1. ChangedRules(op, rules) = rules
      BY <1>6 DEF ChangedRules
    <2> QED
      BY <1>6, <2>1
  <1> QED
    BY <1>1, <1>2, <1>3, <1>4, <1>5, <1>6 DEF RuleKinds

\* Requests that have yet to read a list, that hold one, and that receive a message.
RuleAsks == [at : {"insert", "active", "activate", "rules", "delete"}, op : Ops, overtaken : BOOLEAN]

RuleHolds == [at : {"absent", "insert", "write"}, op : Ops, rules : Seq(RuleRecords), overtaken : BOOLEAN]

Receipts ==
    [at : {"set", "list", "run", "capture"}, rcpts : SUBSET Addresses, table : Seq(RuleRecords),
     set : RuleSets \cup {None}, next : Nat, handled : SUBSET Addresses,
     acted : SUBSET (RuleNames \X Addresses)]

\* A request that holds a list, and was not overtaken, holds what it makes of the list
\* that is there.
HoldOk(r, rows) ==
    /\ r \in RuleHolds /\ r.op.kind \in RuleKinds
    /\ r.at \in {"absent", "insert"} => r.op.kind = "clone"
    /\ r.op.kind = "clone" => Distinct(r.rules)
    /\ r.op.kind # "clone" /\ ~r.overtaken =>
          /\ Allowed(r.op, rows[r.op.set])
          /\ r.rules = ChangedRules(r.op, rows[r.op.set])

\* A request that asks is where its kind takes it.
AskOk(r) ==
    /\ r \in RuleAsks
    /\ r.at = "insert" => r.op.kind = "create_set"
    /\ r.at = "rules" => r.op.kind \in RuleKinds

\* The rule at position n ends the processing.
Stopping(r, n) == r.table[n].stop /\ \E y \in r.rcpts : Applies(r.table[n], y)

\* The rules before the next one have acted, each on those it is for, up to the first
\* that stops; a rule that is still to come has none before it that stops.
ReceiptOk(r) ==
    /\ r \in Receipts
    /\ r.at # "capture" => r.set \in RuleSets
    /\ r.at # "run" => r.table = <<>> /\ r.acted = {} /\ r.next = 1
    /\ r.handled = Handled(r.rcpts, r.table)
    /\ r.next >= 1 /\ Distinct(r.table)
    /\ r.next <= Len(r.table) => \A k \in 1..r.next - 1 : ~Stopping(r, k)
    /\ \A n \in DOMAIN r.table : \A x \in r.rcpts :
          <<r.table[n].name, x>> \in r.acted <=>
             n < r.next /\ Applies(r.table[n], x) /\ \A k \in 1..n - 1 : ~Stopping(r, k)

\* What a request may be, against the lists that are stored.
RuleRequestOk(r, rows) == r = RuleIdle \/ AskOk(r) \/ HoldOk(r, rows) \/ ReceiptOk(r)

\* What receiving is proved from.
RulesInv ==
    /\ rrRules \in [RuleSets -> Seq(RuleRecords)] /\ DOMAIN rrOwed = RuleSets
    /\ DOMAIN rrSets \subseteq RuleSets /\ DOMAIN rrReq = RuleClients
    /\ \A c \in RuleClients : RuleRequestOk(rrReq[c], rrRules)
    /\ RulesKept
    /\ RecipientsAccountedFor

\* A request goes on, with nothing written but perhaps a set.
LEMMA RuleGoes ==
    ASSUME RulesInv, NEW c \in RuleClients, NEW r, RuleRequestOk(r, rrRules), RuleGo(c, r),
           UNCHANGED <<rrRules, rrOwed, rrStray, rrMails>>,
           DOMAIN rrSets \subseteq DOMAIN rrSets', DOMAIN rrSets' \subseteq RuleSets
    PROVE  RulesInv'
  <1>1. /\ rrReq' = [rrReq EXCEPT ![c] = r] /\ DOMAIN rrReq' = RuleClients
        /\ \A d \in RuleClients : rrReq'[d] = IF d = c THEN r ELSE rrReq[d]
    BY DEF RuleGo, RulesInv
  <1>2. \A d \in RuleClients : RuleRequestOk(rrReq'[d], rrRules')
    BY <1>1 DEF RulesInv
  <1>3. RulesKept'
    BY DEF RulesInv, RulesKept, RulesLostByOverlap, RulesHaveSet, Distinct, Names
  <1>4. RecipientsAccountedFor'
    BY DEF RulesInv, RecipientsAccountedFor
  <1> HIDE DEF RuleRequestOk
  <1> QED
    BY <1>1, <1>2, <1>3, <1>4 DEF RulesInv

\* A client without a request promises nothing.
LEMMA IdleRuleOk == \A rows : RuleRequestOk(RuleIdle, rows)
  BY DEF RuleRequestOk

\* What state a request is in, by what it does next.
LEMMA RequestAt ==
    ASSUME NEW r, NEW rows, RuleRequestOk(r, rows)
    PROVE  /\ r.at \in {"active", "activate", "rules", "delete"} => AskOk(r)
           /\ r.at \in {"absent", "write"} => HoldOk(r, rows)
           /\ r.at = "insert" => \/ AskOk(r) /\ r.op.kind = "create_set"
                                 \/ HoldOk(r, rows) /\ r.op.kind = "clone"
           /\ r.at \in {"set", "list", "run", "capture"} => ReceiptOk(r)
  <1>1. CASE r = RuleIdle
    BY <1>1 DEF RuleIdle
  <1>2. CASE AskOk(r)
    BY <1>2 DEF AskOk, RuleAsks
  <1>3. CASE HoldOk(r, rows)
    BY <1>3 DEF HoldOk, RuleHolds
  <1>4. CASE ReceiptOk(r)
    <2>1. r.at \in {"set", "list", "run", "capture"}
      BY <1>4 DEF ReceiptOk, Receipts
    <2> QED
      BY <1>4, <2>1
  <1> QED
    BY <1>1, <1>2, <1>3, <1>4 DEF RuleRequestOk

\* The requests that ask and look.
LEMMA RuleAsking ==
    ASSUME RulesInv, NEW c \in RuleClients,
           \/ \E op \in Ops : StartRequest(c, op)
           \/ CloneAbsent(c) \/ InsertSet(c) \/ CheckInactive(c) \/ Activate(c) \/ ReadRules(c)
    PROVE  RulesInv'
  <1> DEFINE r == rrReq[c]
  <1>0. /\ RuleRequestOk(r, rrRules) /\ DOMAIN rrSets \subseteq RuleSets
        /\ \A s \in RuleSets : rrRules[s] \in Seq(RuleRecords) /\ Distinct(rrRules[s])
    BY DEF RulesInv, RulesKept, RulesLostByOverlap
  <1>1. ASSUME NEW op \in Ops, StartRequest(c, op) PROVE RulesInv'
    <2> DEFINE at == CASE op.kind = "create_set" -> "insert" [] op.kind = "delete_set" -> "active"
                       [] op.kind = "activate" -> "activate" [] OTHER -> "rules"
               q == [at |-> at, op |-> op, overtaken |-> FALSE]
    <2>1. RuleGo(c, q) /\ UNCHANGED <<rrSets, rrRules, rrMails, rrOwed, rrStray>>
      BY <1>1 DEF StartRequest
    <2>2. OpOk(op)
      BY OpsFacts
    <2>3. /\ at \in {"insert", "active", "activate", "rules"}
          /\ at = "insert" => op.kind = "create_set"
          /\ at = "rules" => op.kind \in RuleKinds
      BY <2>2 DEF OpOk, RuleKinds
    <2> HIDE DEF at
    <2>4. AskOk(q)
      BY <2>3 DEF AskOk, RuleAsks
    <2> HIDE DEF q
    <2>5. RuleRequestOk(q, rrRules)
      BY <2>4 DEF RuleRequestOk
    <2> QED
      BY <1>0, <2>1, <2>5, RuleGoes
  <1>2. CASE CloneAbsent(c)
    <2>1. HoldOk(r, rrRules) /\ r.at = "absent"
      BY <1>0, <1>2, RequestAt DEF CloneAbsent
    <2>2. HoldOk([r EXCEPT !.at = "insert"], rrRules)
      BY <2>1 DEF HoldOk, RuleHolds
    <2>3. PICK q \in {RuleIdle, [r EXCEPT !.at = "insert"]} : RuleGo(c, q)
      BY <1>2 DEF CloneAbsent
    <2>4. RuleRequestOk(q, rrRules)
      BY <2>2, <2>3 DEF RuleRequestOk
    <2> QED
      BY <1>0, <1>2, <2>3, <2>4, RuleGoes DEF CloneAbsent
  <1>3. CASE InsertSet(c)
    <2>1. /\ r.at = "insert"
          /\ \/ AskOk(r) /\ r.op.kind = "create_set"
             \/ HoldOk(r, rrRules) /\ r.op.kind = "clone"
      BY <1>0, <1>3, RequestAt DEF InsertSet
    <2>2. r.op \in Ops /\ r.op.set \in RuleSets
      <3>1. r.op \in Ops
        BY <2>1 DEF AskOk, RuleAsks, HoldOk, RuleHolds
      <3> QED
        BY <3>1, OpsFacts DEF OpOk
    <2>3. r.op.kind = "clone" => HoldOk([r EXCEPT !.at = "write"], rrRules)
      BY <2>1 DEF HoldOk, RuleHolds
    <2>4. PICK q : /\ RuleGo(c, q)
                   /\ q = RuleIdle \/ (r.op.kind = "clone" /\ q = [r EXCEPT !.at = "write"])
                   /\ rrSets' = rrSets \/ rrSets' = Put(rrSets, r.op.set, FALSE)
      BY <1>3 DEF InsertSet
    <2>5. RuleRequestOk(q, rrRules)
      BY <2>3, <2>4 DEF RuleRequestOk
    <2>6. DOMAIN rrSets \subseteq DOMAIN rrSets' /\ DOMAIN rrSets' \subseteq RuleSets
      BY <1>0, <2>2, <2>4 DEF Put
    <2> QED
      BY <1>3, <2>4, <2>5, <2>6, RuleGoes DEF InsertSet
  <1>4. CASE CheckInactive(c)
    <2>1. AskOk(r) /\ r.at = "active"
      BY <1>0, <1>4, RequestAt DEF CheckInactive
    <2>2. AskOk([r EXCEPT !.at = "delete"])
      BY <2>1 DEF AskOk, RuleAsks
    <2>3. PICK q \in {RuleIdle, [r EXCEPT !.at = "delete"]} : RuleGo(c, q)
      BY <1>4 DEF CheckInactive
    <2>4. RuleRequestOk(q, rrRules)
      BY <2>2, <2>3 DEF RuleRequestOk
    <2> QED
      BY <1>0, <1>4, <2>3, <2>4, RuleGoes DEF CheckInactive
  <1>5. CASE Activate(c)
    <2>1. DOMAIN rrSets' = DOMAIN rrSets
      BY <1>5 DEF Activate
    <2> QED
      BY <1>0, <1>5, <2>1, IdleRuleOk, RuleGoes DEF Activate
  <1>6. CASE ReadRules(c)
    <2> DEFINE rules == rrRules[ReadSet(r.op)]
               q == [at |-> IF r.op.kind = "clone" THEN "absent" ELSE "write",
                     op |-> r.op, rules |-> ChangedRules(r.op, rules), overtaken |-> FALSE]
    <2>1. AskOk(r) /\ r.at = "rules"
      BY <1>0, <1>6, RequestAt DEF ReadRules
    <2>2. r.op \in Ops /\ r.op.kind \in RuleKinds /\ OpOk(r.op)
      <3>1. r.op \in Ops /\ r.op.kind \in RuleKinds
        BY <2>1 DEF AskOk, RuleAsks
      <3> QED
        BY <3>1, OpsFacts
    <2>3. rules \in Seq(RuleRecords) /\ Distinct(rules)
      BY <1>0, <2>2 DEF OpOk
    <2>4. ASSUME Allowed(r.op, rules) PROVE HoldOk(q, rrRules)
      <3>1. /\ ChangedRules(r.op, rules) \in Seq(RuleRecords)
            /\ r.op.kind = "clone" => Distinct(ChangedRules(r.op, rules))
        BY <2>2, <2>3, <2>4, ChangedFacts
      <3>2. r.op.kind # "clone" => ReadSet(r.op) = r.op.set
        BY <2>2 DEF OpOk
      <3>3. /\ q.op = r.op /\ q.rules = ChangedRules(r.op, rules) /\ q.overtaken = FALSE
            /\ q.at = IF r.op.kind = "clone" THEN "absent" ELSE "write"
        OBVIOUS
      <3>4. q \in RuleHolds
        BY <2>2, <3>1 DEF RuleHolds
      <3> HIDE DEF q
      <3> QED
        BY <2>2, <2>4, <3>1, <3>2, <3>3, <3>4 DEF HoldOk
    <2>5. PICK p : RuleGo(c, p) /\ (p = RuleIdle \/ (Allowed(r.op, rules) /\ p = q))
      BY <1>6 DEF ReadRules
    <2> HIDE DEF q, rules
    <2>6. RuleRequestOk(p, rrRules)
      BY <2>4, <2>5 DEF RuleRequestOk
    <2> QED
      BY <1>0, <1>6, <2>5, <2>6, RuleGoes DEF ReadRules
  <1> QED
    BY <1>1, <1>2, <1>3, <1>4, <1>5, <1>6

\* The list of one set is written: the requests that hold what they made of the list
\* before are overtaken.
LEMMA OthersOvertaken ==
    ASSUME RulesInv, NEW c \in RuleClients, NEW s \in RuleSets, NEW rows,
           rows \in [RuleSets -> Seq(RuleRecords)],
           \A t \in RuleSets \ {s} : rows[t] = rrRules[t],
           NEW d \in RuleClients
    PROVE  RuleRequestOk(Overtaken(c, s)[d], rows)
  <1> DEFINE r == rrReq[d]
             q == Overtaken(c, s)[d]
  <1>1. q = IF d = c THEN RuleIdle
            ELSE IF r.at \in {"absent", "insert", "write"} /\ r.op.set = s
                 THEN [r EXCEPT !.overtaken = TRUE] ELSE r
    BY DEF Overtaken
  <1>2. RuleRequestOk(r, rrRules)
    BY DEF RulesInv
  <1> HIDE DEF q
  <1>3. CASE r = RuleIdle
    <2>1. q = RuleIdle
      BY <1>1, <1>3 DEF RuleIdle
    <2> QED
      BY <2>1 DEF RuleRequestOk, q
  <1>4. CASE AskOk(r)
    <2>1. AskOk([r EXCEPT !.overtaken = TRUE])
      BY <1>4 DEF AskOk, RuleAsks
    <2> QED
      BY <1>1, <1>4, <2>1 DEF RuleRequestOk, q
  <1>5. CASE HoldOk(r, rrRules)
    <2>1. HoldOk([r EXCEPT !.overtaken = TRUE], rows)
      BY <1>5 DEF HoldOk, RuleHolds
    <2>2. ASSUME r.op.set # s PROVE HoldOk(r, rows)
      <3>1. r.op \in Ops
        BY <1>5 DEF HoldOk, RuleHolds
      <3>2. r.op.set \in RuleSets
        BY <3>1, OpsFacts DEF OpOk
      <3>3. rows[r.op.set] = rrRules[r.op.set]
        BY <2>2, <3>2
      <3> QED
        BY <1>5, <3>3 DEF HoldOk
    <2>3. r.at \in {"absent", "insert", "write"}
      BY <1>5 DEF HoldOk, RuleHolds
    <2> QED
      BY <1>1, <2>1, <2>2, <2>3 DEF RuleRequestOk, q
  <1>6. CASE ReceiptOk(r)
    <2>1. r.at \in {"set", "list", "run", "capture"}
      BY <1>6 DEF ReceiptOk, Receipts
    <2>2. q = r \/ q = RuleIdle
      BY <1>1, <2>1
    <2> QED
      BY <1>6, <2>2 DEF RuleRequestOk, q
  <1> QED
    BY <1>2, <1>3, <1>4, <1>5, <1>6 DEF RuleRequestOk

\* A set is deleted with its rules.
LEMMA RuleSetDeleted == ASSUME RulesInv, NEW c \in RuleClients, DeleteSet(c) PROVE RulesInv'
  <1> DEFINE s == rrReq[c].op.set
  <1>1. /\ rrReq[c].at = "delete" /\ rrSets' = Restrict(rrSets, DOMAIN rrSets \ {s})
        /\ rrRules' = [rrRules EXCEPT ![s] = <<>>] /\ rrReq' = Overtaken(c, s)
        /\ rrOwed' = [rrOwed EXCEPT ![s] = {}] /\ rrStray' = rrStray \ {s} /\ rrMails' = rrMails
    BY DEF DeleteSet, RulesWithout
  <1>2. s \in RuleSets
    <2>1. RuleRequestOk(rrReq[c], rrRules)
      BY DEF RulesInv
    <2>2. AskOk(rrReq[c])
      BY <1>1, <2>1, RequestAt
    <2>3. rrReq[c].op \in Ops
      BY <2>2 DEF AskOk, RuleAsks
    <2> QED
      BY <2>3, OpsFacts DEF OpOk
  <1>3. rrRules \in [RuleSets -> Seq(RuleRecords)] /\ DOMAIN rrOwed = RuleSets /\ DOMAIN rrSets \subseteq RuleSets
    BY DEF RulesInv
  <1> HIDE DEF s
  <1>4. /\ rrRules' \in [RuleSets -> Seq(RuleRecords)] /\ rrRules'[s] = <<>>
        /\ \A t \in RuleSets \ {s} : rrRules'[t] = rrRules[t]
        /\ DOMAIN rrOwed' = RuleSets /\ rrOwed'[s] = {} /\ \A t \in RuleSets \ {s} : rrOwed'[t] = rrOwed[t]
    BY <1>1, <1>2, <1>3
  <1>5. DOMAIN rrSets' = DOMAIN rrSets \ {s}
    BY <1>1 DEF Restrict
  <1>6. DOMAIN rrReq' = RuleClients /\ \A d \in RuleClients : RuleRequestOk(rrReq'[d], rrRules')
    <2>1. \A d \in RuleClients : RuleRequestOk(Overtaken(c, s)[d], rrRules')
      BY <1>2, <1>4, OthersOvertaken
    <2> QED
      BY <1>1, <2>1 DEF Overtaken
  <1>7. RulesKept'
    <2>1. Distinct(<<>>)
      BY DEF Distinct
    <2>2. RulesLostByOverlap'
      <3>1. ASSUME NEW t \in RuleSets PROVE Distinct(rrRules'[t]) /\ rrOwed'[t] \subseteq Names(rrRules'[t])
        BY <1>4, <2>1 DEF RulesInv, RulesKept, RulesLostByOverlap
      <3> QED
        BY <3>1 DEF RulesLostByOverlap
    <2>3. RulesHaveSet'
      BY <1>1, <1>4, <1>5 DEF RulesInv, RulesKept, RulesHaveSet
    <2> QED
      BY <2>2, <2>3 DEF RulesKept
  <1>8. RecipientsAccountedFor'
    BY <1>1 DEF RulesInv, RecipientsAccountedFor
  <1> HIDE DEF RuleRequestOk
  <1> QED
    BY <1>3, <1>4, <1>5, <1>6, <1>7, <1>8 DEF RulesInv

\* A crash in the middle of the deletion leaves the set without rules.
LEMMA RuleSetEmptied == ASSUME RulesInv, NEW c \in RuleClients, CrashInDeleteSet(c) PROVE RulesInv'
  <1> DEFINE s == rrReq[c].op.set
  <1>1. /\ rrReq[c].at = "delete" /\ rrRules' = [rrRules EXCEPT ![s] = <<>>]
        /\ rrReq' = [d \in RuleClients |-> RuleIdle] /\ rrOwed' = [rrOwed EXCEPT ![s] = {}]
        /\ rrSets' = rrSets /\ rrStray' = rrStray /\ rrMails' = rrMails
    BY DEF CrashInDeleteSet, RulesWithout
  <1>2. s \in RuleSets
    <2>1. RuleRequestOk(rrReq[c], rrRules)
      BY DEF RulesInv
    <2>2. rrReq[c].op \in Ops
      BY <1>1, <2>1, RequestAt DEF AskOk, RuleAsks
    <2> QED
      BY <2>2, OpsFacts DEF OpOk
  <1>3. rrRules \in [RuleSets -> Seq(RuleRecords)] /\ DOMAIN rrOwed = RuleSets /\ DOMAIN rrSets \subseteq RuleSets
    BY DEF RulesInv
  <1> HIDE DEF s
  <1>4. /\ rrRules' \in [RuleSets -> Seq(RuleRecords)] /\ rrRules'[s] = <<>>
        /\ \A t \in RuleSets \ {s} : rrRules'[t] = rrRules[t]
        /\ DOMAIN rrOwed' = RuleSets /\ rrOwed'[s] = {} /\ \A t \in RuleSets \ {s} : rrOwed'[t] = rrOwed[t]
    BY <1>1, <1>2, <1>3
  <1>5. DOMAIN rrReq' = RuleClients /\ \A d \in RuleClients : RuleRequestOk(rrReq'[d], rrRules')
    BY <1>1, IdleRuleOk
  <1>6. RulesLostByOverlap'
    <2>1. Distinct(<<>>)
      BY DEF Distinct
    <2>2. ASSUME NEW t \in RuleSets PROVE Distinct(rrRules'[t]) /\ rrOwed'[t] \subseteq Names(rrRules'[t])
      BY <1>4, <2>1 DEF RulesInv, RulesKept, RulesLostByOverlap
    <2> QED
      BY <2>2 DEF RulesLostByOverlap
  <1>7. RulesHaveSet'
    BY <1>1, <1>4 DEF RulesInv, RulesKept, RulesHaveSet
  <1>8. RecipientsAccountedFor'
    BY <1>1 DEF RulesInv, RecipientsAccountedFor
  <1> HIDE DEF RuleRequestOk
  <1> QED
    BY <1>1, <1>3, <1>4, <1>5, <1>6, <1>7, <1>8 DEF RulesInv, RulesKept

\* A list is written, over what another may have written meanwhile.
LEMMA RulesWritten == ASSUME RulesInv, NEW c \in RuleClients, WriteRules(c) PROVE RulesInv'
  <1> DEFINE r == rrReq[c]
             s == r.op.set
             new == Stored(s, r.rules)
             owed == IF r.overtaken
                     THEN (IF r.op.kind = "create" THEN rrOwed[s] \cup {r.op.name} ELSE rrOwed[s])
                          \cap Names(new)
                     ELSE IF r.op.kind = "clone" THEN Names(r.rules)
                     ELSE IF r.op.kind = "create" THEN rrOwed[s] \cup {r.op.name}
                     ELSE IF r.op.kind = "delete" THEN rrOwed[s] \ {r.op.name} ELSE rrOwed[s]
  <1>1. /\ r.at = "write" /\ rrRules' = [rrRules EXCEPT ![s] = new] /\ rrReq' = Overtaken(c, s)
        /\ rrStray' = (IF s \in DOMAIN rrSets THEN rrStray ELSE rrStray \cup {s})
        /\ UNCHANGED <<rrSets, rrMails>>
    BY DEF WriteRules
  <1>2. /\ rrRules \in [RuleSets -> Seq(RuleRecords)] /\ DOMAIN rrOwed = RuleSets
        /\ DOMAIN rrSets \subseteq RuleSets
        /\ \A t \in RuleSets : Distinct(rrRules[t]) /\ rrOwed[t] \subseteq Names(rrRules[t])
    BY DEF RulesInv, RulesKept, RulesLostByOverlap
  <1>3. HoldOk(r, rrRules)
    <2>1. RuleRequestOk(r, rrRules)
      BY DEF RulesInv
    <2> QED
      BY <1>1, <2>1, RequestAt
  <1>4. r.op \in Ops /\ r.op.kind \in RuleKinds /\ r.rules \in Seq(RuleRecords) /\ r.overtaken \in BOOLEAN
    BY <1>3 DEF HoldOk, RuleHolds
  <1>5. s \in RuleSets
    BY <1>4, OpsFacts DEF OpOk
  <1>6. new \in Seq(RuleRecords) /\ Distinct(new) /\ (Distinct(r.rules) => new = r.rules)
        /\ (~Distinct(r.rules) => new = rrRules[s])
    BY <1>2, <1>4, <1>5 DEF Stored
  <1>7. /\ rrRules' \in [RuleSets -> Seq(RuleRecords)] /\ rrRules'[s] = new
        /\ \A t \in RuleSets \ {s} : rrRules'[t] = rrRules[t]
    <2> HIDE DEF new, s
    <2> QED
      BY <1>1, <1>2, <1>5, <1>6
  <1>8. rrOwed' = [rrOwed EXCEPT ![s] = owed]
    BY <1>7 DEF WriteRules
  <1>9. /\ DOMAIN rrOwed' = RuleSets /\ rrOwed'[s] = owed
        /\ \A t \in RuleSets \ {s} : rrOwed'[t] = rrOwed[t]
    <2> HIDE DEF owed, s
    <2> QED
      BY <1>2, <1>5, <1>8
  <1>10. owed \subseteq Names(new)
    <2> HIDE DEF new
    <2>1. CASE r.overtaken
      BY <2>1
    <2>2. CASE ~r.overtaken /\ r.op.kind = "clone"
      <3>1. Distinct(r.rules)
        BY <1>3, <2>2 DEF HoldOk
      <3> QED
        BY <1>6, <2>2, <3>1
    <2>3. CASE ~r.overtaken /\ r.op.kind # "clone"
      <3> DEFINE old == rrRules[s]
      <3>1. Allowed(r.op, old) /\ r.rules = ChangedRules(r.op, old)
        BY <1>3, <2>3 DEF HoldOk
      <3>2. old \in Seq(RuleRecords) /\ Distinct(old) /\ rrOwed[s] \subseteq Names(old)
        BY <1>2, <1>5
      <3>3. /\ r.op.kind # "reorder" => Distinct(r.rules)
            /\ Distinct(r.rules) =>
                  /\ r.op.kind # "delete" => Names(old) \subseteq Names(r.rules)
                  /\ r.op.kind = "delete" => Names(old) \ {r.op.name} \subseteq Names(r.rules)
                  /\ r.op.kind = "create" => r.op.name \in Names(r.rules)
        BY <1>4, <3>1, <3>2, ChangedFacts
      <3> HIDE DEF old
      <3>4. CASE Distinct(r.rules)
        <4>1. new = r.rules
          BY <1>6, <3>4
        <4> HIDE DEF s, r
        <4> QED
          BY <2>3, <3>2, <3>3, <3>4, <4>1
      <3>5. CASE ~Distinct(r.rules)
        <4>1. r.op.kind = "reorder" /\ new = old
          BY <1>6, <3>3, <3>5 DEF old
        <4> QED
          BY <2>3, <3>2, <4>1
      <3> QED
        BY <3>4, <3>5
    <2> QED
      BY <1>4, <2>1, <2>2, <2>3
  <1>11. DOMAIN rrReq' = RuleClients /\ \A d \in RuleClients : RuleRequestOk(rrReq'[d], rrRules')
    <2>1. \A d \in RuleClients : RuleRequestOk(Overtaken(c, s)[d], rrRules')
      <3> HIDE DEF s, new
      <3> QED
        BY <1>5, <1>7, OthersOvertaken
    <2> QED
      BY <1>1, <2>1 DEF Overtaken
  <1> HIDE DEF s, new, owed, r
  <1>12. RulesKept'
    <2>1. RulesLostByOverlap'
      <3>1. ASSUME NEW t \in RuleSets PROVE Distinct(rrRules'[t]) /\ rrOwed'[t] \subseteq Names(rrRules'[t])
        BY <1>2, <1>6, <1>7, <1>9, <1>10
      <3> QED
        BY <3>1 DEF RulesLostByOverlap
    <2>2. RulesHaveSet'
      BY <1>1, <1>7 DEF RulesInv, RulesKept, RulesHaveSet
    <2> QED
      BY <2>1, <2>2 DEF RulesKept
  <1>13. RecipientsAccountedFor'
    BY <1>1 DEF RulesInv, RecipientsAccountedFor
  <1> HIDE DEF RuleRequestOk
  <1> QED
    BY <1>1, <1>2, <1>7, <1>9, <1>11, <1>12, <1>13 DEF RulesInv

\* Receiving up to the rules.
LEMMA ReceiptStarts ==
    ASSUME RulesInv, NEW c \in RuleClients,
           \/ \E rcpts \in SUBSET Addresses \ {{}} : Receive(c, rcpts)
           \/ ReceiveSet(c) \/ ReceiveList(c)
    PROVE  RulesInv'
  <1> DEFINE r == rrReq[c]
  <1>0. /\ RuleRequestOk(r, rrRules) /\ DOMAIN rrSets \subseteq RuleSets
        /\ \A s \in RuleSets : rrRules[s] \in Seq(RuleRecords) /\ Distinct(rrRules[s])
    BY DEF RulesInv, RulesKept, RulesLostByOverlap
  <1>1. ASSUME NEW rcpts \in SUBSET Addresses, Receive(c, rcpts) PROVE RulesInv'
    <2> DEFINE at == IF ActiveSets = {} THEN "capture" ELSE "set"
               s == IF ActiveSets = {} THEN None ELSE CHOOSE t \in ActiveSets : TRUE
               q == [at |-> at, rcpts |-> rcpts, table |-> <<>>, set |-> s, next |-> 1,
                     handled |-> {}, acted |-> {}]
    <2>1. RuleGo(c, q) /\ UNCHANGED <<rrSets, rrRules, rrMails, rrOwed, rrStray>>
      BY <1>1 DEF Receive
    <2>2. at \in {"capture", "set"} /\ s \in RuleSets \cup {None} /\ (at # "capture" => s \in RuleSets)
      BY <1>0 DEF ActiveSets
    <2> HIDE DEF at, s
    <2>3. q \in Receipts
      BY <2>2 DEF Receipts
    <2>4. ReceiptOk(q)
      BY <2>2, <2>3 DEF ReceiptOk, Handled, Distinct
    <2> HIDE DEF q
    <2>5. RuleRequestOk(q, rrRules)
      BY <2>4 DEF RuleRequestOk
    <2> QED
      BY <1>0, <2>1, <2>5, RuleGoes
  <1>2. CASE ReceiveSet(c)
    <2>1. ReceiptOk(r) /\ r.at = "set"
      BY <1>0, <1>2, RequestAt DEF ReceiveSet
    <2> DEFINE q == [r EXCEPT !.at = "list"]
    <2>2. q \in Receipts /\ q.at = "list" /\ q.set = r.set /\ q.table = r.table /\ q.acted = r.acted
          /\ q.handled = r.handled /\ q.rcpts = r.rcpts /\ q.next = r.next
      BY <2>1 DEF ReceiptOk, Receipts
    <2>3. PICK p \in {RuleIdle, q} : RuleGo(c, p)
      BY <1>2 DEF ReceiveSet
    <2> HIDE DEF q
    <2>4. ReceiptOk(q)
      BY <2>1, <2>2 DEF ReceiptOk, Stopping
    <2>5. RuleRequestOk(p, rrRules)
      BY <2>3, <2>4 DEF RuleRequestOk
    <2> QED
      BY <1>0, <1>2, <2>3, <2>5, RuleGoes DEF ReceiveSet
  <1>3. CASE ReceiveList(c)
    <2> DEFINE rules == rrRules[r.set]
               q == [r EXCEPT !.at = "run", !.table = rules, !.handled = Handled(r.rcpts, rules)]
    <2>1. ReceiptOk(r) /\ r.at = "list"
      BY <1>0, <1>3, RequestAt DEF ReceiveList
    <2>2. r \in Receipts /\ r.set \in RuleSets /\ r.table = <<>> /\ r.acted = {}
      BY <2>1 DEF ReceiptOk
    <2>3. rules \in Seq(RuleRecords) /\ Distinct(rules)
      BY <1>0, <2>2
    <2>4. RuleGo(c, q) /\ UNCHANGED <<rrSets, rrRules, rrMails, rrOwed, rrStray>>
      BY <1>3 DEF ReceiveList
    <2> HIDE DEF rules
    <2>5. Handled(r.rcpts, rules) \in SUBSET Addresses
      BY <2>2 DEF Handled, Receipts
    <2>6. q \in Receipts /\ q.at = "run" /\ q.set = r.set /\ q.table = rules /\ q.acted = {}
          /\ q.handled = Handled(r.rcpts, rules) /\ q.rcpts = r.rcpts /\ q.next = r.next
      BY <2>2, <2>3, <2>5 DEF Receipts
    <2> HIDE DEF q
    <2>7. q.next = 1
      <3> QED
        BY <2>1, <2>6 DEF ReceiptOk
    <2>8. ReceiptOk(q)
      BY <2>2, <2>3, <2>6, <2>7 DEF ReceiptOk
    <2>9. RuleRequestOk(q, rrRules)
      BY <2>8 DEF RuleRequestOk
    <2> QED
      BY <1>0, <2>4, <2>9, RuleGoes
  <1> QED
    BY <1>1, <1>2, <1>3

\* The next rule acts on those it is for.
LEMMA RuleRuns == ASSUME RulesInv, NEW c \in RuleClients, RunRule(c) PROVE RulesInv'
  <1> DEFINE r == rrReq[c]
             i == r.next
             n == Len(r.table)
             rule == r.table[i]
             matched == {x \in r.handled : Applies(rule, x)}
             stops == matched # {} /\ rule.stop
             next == IF stops THEN n + 1 ELSE i + 1
             acts == {<<rule.name, x>> : x \in matched}
             q == [r EXCEPT !.next = next, !.acted = r.acted \cup acts]
  <1>0. r.at = "run" /\ i <= n /\ RuleGo(c, q) /\ UNCHANGED <<rrSets, rrRules, rrMails, rrOwed, rrStray>>
    BY DEF RunRule
  <1>1. ReceiptOk(r)
    <2>1. RuleRequestOk(r, rrRules)
      BY DEF RulesInv
    <2> QED
      BY <1>0, <2>1, RequestAt
  <1>2. /\ r \in Receipts /\ r.set \in RuleSets /\ Distinct(r.table) /\ r.handled = Handled(r.rcpts, r.table)
        /\ r.table \in Seq(RuleRecords) /\ r.next \in Nat /\ r.next >= 1
    BY <1>0, <1>1 DEF ReceiptOk, Receipts
  <1>3. n \in Nat /\ DOMAIN r.table = 1..n /\ i \in 1..n /\ rule \in RuleRecords
    BY <1>0, <1>2
  <1>4. matched = {x \in r.rcpts : Applies(rule, x)}
    BY <1>2, <1>3 DEF Handled
  <1>5. stops <=> Stopping(r, i)
    BY <1>3, <1>4 DEF Stopping, RuleRecords
  <1>6. /\ \A k \in 1..i - 1 : ~Stopping(r, k)
        /\ \A m \in 1..n : \A x \in r.rcpts :
              <<r.table[m].name, x>> \in r.acted <=>
                 m < i /\ Applies(r.table[m], x) /\ \A k \in 1..m - 1 : ~Stopping(r, k)
    BY <1>0, <1>1, <1>3 DEF ReceiptOk
  <1>7. \A m \in 1..n : \A x \in r.rcpts :
           <<r.table[m].name, x>> \in acts <=> m = i /\ Applies(rule, x)
    <2> TAKE m \in 1..n
    <2> TAKE x \in r.rcpts
    <2>1. r.table[m].name = rule.name <=> m = i
      BY <1>2, <1>3 DEF Distinct
    <2>2. <<r.table[m].name, x>> \in acts <=> r.table[m].name = rule.name /\ x \in matched
      OBVIOUS
    <2> QED
      BY <1>4, <2>1, <2>2
  <1>8. acts \subseteq RuleNames \X Addresses
    BY <1>2, <1>3, <1>4 DEF Receipts, RuleRecords
  <1> HIDE DEF acts, matched
  <1>9. /\ q \in Receipts /\ q.at = "run" /\ q.next = next /\ q.acted = r.acted \cup acts
        /\ q.table = r.table /\ q.rcpts = r.rcpts /\ q.handled = r.handled /\ q.set = r.set
    <2>1. next \in Nat
      BY <1>3
    <2> HIDE DEF next
    <2> QED
      BY <1>0, <1>2, <1>8, <2>1 DEF Receipts
  <1>10. \A k : Stopping(q, k) <=> Stopping(r, k)
    BY <1>9 DEF Stopping
  <1>11. next >= 1 /\ (next <= n => ~stops /\ next = i + 1) /\ (stops => next = n + 1) /\ next \in Nat
    <2>1. n \in Nat /\ i \in Nat /\ i <= n /\ i >= 1
      BY <1>3
    <2> HIDE DEF stops, n, i
    <2> QED
      BY <2>1
  <1> HIDE DEF q, next, stops
  <1>12. ASSUME next <= n, NEW k \in 1..next - 1 PROVE ~Stopping(q, k)
    <2>1. ~stops /\ next = i + 1
      BY <1>11, <1>12
    <2>2. k \in 1..i - 1 \/ k = i
      BY <1>3, <1>12, <2>1
    <2> QED
      BY <1>5, <1>6, <1>10, <2>1, <2>2
  <1>13. ASSUME NEW m \in 1..n, NEW x \in r.rcpts
         PROVE  <<r.table[m].name, x>> \in q.acted <=>
                   m < next /\ Applies(r.table[m], x) /\ \A k \in 1..m - 1 : ~Stopping(q, k)
    <2>1. <<r.table[m].name, x>> \in q.acted <=>
             \/ m < i /\ Applies(r.table[m], x) /\ \A k \in 1..m - 1 : ~Stopping(r, k)
             \/ m = i /\ Applies(rule, x)
      BY <1>6, <1>7, <1>9
    <2>2. stops => next = n + 1
      BY <1>11
    <2>3. ~stops => next = i + 1
      BY DEF next
    <2>4. i <= n /\ m <= n /\ n \in Nat /\ i \in Nat /\ m \in Nat
      BY <1>3
    <2>5. CASE m < i
      <3>1. m < next
        BY <2>2, <2>3, <2>4, <2>5
      <3>2. m # i
        BY <2>4, <2>5
      <3> QED
        BY <1>10, <2>1, <2>5, <3>1, <3>2
    <2>6. CASE m = i
      <3>1. m < next /\ ~(m < i)
        BY <2>2, <2>3, <2>4, <2>6
      <3> QED
        BY <1>6, <1>10, <2>1, <2>6, <3>1
    <2>7. CASE m > i
      <3>1. ~(m < i) /\ m # i /\ i \in 1..m - 1
        BY <1>3, <2>4, <2>7
      <3>2. CASE stops
        BY <1>5, <1>10, <2>1, <3>1, <3>2
      <3>3. CASE ~stops
        <4>1. ~(m < next)
          BY <2>3, <2>4, <2>7, <3>3
        <4> QED
          BY <2>1, <3>1, <4>1
      <3> QED
        BY <3>2, <3>3
    <2> QED
      BY <2>4, <2>5, <2>6, <2>7
  <1> HIDE DEF r, i, n, rule
  <1>14. Len(q.table) = n
    BY <1>9 DEF n
  <1>15. ReceiptOk(q)
    BY <1>2, <1>3, <1>9, <1>11, <1>12, <1>13, <1>14 DEF ReceiptOk
  <1>16. RuleRequestOk(q, rrRules)
    BY <1>15 DEF RuleRequestOk
  <1>17. DOMAIN rrSets \subseteq RuleSets
    BY DEF RulesInv
  <1> QED
    BY <1>0, <1>16, <1>17, RuleGoes

\* A message that is accepted, with every rule before it.
LEMMA MailAccepted == ASSUME RulesInv, NEW c \in RuleClients, AcceptMail(c) PROVE RulesInv'
  <1> DEFINE r == rrReq[c]
             mail == [rcpts |-> r.rcpts, table |-> r.table, acted |-> r.acted,
                      captured |-> r.rcpts \ r.handled # {}]
             Right(m) ==
                LET For(x) == {n \in DOMAIN m.table : m.table[n].enabled /\ RuleMatches(m.table[n], x)}
                    Stops(n) == m.table[n].stop /\ \E y \in m.rcpts : n \in For(y)
                IN  \A x \in m.rcpts :
                        /\ For(x) = {} => m.captured
                        /\ \A n \in DOMAIN m.table : (<<m.table[n].name, x>> \in m.acted) =
                              (n \in For(x) /\ \A k \in 1..n - 1 : ~Stops(k))
  <1>1. /\ r.at \in {"capture", "run"} /\ r.next > Len(r.table) /\ rrMails' = rrMails \cup {mail}
        /\ RuleGo(c, RuleIdle) /\ UNCHANGED <<rrSets, rrRules, rrOwed, rrStray>>
    BY DEF AcceptMail
  <1>2. ReceiptOk(r)
    <2>1. RuleRequestOk(r, rrRules)
      BY DEF RulesInv
    <2> QED
      BY <1>1, <2>1, RequestAt
  <1>3. /\ r.handled = Handled(r.rcpts, r.table) /\ r.table \in Seq(RuleRecords) /\ r.next \in Nat
        /\ \A n \in DOMAIN r.table : \A x \in r.rcpts :
              <<r.table[n].name, x>> \in r.acted <=>
                 n < r.next /\ Applies(r.table[n], x) /\ \A k \in 1..n - 1 : ~Stopping(r, k)
    BY <1>2 DEF ReceiptOk, Receipts
  <1>4. /\ mail.rcpts = r.rcpts /\ mail.table = r.table /\ mail.acted = r.acted
        /\ mail.captured = (r.rcpts \ r.handled # {})
    OBVIOUS
  <1> HIDE DEF mail
  <1>5. Right(mail)
    <2> DEFINE For(x) == {n \in DOMAIN r.table : r.table[n].enabled /\ RuleMatches(r.table[n], x)}
               Stops(n) == r.table[n].stop /\ \E y \in r.rcpts : n \in For(y)
    <2>1. DOMAIN r.table = 1..Len(r.table) /\ Len(r.table) \in Nat
      BY <1>3
    <2>2. \A x : \A n \in DOMAIN r.table : n \in For(x) <=> Applies(r.table[n], x)
      BY DEF Applies
    <2> HIDE DEF For
    <2>3. \A n \in DOMAIN r.table : Stops(n) <=> Stopping(r, n)
      BY <2>2 DEF Stopping
    <2>4. ASSUME NEW x \in r.rcpts, For(x) = {} PROVE mail.captured
      <3>1. x \notin r.handled
        BY <1>3, <2>2, <2>4 DEF Handled
      <3> QED
        BY <1>4, <2>4, <3>1
    <2>5. ASSUME NEW x \in r.rcpts, NEW n \in DOMAIN r.table
          PROVE  (<<r.table[n].name, x>> \in r.acted) <=> (n \in For(x) /\ \A k \in 1..n - 1 : ~Stops(k))
      <3>1. n < r.next /\ 1..n - 1 \subseteq DOMAIN r.table
        BY <1>1, <1>3, <2>1
      <3> HIDE DEF Stops
      <3> QED
        BY <1>3, <2>2, <2>3, <3>1
    <2> QED
      BY <1>4, <2>4, <2>5 DEF For
  <1>6. RecipientsAccountedFor'
    <2>1. \A m \in rrMails : Right(m)
      BY DEF RulesInv, RecipientsAccountedFor
    <2>2. \A m \in rrMails' : Right(m)
      <3> HIDE DEF Right
      <3> QED
        BY <1>1, <1>5, <2>1
    <2> QED
      BY <2>2 DEF RecipientsAccountedFor
  <1>7. /\ DOMAIN rrReq' = RuleClients
        /\ \A d \in RuleClients : rrReq'[d] = IF d = c THEN RuleIdle ELSE rrReq[d]
    BY <1>1 DEF RuleGo, RulesInv
  <1>8. \A d \in RuleClients : RuleRequestOk(rrReq'[d], rrRules')
    BY <1>1, <1>7, IdleRuleOk DEF RulesInv
  <1>9. RulesKept'
    BY <1>1 DEF RulesInv, RulesKept, RulesLostByOverlap, RulesHaveSet, Distinct, Names
  <1> HIDE DEF RuleRequestOk
  <1> QED
    BY <1>1, <1>6, <1>7, <1>8, <1>9 DEF RulesInv

\* Nothing but the active set changes.
LEMMA RulesStayPut ==
    ASSUME RulesInv, UNCHANGED <<rrRules, rrReq, rrMails, rrOwed, rrStray>>, DOMAIN rrSets' = DOMAIN rrSets
    PROVE  RulesInv'
  <1>1. \A d \in RuleClients : RuleRequestOk(rrReq'[d], rrRules')
    BY DEF RulesInv
  <1>2. RulesKept'
    BY DEF RulesInv, RulesKept, RulesLostByOverlap, RulesHaveSet, Distinct, Names
  <1>3. RecipientsAccountedFor'
    BY DEF RulesInv, RecipientsAccountedFor
  <1> HIDE DEF RuleRequestOk
  <1> QED
    BY <1>1, <1>2, <1>3 DEF RulesInv

\* The seeded rules.
LEMMA RulesInvInit == ReceiptRulesInit => RulesInv
  <1> SUFFICES ASSUME ReceiptRulesInit PROVE RulesInv
    OBVIOUS
  <1>1. PICK s \in RuleSets, names \in SeqOf(RuleNames, MaxRules) :
        \E bodies \in [DOMAIN names -> RuleBodies], active \in BOOLEAN :
        /\ IsInjective(names)
        /\ rrSets = [t \in {s} |-> active]
        /\ rrRules = [t \in RuleSets |->
              IF t = s THEN [n \in DOMAIN names |-> Rule(names[n], bodies[n])] ELSE <<>>]
        /\ rrOwed = [t \in RuleSets |-> IF t = s THEN Range(names) ELSE {}]
        /\ rrReq = [c \in RuleClients |-> RuleIdle]
        /\ rrCount = 0 /\ rrMails = {} /\ rrStray = {}
    BY DEF ReceiptRulesInit
  <1>2. PICK bodies \in [DOMAIN names -> RuleBodies], active \in BOOLEAN :
        /\ IsInjective(names)
        /\ rrSets = [t \in {s} |-> active]
        /\ rrRules = [t \in RuleSets |->
              IF t = s THEN [n \in DOMAIN names |-> Rule(names[n], bodies[n])] ELSE <<>>]
        /\ rrOwed = [t \in RuleSets |-> IF t = s THEN Range(names) ELSE {}]
        /\ rrReq = [c \in RuleClients |-> RuleIdle]
        /\ rrCount = 0 /\ rrMails = {} /\ rrStray = {}
    BY <1>1
  <1> DEFINE first == [n \in DOMAIN names |-> Rule(names[n], bodies[n])]
  <1>3. PICK m \in Nat : names \in [1..m -> RuleNames]
    BY ReceiptRulesConstants DEF SeqOf
  <1>4. DOMAIN first = 1..m /\ \A n \in 1..m : first[n] \in RuleRecords /\ first[n].name = names[n]
    BY <1>3, ReceiptRulesConstants DEF Rule, RuleRecords
  <1>5. first \in Seq(RuleRecords)
    BY <1>4
  <1> HIDE DEF first
  <1>6. Distinct(first) /\ Range(names) \subseteq Names(first)
    <2>1. DOMAIN names = 1..m /\ \A i, j \in 1..m : names[i] = names[j] => i = j
      BY <1>2, <1>3 DEF IsInjective
    <2>2. Distinct(first)
      BY <1>4, <2>1 DEF Distinct
    <2>3. Range(names) \subseteq Names(first)
      BY <1>4, <2>1 DEF Names, Range
    <2> QED
      BY <2>2, <2>3
  <1>7. Distinct(<<>>) /\ <<>> \in Seq(RuleRecords)
    BY DEF Distinct
  <1>8. rrRules = [t \in RuleSets |-> IF t = s THEN first ELSE <<>>]
    BY <1>2 DEF first
  <1>9. RulesKept
    BY <1>2, <1>6, <1>7, <1>8 DEF RulesKept, RulesLostByOverlap, RulesHaveSet
  <1>10. RecipientsAccountedFor
    BY <1>2 DEF RecipientsAccountedFor
  <1>11. \A c \in RuleClients : RuleRequestOk(rrReq[c], rrRules)
    BY <1>2 DEF RuleRequestOk
  <1> HIDE DEF RuleRequestOk
  <1> QED
    BY <1>2, <1>5, <1>7, <1>8, <1>9, <1>10, <1>11 DEF RulesInv

\* Every step keeps them.
LEMMA RulesInvNext == RulesInv /\ [ReceiptRulesNext]_rrVars => RulesInv'
  <1> SUFFICES ASSUME RulesInv, [ReceiptRulesNext]_rrVars PROVE RulesInv'
    OBVIOUS
  <1>1. CASE UNCHANGED rrVars
    BY <1>1, RulesStayPut DEF rrVars
  <1>2. CASE Deactivate
    <2>1. DOMAIN rrSets' = DOMAIN rrSets
      BY <1>2 DEF Deactivate
    <2> QED
      BY <1>2, <2>1, RulesStayPut DEF Deactivate
  <1> QED
    BY <1>1, <1>2, RuleAsking, RuleSetDeleted, RuleSetEmptied, RulesWritten, ReceiptStarts, RuleRuns,
       MailAccepted DEF ReceiptRulesNext

\* Rules are lost, doubled or left without their set only by requests that overlap, for
\* any sets, rules and clients: a list is written back as it was read, with one change.
THEOREM RulesAreKept == ReceiptRulesSpec => []RulesKept
  <1>1. RulesInv => RulesKept
    BY DEF RulesInv
  <1> QED
    BY <1>1, RulesInvInit, RulesInvNext, PTL DEF ReceiptRulesSpec

\* Each recipient of an accepted message is handled by the enabled rules that are for it,
\* up to the first StopAction, or the message is captured, however long the list of rules
\* and whatever others change meanwhile.
THEOREM RecipientsAreAccountedFor == ReceiptRulesSpec => []RecipientsAccountedFor
  <1>1. RulesInv => RecipientsAccountedFor
    BY DEF RulesInv
  <1> QED
    BY <1>1, RulesInvInit, RulesInvNext, PTL DEF ReceiptRulesSpec

-----------------------------------------------------------------------------
(* The SMTP listener *)

\* A line by whether its characters are dots, the commands that are logged, and the buffer.
Lines == Seq({".", "a"})

Commands == {<<"MAIL">>, <<"RSET">>, <<"REFUSED">>, <<"DATA">>} \cup ({"RCPT"} \X Mailboxes)

Buffers == [lines : Seq(Lines), size : Nat, overflow : BOOLEAN, cut : BOOLEAN]

\* Of the first n commands, the last are those that named the recipients, and before them
\* stands nothing that names one since the last MAIL, RSET or message.
Envelope(log, n, rcpts) ==
    /\ n \in Nat /\ n <= Len(log) /\ Len(rcpts) <= n
    /\ \A j \in 1..Len(rcpts) : log[n - Len(rcpts) + j] = <<"RCPT", rcpts[j]>>
    /\ \A i \in 1..n - Len(rcpts) :
          log[i][1] = "RCPT" => \E k \in i..n - Len(rcpts) : log[k][1] \in {"MAIL", "RSET", "DATA"}

\* While a message is read, what was kept of it and what is left to send are the message,
\* and the size is that of what was kept; when it was read to its end nothing is left.
\* Over the limit is what is a part of a message that is.
SmtpInv ==
    /\ smtpClient \in [text : Seq(Lines), left : Seq(Lines)]
    /\ smtpData \in Buffers
    /\ smtpLog \in Seq(Commands) /\ smtpRcpts \in Seq(Mailboxes)
    /\ smtpAt \in {"data", "deliver"} =>
          /\ smtpLog # <<>> /\ smtpLog[Len(smtpLog)] = <<"DATA">>
          /\ Envelope(smtpLog, Len(smtpLog) - 1, smtpRcpts)
          /\ ~smtpData.overflow /\ ~smtpData.cut =>
                smtpData.lines \o smtpClient.left = smtpClient.text
          /\ ~smtpData.overflow =>
                /\ smtpData.size = Cardinality(Characters(smtpData.lines))
                /\ smtpData.size <= MAX_MESSAGE
          /\ smtpData.overflow /\ ~smtpData.cut =>
                Cardinality(Characters(smtpClient.text)) > MAX_MESSAGE
    /\ smtpAt = "data" => ~smtpData.cut
    /\ smtpAt = "command" => Envelope(smtpLog, Len(smtpLog), smtpRcpts)
    /\ smtpAt = "deliver" /\ ~smtpData.cut => smtpClient.left = <<>>
    /\ MailExact

\* The positions that named the recipients of an envelope, and their ranks.
LEMMA EnvelopeNames ==
    ASSUME NEW log \in Seq(Commands), NEW rcpts \in Seq(Mailboxes), log # <<>>,
           Envelope(log, Len(log) - 1, rcpts)
    PROVE  /\ Len(rcpts) = Cardinality(Naming(log))
           /\ \A n \in Naming(log) : rcpts[Cardinality({k \in Naming(log) : k <= n})] = log[n][2]
  <1> DEFINE last == Len(log) - 1
             many == Len(rcpts)
             before == last - many
  <1>1. last \in Nat /\ many \in Nat /\ before \in Nat /\ before + many = last
    BY DEF Envelope
  <1>2. \A j \in 1..many : log[before + j] = <<"RCPT", rcpts[j]>>
    BY DEF Envelope
  <1>3. \A i \in 1..before :
           log[i][1] = "RCPT" => \E k \in i..before : log[k][1] \in {"MAIL", "RSET", "DATA"}
    BY DEF Envelope
  <1>4. Naming(log) = {n \in 1..last : log[n][1] = "RCPT"
              /\ \A k \in n..last : log[k][1] \notin {"MAIL", "RSET", "DATA"}}
    BY DEF Naming
  <1> HIDE DEF last, many, before
  <1>5. \A n \in (before + 1)..last : log[n] = <<"RCPT", rcpts[n - before]>> /\ n - before \in 1..many
    <2> TAKE n \in (before + 1)..last
    <2>1. n - before \in 1..many /\ before + (n - before) = n
      BY <1>1
    <2> QED
      BY <1>2, <2>1
  <1>6. Naming(log) = (before + 1)..last
    <2>1. ASSUME NEW n \in Naming(log) PROVE n \in (before + 1)..last
      <3>1. n \in 1..last /\ log[n][1] = "RCPT"
            /\ \A k \in n..last : log[k][1] \notin {"MAIL", "RSET", "DATA"}
        BY <1>4, <2>1
      <3>2. ASSUME n <= before PROVE FALSE
        <4>1. n \in 1..before
          BY <1>1, <3>1, <3>2
        <4>2. PICK k \in n..before : log[k][1] \in {"MAIL", "RSET", "DATA"}
          BY <1>3, <3>1, <4>1
        <4>3. k \in n..last
          BY <1>1, <3>1
        <4> QED
          BY <3>1, <4>2, <4>3
      <3> QED
        BY <1>1, <3>1, <3>2
    <2>2. ASSUME NEW n \in (before + 1)..last PROVE n \in Naming(log)
      <3>1. n \in 1..last /\ log[n][1] = "RCPT"
        BY <1>1, <1>5
      <3>2. ASSUME NEW k \in n..last PROVE log[k][1] \notin {"MAIL", "RSET", "DATA"}
        <4>1. k \in (before + 1)..last
          BY <1>1
        <4> QED
          BY <1>5, <4>1
      <3> QED
        BY <1>4, <3>1, <3>2
    <2> QED
      BY <2>1, <2>2
  <1>7. Cardinality((before + 1)..last) = many
    <2>1. Cardinality((before + 1)..last) =
             IF before + 1 > last THEN 0 ELSE last - (before + 1) + 1
      BY <1>1, FS_Interval
    <2> QED
      BY <1>1, <2>1
  <1>8. ASSUME NEW n \in (before + 1)..last
        PROVE  rcpts[Cardinality({k \in Naming(log) : k <= n})] = log[n][2]
    <2>1. {k \in Naming(log) : k <= n} = (before + 1)..n
      BY <1>1, <1>6
    <2>2. Cardinality((before + 1)..n) = n - before
      <3>1. Cardinality((before + 1)..n) = IF before + 1 > n THEN 0 ELSE n - (before + 1) + 1
        BY <1>1, FS_Interval
      <3> QED
        BY <1>1, <3>1
    <2>3. log[n] = <<"RCPT", rcpts[n - before]>>
      BY <1>5
    <2>4. log[n][2] = rcpts[n - before]
      BY <2>3
    <2> QED
      BY <2>1, <2>2, <2>4
  <1> QED
    BY <1>6, <1>7, <1>8 DEF many

\* A command that starts a transaction anew leaves an empty envelope.
LEMMA EnvelopeEmpty ==
    ASSUME NEW log \in Seq(Commands), NEW n \in Nat, n = Len(log), n # 0,
           log[n][1] \in {"MAIL", "RSET", "DATA"}
    PROVE  Envelope(log, n, <<>>)
  <1>1. Len(<<>>) = 0 /\ n - 0 = n
    OBVIOUS
  <1>2. ASSUME NEW i \in 1..n PROVE \E k \in i..n : log[k][1] \in {"MAIL", "RSET", "DATA"}
    BY <1>2
  <1> QED
    BY <1>1, <1>2 DEF Envelope

\* A recipient that is named, or a DATA that is refused.
LEMMA EnvelopeGrows ==
    ASSUME NEW log \in Seq(Commands), NEW rcpts \in Seq(Mailboxes),
           Envelope(log, Len(log), rcpts)
    PROVE  /\ \A x \in Mailboxes :
                 Envelope(Append(log, <<"RCPT", x>>), Len(log) + 1, Append(rcpts, x))
           /\ rcpts = <<>> => Envelope(Append(log, <<"REFUSED">>), Len(log) + 1, rcpts)
           /\ Envelope(Append(log, <<"DATA">>), Len(log), rcpts)
  <1> DEFINE n == Len(log)
             many == Len(rcpts)
  <1>1. n \in Nat /\ many \in Nat /\ many <= n
    BY DEF Envelope
  <1>2. \A j \in 1..many : log[n - many + j] = <<"RCPT", rcpts[j]>>
    BY DEF Envelope
  <1>3. \A i \in 1..n - many :
           log[i][1] = "RCPT" => \E k \in i..n - many : log[k][1] \in {"MAIL", "RSET", "DATA"}
    BY DEF Envelope
  <1>4. ASSUME NEW y
        PROVE  /\ Len(Append(log, y)) = n + 1 /\ Append(log, y)[n + 1] = y
               /\ \A i \in 1..n : Append(log, y)[i] = log[i]
    BY <1>4
  <1>5. ASSUME NEW x \in Mailboxes
        PROVE  Envelope(Append(log, <<"RCPT", x>>), n + 1, Append(rcpts, x))
    <2> DEFINE l == Append(log, <<"RCPT", x>>)
               r == Append(rcpts, x)
    <2>1. Len(r) = many + 1 /\ r[many + 1] = x /\ \A j \in 1..many : r[j] = rcpts[j]
      OBVIOUS
    <2>2. Len(l) = n + 1 /\ l[n + 1] = <<"RCPT", x>> /\ \A i \in 1..n : l[i] = log[i]
      BY <1>4
    <2> HIDE DEF l, r, n, many
    <2>3. ASSUME NEW j \in 1..many + 1 PROVE l[n + 1 - (many + 1) + j] = <<"RCPT", r[j]>>
      <3>1. CASE j = many + 1
        <4>1. n + 1 - (many + 1) + j = n + 1
          BY <1>1, <3>1
        <4> QED
          BY <2>1, <2>2, <3>1, <4>1
      <3>2. CASE j # many + 1
        <4>1. j \in 1..many /\ n + 1 - (many + 1) + j = n - many + j /\ n - many + j \in 1..n
          BY <1>1, <3>2
        <4> QED
          BY <1>2, <2>1, <2>2, <4>1
      <3> QED
        BY <3>1, <3>2
    <2>4. n + 1 - (many + 1) = n - many /\ n - many <= n
      BY <1>1
    <2>5. ASSUME NEW i \in 1..n - many, l[i][1] = "RCPT"
          PROVE  \E k \in i..n - many : l[k][1] \in {"MAIL", "RSET", "DATA"}
      <3>1. i \in 1..n /\ i..n - many \subseteq 1..n
        BY <1>1
      <3>2. log[i][1] = "RCPT"
        BY <2>2, <2>5, <3>1
      <3>3. PICK k \in i..n - many : log[k][1] \in {"MAIL", "RSET", "DATA"}
        BY <1>3, <3>2
      <3>4. l[k] = log[k]
        BY <2>2, <3>1
      <3> QED
        BY <3>3, <3>4
    <2>6. n + 1 \in Nat /\ many + 1 <= n + 1
      BY <1>1
    <2> DEFINE e == n + 1
    <2>7. Envelope(l, e, r)
      <3>1. e \in Nat /\ e <= Len(l) /\ Len(r) <= e /\ e - Len(r) = n - many /\ Len(r) = many + 1
        BY <1>1, <2>1, <2>2, <2>4, <2>6
      <3>2. \A j \in 1..Len(r) : l[e - Len(r) + j] = <<"RCPT", r[j]>>
        BY <2>3, <2>4, <3>1
      <3> HIDE DEF e
      <3>3. \A i \in 1..e - Len(r) : l[i][1] = "RCPT" =>
               \E k \in i..e - Len(r) : l[k][1] \in {"MAIL", "RSET", "DATA"}
        BY <2>5, <3>1
      <3> QED
        BY <3>1, <3>2, <3>3 DEF Envelope
    <2> QED
      BY <2>7 DEF l, r
  <1>6. ASSUME NEW y, NEW e \in {n, n + 1}, e = n \/ (y[1] # "RCPT" /\ rcpts = <<>>)
        PROVE  Envelope(Append(log, y), e, rcpts)
    <2> DEFINE l == Append(log, y)
    <2>1. Len(l) = n + 1 /\ l[n + 1] = y /\ \A i \in 1..n : l[i] = log[i]
      BY <1>4
    <2>2. e # n => many = 0
      BY <1>6
    <2>3. e \in Nat /\ e <= n + 1 /\ many <= e
      BY <1>1
    <2> HIDE DEF l, n, many
    <2>4. ASSUME NEW j \in 1..many PROVE l[e - many + j] = <<"RCPT", rcpts[j]>>
      <3>1. e = n /\ n - many + j \in 1..n
        BY <1>1, <2>2
      <3> QED
        BY <1>2, <2>1, <3>1
    <2>5. ASSUME NEW i \in 1..e - many, l[i][1] = "RCPT"
          PROVE  \E k \in i..e - many : l[k][1] \in {"MAIL", "RSET", "DATA"}
      <3>1. i # n + 1
        <4>1. CASE e = n
          BY <1>1, <4>1
        <4>2. CASE e # n
          BY <1>6, <2>1, <2>5, <4>2
        <4> QED
          BY <4>1, <4>2
      <3>2. i \in 1..n - many /\ n - many <= e - many
        BY <1>1, <2>2, <2>3, <3>1
      <3>3. i..n - many \subseteq i..e - many /\ i..n - many \subseteq 1..n /\ i \in 1..n
        BY <1>1, <2>3, <3>2
      <3>4. log[i][1] = "RCPT"
        BY <2>1, <2>5, <3>3
      <3>5. PICK k \in i..n - many : log[k][1] \in {"MAIL", "RSET", "DATA"}
        BY <1>3, <3>2, <3>4
      <3>6. l[k] = log[k] /\ k \in i..e - many
        BY <2>1, <3>3
      <3> QED
        BY <3>5, <3>6
    <2>6. Envelope(l, e, rcpts)
      BY <2>1, <2>3, <2>4, <2>5 DEF Envelope, many
    <2> QED
      BY <2>6 DEF l
  <1>7. rcpts = <<>> => Envelope(Append(log, <<"REFUSED">>), n + 1, rcpts)
    <2>1. <<"REFUSED">>[1] # "RCPT"
      OBVIOUS
    <2> QED
      BY <1>6, <2>1
  <1>8. Envelope(Append(log, <<"DATA">>), n, rcpts)
    BY <1>6
  <1> QED
    BY <1>5, <1>7, <1>8

\* The characters of a text are finitely many, and a line more adds its own.
LEMMA CharactersCount ==
    ASSUME NEW text \in Seq(Lines), NEW line \in Lines
    PROVE  /\ IsFiniteSet(Characters(text)) /\ Cardinality(Characters(text)) \in Nat
           /\ Cardinality(Characters(Append(text, line)))
                = Cardinality(Characters(text)) + Len(line) + 1
  <1> DEFINE n == Len(text)
             Of(k, t) == {k} \X (0..Len(t))
  <1>1. n \in Nat /\ DOMAIN text = 1..n /\ \A k \in 1..n : text[k] \in Lines
    OBVIOUS
  <1>2. ASSUME NEW k, NEW t \in Lines
        PROVE  IsFiniteSet(Of(k, t)) /\ Cardinality(Of(k, t)) = Len(t) + 1
    <2>1. Len(t) \in Nat
      BY DEF Lines
    <2>2. IsFiniteSet(0..Len(t)) /\ Cardinality(0..Len(t)) = Len(t) + 1
      <3>1. Cardinality(0..Len(t)) = IF 0 > Len(t) THEN 0 ELSE Len(t) - 0 + 1
        BY <2>1, FS_Interval
      <3> QED
        BY <2>1, <3>1, FS_Interval
    <2>3. IsFiniteSet({k}) /\ Cardinality({k}) = 1
      BY FS_Singleton
    <2>4. /\ IsFiniteSet({k} \X (0..Len(t)))
          /\ Cardinality({k} \X (0..Len(t))) = Cardinality({k}) * Cardinality(0..Len(t))
      <3> DEFINE one == {k}
                 zone == 0..Len(t)
      <3>1. IsFiniteSet(one) /\ IsFiniteSet(zone)
        BY <2>2, <2>3
      <3> HIDE DEF one, zone
      <3>2. IsFiniteSet(one \X zone) /\ Cardinality(one \X zone) = Cardinality(one) * Cardinality(zone)
        BY <3>1, FS_Product
      <3> QED
        BY <3>2 DEF one, zone
    <2> QED
      BY <2>1, <2>2, <2>3, <2>4
  <1>3. IsFiniteSet(Characters(text))
    <2> DEFINE block == [k \in 1..n |-> Of(k, text[k])]
               blocks == {block[k] : k \in 1..n}
    <2>1. IsFiniteSet(1..n)
      BY <1>1, FS_Interval
    <2>2. IsFiniteSet(blocks)
      <3>1. block \in Surjection(1..n, blocks)
        BY DEF Surjection
      <3> HIDE DEF block, blocks
      <3> QED
        BY <2>1, <3>1, FS_Surjection
    <2>3. \A k \in 1..n : block[k] = Of(k, text[k]) /\ IsFiniteSet(Of(k, text[k]))
      BY <1>1, <1>2
    <2>4. IsFiniteSet(UNION blocks)
      <3>1. \A p \in blocks : IsFiniteSet(p)
        BY <2>3
      <3> HIDE DEF blocks
      <3> QED
        BY <2>2, <3>1, FS_UNION
    <2>5. Characters(text) = UNION blocks
      BY <1>1 DEF Characters
    <2> QED
      BY <2>4, <2>5
  <1>4. Cardinality(Characters(text)) \in Nat
    BY <1>3, FS_CardinalityType
  <1> DEFINE more == Append(text, line)
  <1>5. DOMAIN more = 1..(n + 1) /\ more[n + 1] = line /\ \A k \in 1..n : more[k] = text[k]
    OBVIOUS
  <1>6. Characters(more) = Characters(text) \cup Of(n + 1, line)
    <2> HIDE DEF more, n
    <2>1. ASSUME NEW p \in Characters(more) PROVE p \in Characters(text) \cup Of(n + 1, line)
      <3>1. PICK k \in 1..(n + 1) : p \in {k} \X (0..Len(more[k]))
        BY <1>5 DEF Characters
      <3>2. CASE k = n + 1
        BY <1>5, <3>1, <3>2
      <3>3. CASE k # n + 1
        <4>1. k \in 1..n
          BY <1>1, <3>3
        <4> QED
          BY <1>1, <1>5, <3>1, <4>1 DEF Characters
      <3> QED
        BY <3>2, <3>3
    <2>2. ASSUME NEW p \in Characters(text) PROVE p \in Characters(more)
      <3>1. PICK k \in 1..n : p \in {k} \X (0..Len(text[k]))
        BY <1>1 DEF Characters
      <3>2. k \in 1..(n + 1)
        BY <1>1
      <3> QED
        BY <1>5, <3>1, <3>2 DEF Characters
    <2>3. ASSUME NEW p \in Of(n + 1, line) PROVE p \in Characters(more)
      <3>1. n + 1 \in 1..(n + 1)
        BY <1>1
      <3> QED
        BY <1>5, <2>3, <3>1 DEF Characters
    <2> QED
      BY <2>1, <2>2, <2>3
  <1>7. Characters(text) \cap Of(n + 1, line) = {}
    <2> HIDE DEF n
    <2> SUFFICES ASSUME NEW p \in Characters(text), p \in Of(n + 1, line) PROVE FALSE
      OBVIOUS
    <2>1. PICK k \in 1..n : p \in {k} \X (0..Len(text[k]))
      BY <1>1 DEF Characters
    <2>2. p[1] = k /\ p[1] = n + 1
      BY <2>1
    <2> QED
      BY <1>1, <2>2
  <1>8. Len(line) \in Nat
    BY DEF Lines
  <1> HIDE DEF Of, more, n
  <1>9. Cardinality(Characters(more)) = Cardinality(Characters(text)) + Cardinality(Of(n + 1, line))
    <2>1. IsFiniteSet(Of(n + 1, line)) /\ Cardinality(Of(n + 1, line)) = Len(line) + 1
      BY <1>2
    <2>2. Cardinality(Characters(more)) = Cardinality(Characters(text)) + Cardinality(Of(n + 1, line))
             - Cardinality(Characters(text) \cap Of(n + 1, line))
      BY <1>3, <1>6, <2>1, FS_Union
    <2>3. Cardinality(Characters(text) \cap Of(n + 1, line)) = 0
      BY <1>7, FS_EmptySet
    <2> QED
      BY <1>4, <1>8, <2>1, <2>2, <2>3
  <1>10. Cardinality(Of(n + 1, line)) = Len(line) + 1
    BY <1>2
  <1> QED
    BY <1>3, <1>4, <1>8, <1>9, <1>10 DEF more

\* The first lines of a text have no more characters than the text.
LEMMA FewerCharacters ==
    ASSUME NEW s \in Seq(Lines), NEW t \in Seq(Lines)
    PROVE  /\ Cardinality(Characters(s)) \in Nat /\ Cardinality(Characters(s \o t)) \in Nat
           /\ Cardinality(Characters(s)) <= Cardinality(Characters(s \o t))
  <1>1. s \o t \in Seq(Lines) /\ DOMAIN s \subseteq DOMAIN (s \o t)
        /\ \A n \in DOMAIN s : (s \o t)[n] = s[n]
    OBVIOUS
  <1>2. Characters(s) \subseteq Characters(s \o t)
    BY <1>1 DEF Characters
  <1>3. <<>> \in Lines
    BY DEF Lines
  <1>4. /\ IsFiniteSet(Characters(s \o t)) /\ Cardinality(Characters(s \o t)) \in Nat
        /\ Cardinality(Characters(s)) \in Nat
    BY <1>1, <1>3, CharactersCount
  <1> QED
    BY <1>2, <1>4, FS_Subset

\* The dot that the client puts before a line that starts with one is taken off again,
\* and no line looks like the end.
LEMMA StuffedBack ==
    ASSUME NEW line \in Lines
    PROVE  ~Ends(Stuffed(line)) /\ Unstuffed(Stuffed(line)) = line
  <1>1. CASE line # <<>> /\ line[1] = "."
    <2> DEFINE w == <<".">> \o line
    <2>1. Len(line) \in Nat /\ Len(line) >= 1
      BY <1>1, EmptySeq DEF Lines
    <2>2. /\ w \in Seq({".", "a"}) /\ Len(w) = Len(line) + 1 /\ w[1] = "." /\ w[2] = line[1]
          /\ \A n \in 1..Len(line) : w[n + 1] = line[n]
      BY <2>1 DEF Lines
    <2>3. Tail(w) = line
      <3>1. Tail(w) = [n \in 1..Len(line) |-> w[n + 1]]
        BY <2>1, <2>2
      <3>2. line = [n \in 1..Len(line) |-> line[n]]
        BY DEF Lines
      <3> QED
        BY <2>2, <3>1, <3>2
    <2>4. Len(w) >= 2 /\ Len(<<".">>) = 1
      BY <2>1, <2>2
    <2>5. Stuffed(line) = w
      BY <1>1 DEF Stuffed
    <2> HIDE DEF w
    <2>6. w # <<".">>
      <3> SUFFICES ASSUME w = <<".">> PROVE FALSE
        OBVIOUS
      <3>1. Len(w) = 1
        BY <2>4
      <3> QED
        BY <2>4, <3>1
    <2>7. Unstuffed(w) = Tail(w)
      BY <1>1, <2>2, <2>4 DEF Unstuffed
    <2> QED
      BY <2>3, <2>5, <2>6, <2>7 DEF Ends
  <1>2. CASE ~(line # <<>> /\ line[1] = ".")
    <2>1. Stuffed(line) = line /\ Unstuffed(line) = line
      <3>1. CASE line = <<>>
        BY <3>1 DEF Stuffed, Unstuffed
      <3>2. CASE line[1] # "."
        BY <3>2 DEF Stuffed, Unstuffed
      <3> QED
        BY <3>1, <3>2, <1>2
    <2>2. ~Ends(line)
      BY <1>2 DEF Ends
    <2> QED
      BY <2>1, <2>2
  <1> QED
    BY <1>1, <1>2

\* Commands leave the client, the buffer and the mails alone.
LEMMA SmtpCommands ==
    ASSUME SmtpInv, smtpAt = "command", smtpAt' \in {"command", "closed"},
           UNCHANGED <<smtpData, smtpClient, smtpMails>>,
           smtpLog' \in Seq(Commands), smtpRcpts' \in Seq(Mailboxes),
           smtpAt' = "command" => Envelope(smtpLog', Len(smtpLog'), smtpRcpts')
    PROVE  SmtpInv'
  BY DEF SmtpInv, MailExact, EnvelopesExact, DeliveredWhole, RefusedIfTooBig, StoredAsWritten

\* MAIL, RCPT, RSET, a DATA that is refused, and the end of the session.
LEMMA SmtpCommandKeeps ==
    ASSUME SmtpInv, MailFrom \/ Rset \/ DataRefused \/ Quit \/ \E x \in Mailboxes : RcptTo(x)
    PROVE  SmtpInv'
  <1>1. smtpLog \in Seq(Commands) /\ smtpRcpts \in Seq(Mailboxes)
    BY DEF SmtpInv
  <1>2. smtpAt = "command" /\ Envelope(smtpLog, Len(smtpLog), smtpRcpts)
    BY DEF SmtpInv, MailFrom, Rset, DataRefused, Quit, RcptTo, Command
  <1>3. ASSUME NEW y \in Commands
        PROVE  /\ Append(smtpLog, y) \in Seq(Commands) /\ Len(Append(smtpLog, y)) = Len(smtpLog) + 1
               /\ Append(smtpLog, y)[Len(smtpLog) + 1] = y /\ Len(smtpLog) + 1 \in Nat
               /\ Len(smtpLog) + 1 # 0
    BY <1>1, <1>3
  <1>4. CASE MailFrom \/ Rset
    <2>1. PICK y \in {<<"MAIL">>, <<"RSET">>} :
             /\ smtpLog' = Append(smtpLog, y) /\ smtpRcpts' = <<>> /\ smtpAt' = smtpAt
             /\ UNCHANGED <<smtpData, smtpClient, smtpMails>>
      BY <1>4 DEF MailFrom, Rset, Command, NoRcpts
    <2>2. y \in Commands /\ y[1] \in {"MAIL", "RSET", "DATA"}
      BY <2>1 DEF Commands
    <2>3. Envelope(Append(smtpLog, y), Len(smtpLog) + 1, <<>>)
      BY <1>3, <2>2, EnvelopeEmpty
    <2> QED
      BY <1>2, <1>3, <2>1, <2>2, <2>3, SmtpCommands
  <1>5. CASE DataRefused
    <2>1. /\ smtpLog' = Append(smtpLog, <<"REFUSED">>) /\ smtpRcpts' = smtpRcpts /\ smtpRcpts = <<>>
          /\ smtpAt' = smtpAt /\ UNCHANGED <<smtpData, smtpClient, smtpMails>>
      BY <1>5 DEF DataRefused, Command
    <2>2. Envelope(Append(smtpLog, <<"REFUSED">>), Len(smtpLog) + 1, smtpRcpts)
      BY <1>1, <1>2, <2>1, EnvelopeGrows
    <2>3. <<"REFUSED">> \in Commands
      BY DEF Commands
    <2> QED
      BY <1>1, <1>2, <1>3, <2>1, <2>2, <2>3, SmtpCommands
  <1>6. ASSUME NEW x \in Mailboxes, RcptTo(x) PROVE SmtpInv'
    <2>1. /\ smtpLog' = Append(smtpLog, <<"RCPT", x>>) /\ smtpRcpts' = Append(smtpRcpts, x)
          /\ smtpAt' = smtpAt /\ UNCHANGED <<smtpData, smtpClient, smtpMails>>
      BY <1>6 DEF RcptTo, Command
    <2>2. Envelope(Append(smtpLog, <<"RCPT", x>>), Len(smtpLog) + 1, Append(smtpRcpts, x))
      BY <1>1, <1>2, EnvelopeGrows
    <2>3. <<"RCPT", x>> \in Commands /\ Append(smtpRcpts, x) \in Seq(Mailboxes)
      BY <1>1 DEF Commands
    <2> QED
      BY <1>2, <1>3, <2>1, <2>2, <2>3, SmtpCommands
  <1>7. CASE Quit
    BY <1>1, <1>2, <1>7, SmtpCommands DEF Quit
  <1> QED
    BY <1>4, <1>5, <1>6, <1>7

\* The mails stay exact while none is added.
LEMMA MailsStay == ASSUME SmtpInv, smtpMails' = smtpMails PROVE MailExact'
  BY DEF SmtpInv, MailExact, EnvelopesExact, DeliveredWhole, RefusedIfTooBig, StoredAsWritten

\* DATA opens a message: the log ends with it, and nothing was kept yet.
LEMMA SmtpDataKeeps ==
    ASSUME SmtpInv, NEW text \in Texts, Data(text)
    PROVE  SmtpInv'
  <1>1. text \in Seq(Lines)
    BY SmtpConstants DEF Lines
  <1>2. /\ smtpAt = "command" /\ smtpAt' = "data" /\ smtpData' = Fresh /\ smtpMails' = smtpMails
        /\ smtpClient' = [text |-> text, left |-> text] /\ smtpRcpts' = smtpRcpts
        /\ smtpLog' = Append(smtpLog, <<"DATA">>)
    BY DEF Data, Command
  <1>3. smtpLog \in Seq(Commands) /\ smtpRcpts \in Seq(Mailboxes) /\ Envelope(smtpLog, Len(smtpLog), smtpRcpts)
    BY <1>2 DEF SmtpInv
  <1>4. /\ smtpLog' \in Seq(Commands) /\ smtpLog' # <<>> /\ Len(smtpLog') - 1 = Len(smtpLog)
        /\ smtpLog'[Len(smtpLog')] = <<"DATA">>
    <2>1. <<"DATA">> \in Commands
      BY DEF Commands
    <2> QED
      BY <1>2, <1>3, <2>1
  <1>5. Envelope(smtpLog', Len(smtpLog') - 1, smtpRcpts')
    BY <1>2, <1>3, <1>4, EnvelopeGrows
  <1>6. /\ Fresh \in Buffers /\ Fresh.lines = <<>> /\ ~Fresh.overflow /\ ~Fresh.cut /\ Fresh.size = 0
    BY DEF Fresh, Buffers
  <1>7. Cardinality(Characters(<<>>)) = 0
    <2>1. Characters(<<>>) = {}
      BY DEF Characters
    <2> QED
      BY <2>1, FS_EmptySet
  <1>8. <<>> \o text = text /\ 0 <= MAX_MESSAGE
    BY <1>1, SmtpConstants
  <1>9. smtpClient' \in [text : Seq(Lines), left : Seq(Lines)] /\ smtpClient'.left = text /\ smtpClient'.text = text
    BY <1>1, <1>2
  <1>10. MailExact'
    BY <1>2, MailsStay
  <1> QED
    BY <1>2, <1>3, <1>4, <1>5, <1>6, <1>7, <1>8, <1>9, <1>10 DEF SmtpInv

\* The dot that ends the message.
LEMMA SmtpEndKeeps ==
    ASSUME SmtpInv, ReadLine, smtpClient.left = <<>>
    PROVE  SmtpInv'
  <1>1. /\ smtpAt = "data" /\ smtpAt' = "deliver"
        /\ UNCHANGED <<smtpClient, smtpData, smtpMails, smtpRcpts, smtpLog>>
    BY DEF ReadLine, Ends
  <1>2. MailExact'
    BY <1>1, MailsStay
  <1> QED
    BY <1>1, <1>2 DEF SmtpInv

\* A line of the message.
LEMMA SmtpLineKeeps ==
    ASSUME SmtpInv, ReadLine, smtpClient.left # <<>>
    PROVE  SmtpInv'
  <1> DEFINE left == smtpClient.left
             line == Head(left)
             d == smtpData
             size == d.size + Len(line) + 1
             kept == [d EXCEPT !.lines = Append(d.lines, line), !.size = size]
             over == [d EXCEPT !.overflow = TRUE]
  <1>0. smtpClient \in [text : Seq(Lines), left : Seq(Lines)] /\ smtpData \in Buffers
    BY DEF SmtpInv
  <1>1. left \in Seq(Lines) /\ left # <<>> /\ d.lines \in Seq(Lines) /\ d.size \in Nat
    BY <1>0 DEF Buffers
  <1>2. line \in Lines /\ Tail(left) \in Seq(Lines) /\ Len(line) \in Nat
    BY <1>1 DEF Lines
  <1>3. ~Ends(Stuffed(line)) /\ Unstuffed(Stuffed(line)) = line
    BY <1>2, StuffedBack
  <1>4. /\ smtpAt = "data" /\ smtpAt' = "data" /\ smtpData' = Extended(d, line)
        /\ smtpClient' = [smtpClient EXCEPT !.left = Tail(left)]
        /\ UNCHANGED <<smtpMails, smtpRcpts, smtpLog>>
    BY <1>3 DEF ReadLine
  <1>5. /\ smtpClient' \in [text : Seq(Lines), left : Seq(Lines)]
        /\ smtpClient'.left = Tail(left) /\ smtpClient'.text = smtpClient.text
    BY <1>0, <1>2, <1>4
  <1>6. MailExact'
    BY <1>4, MailsStay
  <1>7. /\ ~d.cut
        /\ ~d.overflow => /\ d.lines \o left = smtpClient.text
                          /\ d.size = Cardinality(Characters(d.lines)) /\ d.size <= MAX_MESSAGE
        /\ d.overflow => Cardinality(Characters(smtpClient.text)) > MAX_MESSAGE
    BY <1>4 DEF SmtpInv
  <1>8. Append(d.lines, line) \o Tail(left) = d.lines \o left /\ Append(d.lines, line) \in Seq(Lines)
    <2> HIDE DEF line, left, d
    <2>1. Append(d.lines, Head(left)) \o Tail(left) = d.lines \o left
      BY <1>1, HeadTaken
    <2> QED
      BY <1>1, <1>2, <2>1 DEF line
  <1>9. size \in Nat /\ MAX_MESSAGE \in Nat
    BY <1>1, <1>2, SmtpConstants
  <1>10. ~d.overflow => size = Cardinality(Characters(Append(d.lines, line)))
    BY <1>1, <1>2, <1>7, CharactersCount
  <1>11. /\ kept \in Buffers /\ kept.lines = Append(d.lines, line) /\ kept.size = size
         /\ kept.overflow = d.overflow /\ kept.cut = d.cut
    <2> HIDE DEF size
    <2> QED
      BY <1>0, <1>8, <1>9 DEF Buffers
  <1>12. /\ over \in Buffers /\ over.overflow = TRUE /\ over.cut = d.cut
    BY <1>0 DEF Buffers
  <1>13. CASE d.overflow
    <2>1. smtpData' = d
      BY <1>4, <1>13 DEF Extended
    <2> QED
      BY <1>0, <1>4, <1>5, <1>6, <1>7, <1>13, <2>1 DEF SmtpInv
  <1>14. CASE ~d.overflow /\ size > MAX_MESSAGE
    <2>1. smtpData' = over
      BY <1>4, <1>14 DEF Extended
    <2>2. Cardinality(Characters(smtpClient.text)) > MAX_MESSAGE
      <3>1. /\ Cardinality(Characters(Append(d.lines, line))) \in Nat
            /\ Cardinality(Characters(smtpClient.text)) \in Nat
            /\ Cardinality(Characters(Append(d.lines, line))) <= Cardinality(Characters(smtpClient.text))
        <4>1. Append(d.lines, line) \o Tail(left) = smtpClient.text
          BY <1>7, <1>8, <1>14
        <4> HIDE DEF d, line, left
        <4> QED
          BY <1>2, <1>8, <4>1, FewerCharacters
      <3> HIDE DEF size
      <3> QED
        BY <1>9, <1>10, <1>14, <3>1
    <2> HIDE DEF over
    <2> QED
      BY <1>4, <1>5, <1>6, <1>7, <1>12, <2>1, <2>2 DEF SmtpInv
  <1>15. CASE ~d.overflow /\ ~(size > MAX_MESSAGE)
    <2>1. smtpData' = kept
      BY <1>4, <1>15 DEF Extended
    <2>2. size <= MAX_MESSAGE
      <3> HIDE DEF size
      <3> QED
        BY <1>9, <1>15
    <2> HIDE DEF kept, size
    <2> QED
      BY <1>4, <1>5, <1>6, <1>7, <1>8, <1>10, <1>11, <1>15, <2>1, <2>2 DEF SmtpInv
  <1> QED
    BY <1>13, <1>14, <1>15

\* The connection ends inside the message.
LEMMA SmtpCutKeeps == ASSUME SmtpInv, CutOff PROVE SmtpInv'
  <1>1. /\ smtpAt = "data" /\ smtpAt' = "deliver" /\ smtpData' = [smtpData EXCEPT !.cut = TRUE]
        /\ UNCHANGED <<smtpClient, smtpMails, smtpRcpts, smtpLog>>
    BY DEF CutOff
  <1>2. /\ smtpData' \in Buffers /\ smtpData'.cut = TRUE /\ smtpData'.overflow = smtpData.overflow
        /\ smtpData'.lines = smtpData.lines /\ smtpData'.size = smtpData.size
    BY <1>1 DEF SmtpInv, Buffers
  <1>3. MailExact'
    BY <1>1, MailsStay
  <1> QED
    BY <1>1, <1>2, <1>3 DEF SmtpInv

\* A message is answered, and with it the transaction ends.
LEMMA SmtpAnswerKeeps == ASSUME SmtpInv, TooBig \/ Deliver \/ DeliveryFails PROVE SmtpInv'
  <1>1. /\ smtpAt = "deliver" /\ smtpAt' \in {"command", "closed"}
        /\ smtpData' = Fresh /\ smtpRcpts' = <<>> /\ UNCHANGED <<smtpClient, smtpLog>>
        /\ \/ smtpData.overflow /\ smtpMails' = smtpMails \cup {Mail(552)}
           \/ ~smtpData.overflow /\ smtpMails' = smtpMails \cup {Mail(250)}
           \/ smtpMails' = smtpMails
    BY DEF TooBig, Deliver, DeliveryFails, Answer, NoRcpts
  <1>2. /\ smtpLog \in Seq(Commands) /\ smtpRcpts \in Seq(Mailboxes) /\ smtpLog # <<>>
        /\ smtpLog[Len(smtpLog)] = <<"DATA">> /\ Envelope(smtpLog, Len(smtpLog) - 1, smtpRcpts)
        /\ smtpData \in Buffers /\ smtpClient \in [text : Seq(Lines), left : Seq(Lines)]
    BY <1>1 DEF SmtpInv
  <1>3. Envelope(smtpLog, Len(smtpLog), <<>>)
    <2>1. Len(smtpLog) \in Nat /\ Len(smtpLog) # 0
      BY <1>2
    <2>2. smtpLog[Len(smtpLog)][1] \in {"MAIL", "RSET", "DATA"}
      BY <1>2
    <2> QED
      BY <1>2, <2>1, <2>2, EnvelopeEmpty
  <1>4. ASSUME ~smtpData.overflow, ~smtpData.cut
        PROVE  smtpData.lines = smtpClient.text /\ ~(Cardinality(Characters(smtpClient.text)) > MAX_MESSAGE)
    <2>1. smtpData.lines \o <<>> = smtpClient.text
      BY <1>1, <1>4 DEF SmtpInv
    <2>2. smtpData.lines \in Seq(Lines) /\ smtpData.size \in Nat
      BY <1>2 DEF Buffers
    <2>3. smtpData.lines = smtpClient.text
      BY <2>1, <2>2
    <2>4. smtpData.size = Cardinality(Characters(smtpClient.text)) /\ smtpData.size <= MAX_MESSAGE
      BY <1>1, <1>4, <2>3 DEF SmtpInv
    <2> QED
      BY <2>2, <2>3, <2>4, SmtpConstants
  <1>5. smtpData.overflow /\ ~smtpData.cut => Cardinality(Characters(smtpClient.text)) > MAX_MESSAGE
    BY <1>1 DEF SmtpInv
  <1>6. \A a : /\ Mail(a).answer = a /\ Mail(a).lines = smtpData.lines /\ Mail(a).cut = smtpData.cut
               /\ Mail(a).text = smtpClient.text /\ Mail(a).log = smtpLog /\ Mail(a).rcpts = smtpRcpts
    BY DEF Mail
  <1>7. /\ Len(smtpRcpts) = Cardinality(Naming(smtpLog))
        /\ \A n \in Naming(smtpLog) :
              smtpRcpts[Cardinality({k \in Naming(smtpLog) : k <= n})] = smtpLog[n][2]
    BY <1>2, EnvelopeNames
  <1>8. EnvelopesExact'
    <2>1. ASSUME NEW m \in smtpMails'
          PROVE  /\ Len(m.rcpts) = Cardinality(Naming(m.log))
                 /\ \A n \in Naming(m.log) :
                       m.rcpts[Cardinality({k \in Naming(m.log) : k <= n})] = m.log[n][2]
      <3>1. CASE m \in smtpMails
        BY <3>1 DEF SmtpInv, MailExact, EnvelopesExact
      <3>2. CASE m = Mail(552) \/ m = Mail(250)
        <4>1. m.log = smtpLog /\ m.rcpts = smtpRcpts
          BY <1>6, <3>2
        <4> QED
          BY <1>7, <4>1
      <3> QED
        BY <1>1, <3>1, <3>2
    <2> QED
      BY <2>1 DEF EnvelopesExact
  <1>9. RefusedIfTooBig'
    <2>1. ASSUME NEW m \in smtpMails', ~m.cut
          PROVE  (m.answer = 552) <=> (Cardinality(Characters(m.text)) > MAX_MESSAGE)
      <3>1. CASE m \in smtpMails
        BY <2>1, <3>1 DEF SmtpInv, MailExact, DeliveredWhole, RefusedIfTooBig
      <3>2. CASE m = Mail(552) /\ smtpData.overflow
        BY <1>5, <1>6, <2>1, <3>2
      <3>3. CASE m = Mail(250) /\ ~smtpData.overflow
        BY <1>4, <1>6, <2>1, <3>3
      <3> QED
        BY <1>1, <3>1, <3>2, <3>3
    <2> QED
      BY <2>1 DEF RefusedIfTooBig
  <1>10. StoredAsWritten'
    <2>1. ASSUME NEW m \in smtpMails', ~m.cut, m.answer = 250 PROVE m.lines = m.text
      <3>1. CASE m \in smtpMails
        BY <2>1, <3>1 DEF SmtpInv, MailExact, DeliveredWhole, StoredAsWritten
      <3>2. CASE m = Mail(552)
        BY <1>6, <2>1, <3>2
      <3>3. CASE m = Mail(250) /\ ~smtpData.overflow
        BY <1>4, <1>6, <2>1, <3>3
      <3> QED
        BY <1>1, <3>1, <3>2, <3>3
    <2> QED
      BY <2>1 DEF StoredAsWritten
  <1>11. Fresh \in Buffers
    BY DEF Fresh, Buffers
  <1>12. MailExact'
    BY <1>8, <1>9, <1>10 DEF MailExact, DeliveredWhole
  <1> QED
    BY <1>1, <1>2, <1>3, <1>11, <1>12 DEF SmtpInv

\* A message reaches those whom its own transaction named, in that order and as often, and
\* is stored line by line as the client has it or, if and only if it is too big, refused:
\* for every session, message and limit.
THEOREM MailIsExact == SmtpSpec => []MailExact
  <1>1. SmtpInit => SmtpInv
    <2> SUFFICES ASSUME SmtpInit PROVE SmtpInv
      OBVIOUS
    <2>1. /\ smtpAt = "command" /\ smtpRcpts = <<>> /\ smtpData = Fresh /\ smtpLog = <<>> /\ smtpMails = {}
          /\ smtpClient = [text |-> <<>>, left |-> <<>>]
      BY DEF SmtpInit
    <2>2. Fresh \in Buffers
      BY DEF Fresh, Buffers
    <2>3. Envelope(<<>>, 0, <<>>) /\ Len(<<>>) = 0
      BY DEF Envelope
    <2>4. MailExact
      BY <2>1 DEF MailExact, EnvelopesExact, DeliveredWhole, RefusedIfTooBig, StoredAsWritten
    <2> QED
      BY <2>1, <2>2, <2>3, <2>4 DEF SmtpInv
  <1>2. SmtpInv /\ [SmtpNext]_smtpVars => SmtpInv'
    <2> SUFFICES ASSUME SmtpInv, [SmtpNext]_smtpVars PROVE SmtpInv'
      OBVIOUS
    <2>1. CASE UNCHANGED smtpVars
      <3>1. MailExact'
        BY <2>1, MailsStay DEF smtpVars
      <3> QED
        BY <2>1, <3>1 DEF smtpVars, SmtpInv
    <2>2. CASE MailFrom \/ Rset \/ DataRefused \/ Quit \/ \E x \in Mailboxes : RcptTo(x)
      BY <2>2, SmtpCommandKeeps
    <2> QED
      BY <2>1, <2>2, SmtpDataKeeps, SmtpEndKeeps, SmtpLineKeeps, SmtpCutKeeps, SmtpAnswerKeeps
         DEF SmtpNext
  <1>3. SmtpInv => MailExact
    BY DEF SmtpInv
  <1> QED
    BY <1>1, <1>2, <1>3, PTL DEF SmtpSpec
==============================================================================
