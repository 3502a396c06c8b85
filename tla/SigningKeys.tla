---------------------------- MODULE SigningKeys ----------------------------
(***************************************************************************)
(* Cognito: the key that signs tokens, src/src/aws/cognito/tokens.rs.  It  *)
(* is generated at first use, outside the database, by every request that  *)
(* finds none; the first one to store its key wins.  The key lives in      *)
(* cloudtwin_meta, which a reset leaves alone, and so outlives a restart.  *)
(***************************************************************************)
EXTENDS Integers, ServiceConstants

CONSTANTS
    Signers,      \* requests that sign tokens
    MaxKeysMade   \* bound: how many keys are ever generated

ASSUME SigningKeysConstants == MaxKeysMade \in Nat

VARIABLES
    skStored,   \* the key in cloudtwin_meta, or 0
    skReq,      \* what each request holds
    skMade,     \* keys generated so far
    skTokens    \* history: keys that tokens were signed with

skVars == <<skStored, skReq, skMade, skTokens>>

SkIdle == [at |-> "idle", key |-> 0]
SkGo(r, at, key) == skReq' = [skReq EXCEPT ![r] = [at |-> at, key |-> key]]

\* load_pem: the stored key, if there is one,
LoadPem(r) ==
    /\ skReq[r] = SkIdle
    /\ IF skStored # 0 THEN SkGo(r, "keys", skStored) ELSE SkGo(r, "generate", 0)
    /\ UNCHANGED <<skStored, skMade, skTokens>>

\* or a new one, made by a blocking task,
GenerateKey(r) ==
    /\ skReq[r].at = "generate"
    /\ skMade < MaxKeysMade
    /\ skMade' = skMade + 1
    /\ SkGo(r, "store", skMade + 1)
    /\ UNCHANGED <<skStored, skTokens>>

\* Mutant: a request goes on with the key that it generated.
OwnKey(generated) == generated

Winner(generated) == IF skStored # 0 THEN skStored ELSE generated

\* which is stored, unless another request was first.
StoreKey(r) ==
    /\ skReq[r].at = "store"
    /\ skStored' = IF skStored # 0 THEN skStored ELSE skReq[r].key
    /\ SkGo(r, "keys", Winner(skReq[r].key))
    /\ UNCHANGED <<skMade, skTokens>>

Sign(r) ==
    /\ skReq[r].at = "keys"
    /\ skTokens' = skTokens \cup {skReq[r].key}
    /\ SkGo(r, "idle", 0)
    /\ UNCHANGED <<skStored, skMade>>

\* A restart loses the requests and the parsed keys (cache), not the stored key.
RestartSigners ==
    /\ \E r \in Signers : skReq[r] # SkIdle
    /\ skReq' = [r \in Signers |-> SkIdle]
    /\ UNCHANGED <<skStored, skMade, skTokens>>

SigningKeysInit ==
    skStored = 0 /\ skMade = 0 /\ skTokens = {} /\ skReq = [r \in Signers |-> SkIdle]

SigningKeysNext ==
    RestartSigners \/ \E r \in Signers : LoadPem(r) \/ GenerateKey(r) \/ StoreKey(r) \/ Sign(r)

SigningKeysSpec == SigningKeysInit /\ [][SigningKeysNext]_skVars

-----------------------------------------------------------------------------
(* Properties *)

\* Every token that was ever signed verifies with the stored key, the one that jwks
\* publishes, also those signed by requests that found none.
TokensVerify == skTokens \subseteq {skStored}
=============================================================================
