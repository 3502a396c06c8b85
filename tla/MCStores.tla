------------------------------ MODULE MCStores ------------------------------
(***************************************************************************)
(* Cloud Storage, Azure Blob and Secrets Manager, DynamoDB, the paged      *)
(* listings and the Bedrock simulation.  They share nothing, so each       *)
(* behaviour of this model is one of theirs: which says whose, the others  *)
(* stand still.                                                            *)
(***************************************************************************)
EXTENDS Gcs, Blob, Dynamo, Listing, Bedrock

VARIABLE which

vars == <<which, gcsVars, blobVars, dynVars, listVars, bedVars>>

MCFolder == <<None, 2, 2, None>>

\* Up to three characters of up to three bytes.
MCTexts ==
    {t \in UNION {[1..n -> 0..9] : n \in 1..4} :
        t[1] = 0 /\ \A i \in 1..(Len(t) - 1) : t[i + 1] - t[i] \in 1..3}

\* Sort keys of DynamoDB: two texts of one number, a string, a value without an order.
MCSortType == [k \in SortKeys |-> CASE k \in {"1", "1.0"} -> "N" [] OTHER -> "other"]
MCSortRank == [k \in SortKeys |-> 1]

\* Items with a number, with a value without an order and without a RANGE attribute; the
\* other text of the number comes with SET.
MCSent == {[p |-> p, s |-> s, attrs |-> {}] : p \in HashKeys, s \in {"1", "true", None}}
MCSets == {[p |-> None, s |-> None, attrs |-> {"a"}], [p |-> None, s |-> "1.0", attrs |-> {"b"}]}

Init ==
    /\ which \in {"gcs", "blob", "dynamo", "listing", "bedrock"}
    /\ GcsInit /\ BlobInit /\ DynInit
    /\ IF which = "listing" THEN ListInit
       ELSE /\ kind = "blob" /\ items = {} /\ delimited = FALSE /\ size = 1
            /\ marker = None /\ seen = {} /\ done = TRUE
            /\ steady = {} /\ twice = {} /\ shaken = FALSE
    /\ bedCfg \in BedConfigs
    /\ which # "bedrock" => bedCfg.every = 0 /\ bedCfg.rule = "none"
                            /\ bedCfg.mode = "cycle" /\ bedCfg.responses = 0
    /\ BedInit

Next ==
    \/ which = "gcs" /\ GcsNext /\ UNCHANGED <<which, blobVars, dynVars, listVars, bedVars>>
    \/ which = "blob" /\ BlobNext /\ UNCHANGED <<which, gcsVars, dynVars, listVars, bedVars>>
    \/ which = "dynamo" /\ DynNext /\ UNCHANGED <<which, gcsVars, blobVars, listVars, bedVars>>
    \/ which = "listing" /\ ListNext /\ UNCHANGED <<which, gcsVars, blobVars, dynVars, bedVars>>
    \/ which = "bedrock" /\ BedNext /\ UNCHANGED <<which, gcsVars, blobVars, dynVars, listVars>>

\* A client that lists asks for the next page in the end.
Spec ==
    /\ Init /\ [][Next]_vars
    /\ WF_vars(which = "listing" /\ Page /\ UNCHANGED <<which, gcsVars, blobVars, dynVars, bedVars>>)

-----------------------------------------------------------------------------
(* Properties of several parts; those of functions of the request alone are *)
(* evaluated in initial states.                                              *)

\* Bedrock: a stream that stops has carried the whole text.
StreamedWhole == which = "bedrock" /\ bedCount = 0 => StreamsWhole

\* Bedrock answers as it is configured: errors and responses in their shares, and
\* streams with the text that was chosen.
ScriptFollowed == InjectedShare /\ ResponsesShared /\ StreamedWhole

\* Cloud Storage: a Range request is served the bytes it asks for.
StorageRanges == which = "gcs" /\ gcsStarted = {} => RangesExact

\* What clients upload to Cloud Storage is what they get: whole, stored once, in a bucket
\* that exists, and in the ranges they ask for.
UploadsExact == ObjectsWhole /\ StoredOnce /\ ObjectsHaveBucket /\ StorageRanges
=============================================================================
