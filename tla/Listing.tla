------------------------------- MODULE Listing -------------------------------
(***************************************************************************)
(* Paged listings: Azure Blob containers and blobs, Cloud Storage objects, *)
(* S3 objects, object versions, multipart uploads and parts, KMS keys and  *)
(* aliases.  A client asks for page after page with the marker it was      *)
(* given, while others put and delete.  Each page is one request that      *)
(* reads the table afresh, hence one step.                                 *)
(*                                                                         *)
(* A name is its position in byte order.  Folder gives the common prefix   *)
(* that a name has under the delimiter; the prefix is a position too, the  *)
(* first of its block.  An item is <<name, n>>: n tells the versions of    *)
(* one key apart by their seq, the uploads of one key by their id, and is  *)
(* 0 for the rest.                                                         *)
(***************************************************************************)
EXTENDS Integers, FiniteSets, ServiceConstants

CONSTANTS
    ListNames,        \* positions of names in byte order
    VersionedNames,   \* those that have versions or uploads
    ListSeqs,         \* what tells the versions, or the uploads, of one name apart
    Folder,           \* the common prefix of each, or None
    PageSizes         \* values of max-keys, maxResults, maxresults, Limit

ASSUME ListingConstants ==
    /\ ListNames \subseteq Int /\ VersionedNames \subseteq ListNames
    /\ ListSeqs \subseteq Nat /\ PageSizes \subseteq Nat \ {0}
    /\ None \notin Int /\ None \notin Int \X Int
    /\ \A n \in ListNames :
          Folder[n] = None \/ (Folder[n] \in Int /\ Folder[n] <= n
             /\ \A m \in ListNames : Folder[n] <= m /\ m <= n => Folder[m] = Folder[n])

VARIABLES
    items,      \* the rows of the table
    kind,       \* which listing this is
    delimited,  \* whether the client gave a delimiter
    size,       \* the size of a page
    marker,     \* what the next request carries; None in the first one
    seen,       \* entries listed so far
    done,       \* whether the last page was served
    steady,     \* history: items there since the first request
    twice,      \* history: entries listed on two pages
    shaken      \* history: the marker lost its meaning by a write between pages

listVars == <<items, kind, delimited, size, marker, seen, done, steady, twice, shaken>>
reader == <<kind, delimited, size, marker, seen, done, twice>>

Kinds == {"blob", "gcs", "s3", "versions", "uploads", "offset"}

\* Versions of a key come newest first, all else in ascending order.
Before(a, b) ==
    \/ a[1] < b[1]
    \/ a[1] = b[1] /\ IF kind = "versions" THEN a[2] > b[2] ELSE a[2] < b[2]

\* What an item shows up as: itself, or its common prefix.
Shown(i) == IF delimited /\ Folder[i[1]] # None THEN <<Folder[i[1]], -1>> ELSE i
AllShown(s) == {Shown(i) : i \in s}
First(s, n) == {e \in s : Cardinality({f \in s : Before(f, e)}) < n}
Least(s) == CHOOSE e \in s : \A f \in s \ {e} : Before(e, f)
LastOf(s) == CHOOSE e \in s : \A f \in s \ {e} : Before(f, e)

-----------------------------------------------------------------------------
(* The entries from the marker on, for each kind of listing *)

\* Azure: marker is the name of the first entry of the page.
FromMarker == {e \in AllShown(items) : marker = None \/ e[1] >= marker[1]}

\* Cloud Storage: pageToken is the last key of the page before.
AfterToken == {e \in AllShown(items) : marker = None \/ e[1] > marker[1]}

\* Mutant: a common prefix is not recognised on the next page.
AfterKeyOnly == AllShown({i \in items : marker = None \/ i[1] > marker[1]})

\* S3 objects: keys beyond the marker, unless they belong to the common prefix that
\* was the last entry.
AfterKey ==
    AllShown({i \in items : marker = None \/
                (i[1] > marker[1] /\ ~(delimited /\ Folder[i[1]] = marker[1]))})

\* Mutant: nothing of the key is skipped when the marker's version is gone.
SkippedIfThere(i) == i[1] = marker[1] /\ marker \in items /\ ~Before(marker, i)

\* Mutant: the marker's key is left out as a whole.
SkippedKey(i) == i[1] = marker[1]

\* S3 versions: in the marker's key the versions up to the marker are skipped, all of
\* them when the marker's version is gone.
SkippedVersion(i) ==
    /\ i[1] = marker[1]
    /\ marker \in items => ~Before(marker, i)

AfterVersion ==
    AllShown({i \in items : marker = None \/
                /\ i[1] >= marker[1]
                /\ IF marker[2] = -1 THEN i[1] > marker[1] ELSE ~SkippedVersion(i)
                /\ ~(delimited /\ Folder[i[1]] = marker[1])})

\* S3 uploads (no delimiter), and parts, whose marker is the last part number.
AfterUpload ==
    {i \in items : \/ marker = None
                   \/ i[1] > marker[1]
                   \/ i[1] = marker[1] /\ i[2] > marker[2]}

\* KMS: the marker is how many entries were listed.
Beyond ==
    {i \in items : marker = None \/ Cardinality({j \in items : Before(j, i)}) >= marker}

Rest ==
    CASE kind = "blob" -> FromMarker
      [] kind = "gcs" -> AfterToken
      [] kind = "s3" -> AfterKey
      [] kind = "versions" -> AfterVersion
      [] kind = "uploads" -> AfterUpload
      [] kind = "offset" -> Beyond

-----------------------------------------------------------------------------
(* The client *)

\* The marker of the page that follows page, of the entries in rest.
NextMarker(page, rest) ==
    CASE kind = "blob" -> Least(rest \ page)
      [] kind = "offset" -> (IF marker = None THEN 0 ELSE marker) + size
      [] OTHER -> LastOf(page)

\* A marker beyond the end of the list is refused by KMS: the client gives up.
Refused == kind = "offset" /\ marker # None /\ marker > Cardinality(items)

Page ==
    LET page == First(Rest, size) IN
    /\ ~done
    /\ seen' = IF Refused THEN seen ELSE seen \cup page
    /\ twice' = IF Refused THEN twice ELSE twice \cup (seen \cap page)
    /\ done' = (Refused \/ page = Rest)
    /\ marker' = IF done' THEN None ELSE NextMarker(page, Rest)
    /\ UNCHANGED <<items, kind, delimited, size, steady, shaken>>

\* Whether this write makes a count, or a version that is the marker, meaningless.
Shakes(i) ==
    \/ kind = "offset" /\ marker # None
    \/ kind = "versions" /\ i = marker

\* The versions of a key get ascending seq.
PutListed(i) ==
    /\ ~done
    /\ i \notin items
    /\ kind = "versions" => \A j \in items : j[1] = i[1] => j[2] < i[2]
    /\ items' = items \cup {i}
    /\ shaken' = (shaken \/ Shakes(i))
    /\ UNCHANGED <<reader, steady>>

DeleteListed(i) ==
    /\ ~done
    /\ i \in items
    /\ items' = items \ {i}
    /\ steady' = steady \ {i}
    /\ shaken' = (shaken \/ Shakes(i))
    /\ UNCHANGED reader

\* The listings begin with whatever the table holds.
Items == IF kind \in {"versions", "uploads"} THEN VersionedNames \X ListSeqs ELSE ListNames \X {0}

ListInit ==
    /\ kind \in Kinds
    /\ items \in SUBSET Items /\ IsFiniteSet(items)
    /\ delimited \in (IF kind \in {"uploads", "offset"} THEN {FALSE} ELSE BOOLEAN)
    /\ size \in PageSizes
    /\ marker = None /\ seen = {} /\ done = FALSE
    /\ steady = items /\ twice = {} /\ shaken = FALSE

ListNext ==
    \/ Page
    \/ \E i \in Items : PutListed(i) \/ DeleteListed(i)

ListSpec == ListInit /\ [][ListNext]_listVars /\ WF_listVars(Page)

-----------------------------------------------------------------------------
(* Properties *)

\* A client that follows the markers to the end has seen everything that was there
\* all the time, whatever others put and deleted between its requests.  The two
\* exceptions are those of the code: an offset shifts with the list, and a version
\* marker that is gone hides the rest of its key.
NothingMissed ==
    done /\ ~shaken => AllShown(steady) \subseteq seen

\* No page repeats an entry of an earlier one: markers never point back.
NothingTwice == ~shaken => twice = {}

\* Following the markers ends, also while others write: every page moves the marker
\* forward.
ListingEnds == <>done

\* The pages of a listing are together what was there: nothing missing, nothing twice.
PagesExact == NothingMissed /\ NothingTwice
=============================================================================
