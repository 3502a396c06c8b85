----------------------------- MODULE S3History -----------------------------
(***************************************************************************)
(* What the S3 emulation promises of the versions of objects, without the  *)
(* two tables it keeps them in: every key of a bucket has a set of         *)
(* versions, each with its place in one order of writes, and what a        *)
(* request without a version id sees is the newest of them, unless that is *)
(* a delete marker.                                                        *)
(***************************************************************************)
EXTENDS Integers

VARIABLES
    history,   \* all versions and delete markers of all keys
    visible    \* the versions that requests without a version id see

vars == <<history, visible>>

SameKey(v, w) == v.bucket = w.bucket /\ v.key = w.key

\* The newest version of each key, where it is not a delete marker.
Current(h) ==
    {v \in h : ~v.marker /\ \A w \in h : SameKey(v, w) => w.seq <= v.seq}

Init == history = {} /\ visible = {}

\* A write, or a delete marker, is newer than every version of its key and
\* takes the place only of the version that has its very id (the null version).
Add ==
    \E v \in history' :
        /\ \A w \in history : SameKey(v, w) => w.seq < v.seq
        /\ history' = {w \in history : ~(SameKey(v, w) /\ w.vid = v.vid)} \cup {v}

\* A version is deleted for good; no other goes with it.
Remove == \E v \in history : history' = history \ {v}

\* The tags of a version are replaced, and nothing else of it.
Retag ==
    \E v \in history, w \in history' :
        /\ ~v.marker
        /\ w = [v EXCEPT !.tags = w.tags]
        /\ history' = (history \ {v}) \cup {w}

\* The emulator's reset forgets everything.
Clear == history' = {}

Next ==
    /\ Add \/ Remove \/ Retag \/ Clear
    /\ visible' = Current(history')

Spec == Init /\ [][Next]_vars

=============================================================================
