--------------------------- MODULE SesIdentities ---------------------------
(***************************************************************************)
(* SES: identities and their verification, src/src/aws/ses/service.rs with *)
(* VerificationState of models.rs.  A request loads a row in one call and  *)
(* saves the whole row, as it then has it, in a later one; reading an      *)
(* identity may itself be such a request, because a pending verification   *)
(* advances when it is looked at.                                          *)
(*                                                                         *)
(* DKIM, feedback, tags and the MAIL FROM domain (a second                 *)
(* VerificationState, which advances like the first) are columns that no   *)
(* property is about: a request that puts one saves the rest of the row as *)
(* it was loaded.                                                          *)
(***************************************************************************)
EXTENDS Integers, FiniteSets, Functions, ServiceConstants

CONSTANTS
    SesClients,
    Identities,      \* addresses and domains
    CHECKS,          \* the configured number of reads of mode after_checks
    MaxCreated,      \* bound: how many identities are ever created
    MaxHours         \* bound: how far the clock goes

ASSUME SesIdentitiesConstants ==
    /\ CHECKS \in Nat \ {0} /\ MaxCreated \in Nat /\ MaxHours \in Nat
    /\ None \notin {"PENDING", "SUCCESS", "FAILED"}

VARIABLES
    sesRule,     \* the configuration: how verification goes
    sesIds,      \* table ses_identities: identity -> row
    sesReq,      \* what the request of each client holds between two calls
    sesHour,     \* the clock
    sesMade,     \* how many identities were created
    sesReads,    \* history: reads that counted, of each identity since it was created
    sesForced,   \* history: the status that was forced last, unless overtaken
    sesFree      \* history: identities that were never forced nor mixed up with a deleted one

sesIdVars == <<sesRule, sesIds, sesReq, sesHour, sesMade, sesReads, sesForced, sesFree>>

Modes == {"auto", "manual", "after_checks", "delay"}

\* ResolvedRule; a delay is one hour.  Which outcome is configured does not matter.
Rules == [mode : Modes, outcome : {"SUCCESS"}]

\* verify_at is None or an hour.
Verifications == [status : {"PENDING", "SUCCESS", "FAILED"}, mode : Modes,
                  outcome : {"SUCCESS"}, checks_left : 0..CHECKS, verify_at : Nat \cup {None}]

\* created tells an identity from an earlier one of that name.
IdentityRows == [verification : Verifications, created : Nat]

SesIdle == [at |-> "idle"]
SesGo(c, r) == sesReq' = [sesReq EXCEPT ![c] = r]

-----------------------------------------------------------------------------
(* VerificationState *)

Start(rule, now) ==
    [status |-> IF rule.mode = "auto" THEN rule.outcome ELSE "PENDING",
     mode |-> rule.mode, outcome |-> rule.outcome,
     checks_left |-> IF rule.mode = "after_checks" THEN CHECKS ELSE 0,
     verify_at |-> IF rule.mode = "delay" THEN now + 1 ELSE None]

\* Mutant: the last check is not waited for.
AdvanceEarly(v, count_check, now) ==
    IF v.status # "PENDING" \/ v.mode \in {"auto", "manual"} THEN v
    ELSE IF v.mode = "after_checks" THEN
        LET left == IF count_check /\ v.checks_left > 0 THEN v.checks_left - 1 ELSE v.checks_left
        IN  [v EXCEPT !.checks_left = left, !.status = IF left <= 1 THEN v.outcome ELSE @]
    ELSE IF v.verify_at = None \/ now >= v.verify_at THEN [v EXCEPT !.status = v.outcome] ELSE v

Advance(v, count_check, now) ==
    IF v.status # "PENDING" \/ v.mode \in {"auto", "manual"} THEN v
    ELSE IF v.mode = "after_checks" THEN
        LET left == IF count_check /\ v.checks_left > 0 THEN v.checks_left - 1 ELSE v.checks_left
        IN  [v EXCEPT !.checks_left = left, !.status = IF left = 0 THEN v.outcome ELSE @]
    ELSE IF v.verify_at = None \/ now >= v.verify_at THEN [v EXCEPT !.status = v.outcome] ELSE v

\* Mutant: a verification that is put back to pending keeps its mode.
ForceStatus(v, status) == [v EXCEPT !.status = status, !.checks_left = 0, !.verify_at = None]

\* A verification that is put back to pending stays so: its mode is manual then.
ForceTo(v, status) ==
    [v EXCEPT !.mode = IF status = "PENDING" THEN "manual" ELSE @,
              !.status = status, !.checks_left = 0, !.verify_at = None]

-----------------------------------------------------------------------------
(* create_identity *)

\* Load: an identity that is there is answered with.
LoadAbsent(c, i) ==
    /\ sesReq[c] = SesIdle
    /\ i \notin DOMAIN sesIds
    /\ SesGo(c, [at |-> "insert", id |-> i])
    /\ UNCHANGED <<sesRule, sesIds, sesHour, sesMade, sesReads, sesForced, sesFree>>

\* insert_identity fails when another request was first.
InsertIdentity(c) ==
    LET i == sesReq[c].id IN
    /\ sesReq[c].at = "insert"
    /\ IF i \in DOMAIN sesIds THEN UNCHANGED <<sesIds, sesMade, sesReads, sesForced, sesFree>>
       ELSE /\ sesMade < MaxCreated
            /\ sesMade' = sesMade + 1
            /\ sesIds' = Put(sesIds, i, [verification |-> Start(sesRule, sesHour),
                                         created |-> sesMade + 1])
            /\ sesReads' = [sesReads EXCEPT ![i] = 0]
            /\ sesForced' = [sesForced EXCEPT ![i] = None]
            /\ sesFree' = sesFree \cup {i}
    /\ SesGo(c, SesIdle)
    /\ UNCHANGED <<sesRule, sesHour>>

\* delete_identity
DeleteIdentity(i) ==
    /\ i \in DOMAIN sesIds
    /\ sesIds' = Restrict(sesIds, DOMAIN sesIds \ {i})
    /\ sesForced' = [sesForced EXCEPT ![i] = None]
    /\ UNCHANGED <<sesRule, sesReq, sesHour, sesMade, sesReads, sesFree>>

\* A reset deletes the table.
ResetIdentities ==
    /\ DOMAIN sesIds # {}
    /\ sesIds' = <<>>
    /\ sesForced' = [i \in Identities |-> None]
    /\ UNCHANGED <<sesRule, sesReq, sesHour, sesMade, sesReads, sesFree>>

-----------------------------------------------------------------------------
(* Reading and changing an identity *)

\* What a request does with the row: "look", "get" (a read that counts), "put" (a
\* setting), or a status to force; module SesSending has "send", which goes on with it.
Operations == {"look", "get", "put", "PENDING", "SUCCESS", "FAILED"}
Forces(op) == op \in {"PENDING", "SUCCESS", "FAILED"}

Refreshed(row, op) ==
    IF Forces(op) THEN row
    ELSE [row EXCEPT !.verification = Advance(@, op = "get", sesHour)]

\* What the request saves in the end.
Final(row, op) ==
    IF Forces(op) THEN [row EXCEPT !.verification = ForceTo(@, op)] ELSE row

After(r) ==
    CASE r.op \in {"look", "get"} -> SesIdle
      [] r.op = "send" -> [r EXCEPT !.at = "loaded"]
      [] OTHER -> [r EXCEPT !.at = "save"]

\* load_identity.  refresh saves what has changed; set_verification does not refresh.
LoadIdentity(c, i, op) ==
    LET row == Refreshed(sesIds[i], op)
        At(at) == [at |-> at, id |-> i, op |-> op, row |-> row, overtaken |-> FALSE]
    IN  /\ sesReq[c] = SesIdle
        /\ i \in DOMAIN sesIds
        /\ SesGo(c, IF op = "get" \/ row # sesIds[i] THEN At("refresh")
                    ELSE After(At("refresh")))
        /\ sesReads' = [sesReads EXCEPT ![i] = IF op = "get" /\ @ < CHECKS THEN @ + 1 ELSE @]
        /\ UNCHANGED <<sesRule, sesIds, sesHour, sesMade, sesForced, sesFree>>

\* save_identity: an UPDATE of the row of that name, if there is one.
SaveIdentity(c, row, next, forced) ==
    LET r == sesReq[c]
        i == r.id
        there == i \in DOMAIN sesIds
        same == there /\ sesIds[i].created = row.created
    IN  /\ sesIds' = IF there THEN [sesIds EXCEPT ![i] =
                                      [row EXCEPT !.created = sesIds[i].created]] ELSE sesIds
        /\ sesForced' = IF ~there THEN sesForced ELSE [sesForced EXCEPT ![i] =
              IF forced # None THEN forced ELSE IF r.overtaken \/ ~same THEN None ELSE @]
        /\ sesFree' = IF same /\ forced = None THEN sesFree
                      ELSE IF there THEN sesFree \ {i} ELSE sesFree
        /\ sesReq' = [d \in SesClients |->
              IF d = c THEN next
              ELSE IF sesReq[d].at \in {"refresh", "save"} /\ sesReq[d].id = i
                   THEN [sesReq[d] EXCEPT !.overtaken = TRUE] ELSE sesReq[d]]
        /\ UNCHANGED <<sesRule, sesHour, sesMade, sesReads>>

\* The save of refresh.
RefreshIdentity(c) ==
    LET r == sesReq[c] IN
    /\ r.at = "refresh"
    /\ SaveIdentity(c, r.row, After(r), None)

\* The save of put_dkim_signing and the like, or of set_verification.
ChangeIdentity(c) ==
    LET r == sesReq[c] IN
    /\ r.at = "save"
    /\ SaveIdentity(c, Final(r.row, r.op), SesIdle, IF Forces(r.op) THEN r.op ELSE None)

HourPasses ==
    /\ sesHour < MaxHours
    /\ sesHour' = sesHour + 1
    /\ UNCHANGED <<sesRule, sesIds, sesReq, sesMade, sesReads, sesForced, sesFree>>

SesIdentitiesInit ==
    /\ sesRule \in Rules
    /\ sesIds = <<>> /\ sesHour = 0 /\ sesMade = 0
    /\ sesReq = [c \in SesClients |-> SesIdle]
    /\ sesReads = [i \in Identities |-> 0]
    /\ sesForced = [i \in Identities |-> None]
    /\ sesFree = {}

SesIdentitiesNext ==
    \/ HourPasses \/ ResetIdentities
    \/ \E i \in Identities : DeleteIdentity(i)
    \/ \E c \in SesClients :
          \/ InsertIdentity(c) \/ RefreshIdentity(c) \/ ChangeIdentity(c)
          \/ \E i \in Identities : LoadAbsent(c, i) \/ \E op \in Operations : LoadIdentity(c, i, op)

-----------------------------------------------------------------------------
(* Properties *)

\* A status that was forced, through the control endpoint or a verification link, stays
\* through whatever reads and changes of the identity follow, the passing of time
\* included, unless one of them had read the identity before.
ForcedStays ==
    \A i \in DOMAIN sesIds :
        sesForced[i] # None => sesIds[i].verification.status = sesForced[i]

\* An identity that is verified by reading has been read often enough, however the
\* reads overlap: reads that overtake each other count for less, never for more.
VerifiedByChecks ==
    \A i \in DOMAIN sesIds \cap sesFree :
        LET v == sesIds[i].verification IN
        v.mode = "after_checks" =>
            /\ v.checks_left >= CHECKS - sesReads[i]
            /\ v.status # "PENDING" => sesReads[i] = CHECKS

\* The status of an identity is what was forced, or what its verification has earned.
StatusEarned == ForcedStays /\ VerifiedByChecks
=============================================================================
