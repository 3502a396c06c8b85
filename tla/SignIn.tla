------------------------------- MODULE SignIn -------------------------------
(***************************************************************************)
(* Cognito: how the users of a pool sign in and out, through the API       *)
(* (src/src/aws/cognito/handlers_api.rs) and through the hosted UI         *)
(* (handlers_oidc.rs), over the tables of service.rs.                      *)
(*                                                                         *)
(* An API request is one transaction, hence one step.  A hosted-UI request *)
(* runs several: it reads the client, then the user, then inserts the      *)
(* session, then the code or tokens; users, clients and the pool can go    *)
(* meanwhile.                                                              *)
(*                                                                         *)
(* Passwords are not kept: a request knows the right one or has no effect, *)
(* like one that the policy refuses (run rolls back).  A row whose         *)
(* expires_at has passed answers as if it were not there, so to expire is  *)
(* to go.  An access token is nothing but its origin: all tokens with one  *)
(* origin_jti are accepted or refused together.  A refresh token is made   *)
(* with its origin, and a part of its row here.                            *)
(***************************************************************************)
EXTENDS Integers, FiniteSets, Functions, ServiceConstants

CONSTANTS
    Browsers,    \* who sends requests to the hosted UI and the token endpoint
    AppClients,  \* ids of user pool clients
    Usernames,
    MaxBorn, MaxOrigins, MaxSessions, MaxProofs,  \* bounds: how many are ever made
    MaxOuts      \* bound: how often a user is signed out or disabled

ASSUME SignInConstants == {MaxBorn, MaxOrigins, MaxSessions, MaxProofs, MaxOuts} \subseteq Nat

VARIABLES
    siPool,      \* whether the pool exists
    siClients,   \* table cognito_clients: ids
    siUsers,     \* table cognito_users: username -> row
    siOrigins,   \* tables cognito_origins and cognito_refresh_tokens: origin_jti -> row
    siSessions,  \* table cognito_sessions: id -> row
    siProofs,    \* tables cognito_auth_codes, cognito_challenges, cognito_codes
    siReq,       \* what the request of each browser holds between two transactions
    siMade,      \* how many of each kind were made
    siEnded,     \* history: origins whose tokens were revoked or lost their user
    siVoid,      \* history: proofs that were honoured, replaced, expired or lost their
                 \* user, and codes that were presented
    siWrong,     \* history: proofs that were honoured although void
    siLoose      \* history: rows that a request inserted for what it had read too early, and
                 \* sign-ins with a code that was meant for a former user of the name

siVars == <<siPool, siClients, siUsers, siOrigins, siSessions, siProofs, siReq, siMade,
            siEnded, siVoid, siWrong, siLoose>>

Statuses == {"UNCONFIRMED", "CONFIRMED", "FORCE_CHANGE_PASSWORD", "RESET_REQUIRED"}

\* born is history and tells two users of one name apart; so is outs, which counts
\* what ended the sessions of the user.
UserRows == [status : Statuses, enabled : BOOLEAN, born : Nat, outs : Nat]

\* refresh: the refresh token of the origin, "none" where none was issued.
OriginRows == [user : Usernames, born : Nat, client : AppClients,
               revoked : BOOLEAN, refresh : {"none", "valid", "revoked"}]

SessionRows == [user : Usernames, born : Nat, outs : Nat]

\* What proves who someone is, once: an authorization code, a challenge session, a
\* mailed code.  used is the column of an authorization code.
Proofs == [kind : {"code", "challenge", "signup", "reset"}, user : Usernames, born : Nat,
           client : AppClients \cup {None}, used : BOOLEAN]

SiIdle == [at |-> "idle"]
SiGo(b, r) == siReq' = [siReq EXCEPT ![b] = r]
With(f, x, v) == [y \in DOMAIN f \cup {x} |-> IF y = x THEN v ELSE f[y]]
Drop(f, S) == Restrict(f, DOMAIN f \ S)
OneMore(what) == siMade' = [siMade EXCEPT ![what] = @ + 1]

Exists(u) == siPool /\ u \in DOMAIN siUsers
SetUser(u, row) == siUsers' = [siUsers EXCEPT ![u] = row]
OriginsOf(u) == {o \in DOMAIN siOrigins : siOrigins[o].user = u}
SessionsOf(u) == {s \in DOMAIN siSessions : siSessions[s].user = u}
ProofsOf(u) == {i \in DOMAIN siProofs : siProofs[i].user = u}

\* The history of honouring proof i, after which it is void.
Honour(i) ==
    /\ siWrong' = IF i \in siVoid THEN siWrong \cup {i} ELSE siWrong
    /\ siVoid' = siVoid \cup {i}

-----------------------------------------------------------------------------
(* Tokens *)

\* issue_tokens for a new sign-in of user u, who was born then when it was read.
IssueTokens(a, u, born, refresh) ==
    LET o == siMade.origins + 1 IN
    /\ o <= MaxOrigins
    /\ siOrigins' = With(siOrigins, o, [user |-> u, born |-> born, client |-> a,
          revoked |-> FALSE, refresh |-> IF refresh THEN "valid" ELSE "none"])

OriginRevoked(o) == o \notin DOMAIN siOrigins \/ siOrigins[o].revoked

\* validate_access, for a token of origin o.
Accepted(o, u) == Exists(u) /\ ~OriginRevoked(o) /\ siUsers[u].enabled

RefreshRevoked(o) == siOrigins[o].refresh # "valid" \/ OriginRevoked(o)

\* refresh: client a gets new tokens of the same origin, which is no step here.
Refreshable(a, o) ==
    /\ o \in DOMAIN siOrigins
    /\ siOrigins[o].client = a
    /\ ~RefreshRevoked(o)
    /\ Exists(siOrigins[o].user) /\ siUsers[siOrigins[o].user].enabled

\* revoke_refresh
RevokeToken(o) ==
    /\ o \in DOMAIN siOrigins
    /\ siOrigins[o].client \in siClients /\ siOrigins[o].refresh # "none"
    /\ siOrigins' = [siOrigins EXCEPT ![o].revoked = TRUE, ![o].refresh = "revoked"]
    /\ siEnded' = siEnded \cup {o}
    /\ UNCHANGED <<siPool, siClients, siUsers, siSessions, siProofs, siReq, siMade, siVoid,
                   siWrong, siLoose>>

\* Mutant: access tokens are left to expire.
RefreshOnly(row) == [row EXCEPT !.refresh = IF @ = "none" THEN @ ELSE "revoked"]

SignedOut(row) == [row EXCEPT !.revoked = TRUE, !.refresh = IF @ = "none" THEN @ ELSE "revoked"]

\* GlobalSignOut, which needs a token that is accepted, and AdminUserGlobalSignOut.
GlobalSignOut(u) ==
    /\ Exists(u) /\ siUsers[u].outs < MaxOuts
    /\ siOrigins' = [o \in DOMAIN siOrigins |->
          IF siOrigins[o].user = u THEN SignedOut(siOrigins[o]) ELSE siOrigins[o]]
    /\ siSessions' = Drop(siSessions, SessionsOf(u))
    /\ SetUser(u, [siUsers[u] EXCEPT !.outs = @ + 1])
    /\ siEnded' = siEnded \cup OriginsOf(u)
    /\ UNCHANGED <<siPool, siClients, siProofs, siReq, siMade, siVoid, siWrong, siLoose>>

-----------------------------------------------------------------------------
(* Users *)

NewUser(u, status) ==
    /\ siPool /\ u \notin DOMAIN siUsers
    /\ siMade.born < MaxBorn
    /\ siUsers' = With(siUsers, u,
          [status |-> status, enabled |-> TRUE, born |-> siMade.born + 1, outs |-> 0])

AdminCreateUser(u) ==
    /\ NewUser(u, "FORCE_CHANGE_PASSWORD")
    /\ OneMore("born")
    /\ UNCHANGED <<siPool, siClients, siOrigins, siSessions, siProofs, siReq, siEnded, siVoid,
                   siWrong, siLoose>>

\* ON CONFLICT(pool_id, username, kind) DO UPDATE
Replaced(u, kind) == {i \in ProofsOf(u) : siProofs[i].kind = kind}

\* set_code: the code that is mailed replaces the one before.
SetCode(u, born, kind) ==
    LET i == siMade.proofs + 1 IN
    /\ i <= MaxProofs
    /\ siProofs' = With(Drop(siProofs, Replaced(u, kind)), i,
          [kind |-> kind, user |-> u, born |-> born, client |-> None, used |-> FALSE])
    /\ siVoid' = siVoid \cup {j \in ProofsOf(u) : siProofs[j].kind = kind}

SignUp(u) ==
    /\ siClients # {}
    /\ NewUser(u, "UNCONFIRMED")
    /\ SetCode(u, siMade.born + 1, "signup")
    /\ siMade' = [siMade EXCEPT !.born = @ + 1, !.proofs = @ + 1]
    /\ UNCHANGED <<siPool, siClients, siOrigins, siSessions, siReq, siEnded, siWrong, siLoose>>

\* ResendConfirmationCode and ForgotPassword.
SendCode(u, kind) ==
    /\ siClients # {}
    /\ Exists(u) /\ siUsers[u].enabled
    /\ kind = "signup" => siUsers[u].status = "UNCONFIRMED"
    /\ SetCode(u, siUsers[u].born, kind)
    /\ OneMore("proofs")
    /\ UNCHANGED <<siPool, siClients, siUsers, siOrigins, siSessions, siReq, siEnded, siWrong,
                   siLoose>>

\* AdminResetUserPassword
AdminResetPassword(u) ==
    /\ Exists(u) /\ siUsers[u].enabled
    /\ SetUser(u, [siUsers[u] EXCEPT !.status = IF @ = "UNCONFIRMED" THEN @ ELSE "RESET_REQUIRED"])
    /\ SetCode(u, siUsers[u].born, "reset")
    /\ OneMore("proofs")
    /\ UNCHANGED <<siPool, siClients, siOrigins, siSessions, siReq, siEnded, siWrong, siLoose>>

\* check_code and what it proves: ConfirmSignUp and ConfirmForgotPassword, which
\* confirms the user whatever its status.
ConfirmWithCode(i) ==
    /\ i \in DOMAIN siProofs
    /\ LET u == siProofs[i].user IN
       /\ siProofs[i].kind \in {"signup", "reset"}
       /\ Exists(u)
       /\ siProofs[i].kind = "signup" => siUsers[u].status = "UNCONFIRMED"
       /\ SetUser(u, [siUsers[u] EXCEPT !.status = "CONFIRMED"])
       /\ siProofs' = Drop(siProofs, {i})
       /\ Honour(i)
    /\ UNCHANGED <<siPool, siClients, siOrigins, siSessions, siReq, siMade, siEnded, siLoose>>

\* AdminConfirmSignUp
AdminConfirmSignUp(u) ==
    /\ Exists(u) /\ siUsers[u].status = "UNCONFIRMED"
    /\ SetUser(u, [siUsers[u] EXCEPT !.status = "CONFIRMED"])
    /\ UNCHANGED <<siPool, siClients, siOrigins, siSessions, siProofs, siReq, siMade, siEnded,
                   siVoid, siWrong, siLoose>>

\* set_password, as AdminSetUserPassword, AdminCreateUser with RESEND (not permanent)
\* and ChangePassword (permanent) call it.
SetPassword(u, permanent) ==
    /\ Exists(u)
    /\ SetUser(u, [siUsers[u] EXCEPT
          !.status = IF permanent THEN "CONFIRMED" ELSE "FORCE_CHANGE_PASSWORD"])
    /\ UNCHANGED <<siPool, siClients, siOrigins, siSessions, siProofs, siReq, siMade, siEnded,
                   siVoid, siWrong, siLoose>>

\* Mutant: who is disabled stays signed in at the hosted UI.
NoSessions(u) == {}

SessionsDeleted(u) == SessionsOf(u)

\* AdminDisableUser and AdminEnableUser
SetUserEnabled(u, enabled) ==
    /\ Exists(u) /\ (enabled \/ siUsers[u].outs < MaxOuts)
    /\ SetUser(u, [siUsers[u] EXCEPT !.enabled = enabled, !.outs = IF enabled THEN @ ELSE @ + 1])
    /\ siSessions' = IF enabled THEN siSessions ELSE Drop(siSessions, SessionsDeleted(u))
    /\ UNCHANGED <<siPool, siClients, siOrigins, siProofs, siReq, siMade, siEnded, siVoid,
                   siWrong, siLoose>>

\* Mutant: challenges and codes outlive their user.
ProofsForgotten(u) == {}

ProofsDeleted(u) == ProofsOf(u)

\* delete_user, in all tables.
AdminDeleteUser(u) ==
    /\ Exists(u)
    /\ siUsers' = Drop(siUsers, {u})
    /\ siOrigins' = Drop(siOrigins, OriginsOf(u))
    /\ siSessions' = Drop(siSessions, SessionsOf(u))
    /\ siProofs' = Drop(siProofs, ProofsDeleted(u))
    /\ siEnded' = siEnded \cup OriginsOf(u)
    /\ siVoid' = siVoid \cup ProofsOf(u)
    /\ UNCHANGED <<siPool, siClients, siReq, siMade, siWrong, siLoose>>

-----------------------------------------------------------------------------
(* Signing in through the API *)

\* Mutant: an unconfirmed user may sign in.
KnownUser(u) == Exists(u) /\ siUsers[u].enabled /\ siUsers[u].status # "RESET_REQUIRED"

\* authenticate
Authenticated(u) ==
    /\ Exists(u) /\ siUsers[u].enabled
    /\ siUsers[u].status \in {"CONFIRMED", "FORCE_CHANGE_PASSWORD"}

MustChange(u) == siUsers[u].status = "FORCE_CHANGE_PASSWORD"

\* create_challenge
CreateChallenge(a, u) ==
    LET i == siMade.proofs + 1 IN
    /\ i <= MaxProofs
    /\ siProofs' = With(siProofs, i,
          [kind |-> "challenge", user |-> u, born |-> siUsers[u].born, client |-> a, used |-> FALSE])
    /\ OneMore("proofs")

\* initiate_auth with a password.
InitiateAuth(a, u) ==
    /\ a \in siClients
    /\ Authenticated(u)
    /\ IF MustChange(u)
       THEN CreateChallenge(a, u) /\ UNCHANGED siOrigins
       ELSE /\ IssueTokens(a, u, siUsers[u].born, TRUE)
            /\ OneMore("origins")
            /\ UNCHANGED siProofs
    /\ UNCHANGED <<siPool, siClients, siUsers, siSessions, siReq, siEnded, siVoid, siWrong, siLoose>>

\* take_challenge, for client a, and the new password.  Any status will do.
AnswerChallenge(a, i) ==
    /\ i \in DOMAIN siProofs
    /\ siProofs[i].kind = "challenge" /\ siProofs[i].client = a
    /\ Exists(siProofs[i].user) /\ siUsers[siProofs[i].user].enabled
    /\ SetUser(siProofs[i].user, [siUsers[siProofs[i].user] EXCEPT !.status = "CONFIRMED"])
    /\ siProofs' = Drop(siProofs, {i})
    /\ Honour(i)

\* respond_to_challenge
RespondToChallenge(i) ==
    /\ i \in DOMAIN siProofs /\ siProofs[i].client \in siClients
    /\ AnswerChallenge(siProofs[i].client, i)
    /\ IssueTokens(siProofs[i].client, siProofs[i].user, siUsers[siProofs[i].user].born, TRUE)
    /\ OneMore("origins")
    /\ UNCHANGED <<siPool, siClients, siSessions, siReq, siEnded, siLoose>>

\* Mutant: the proof is consumed before what it is for is checked, and stays so.
TakenAnyway(i) == Drop(siProofs, {i})

\* run rolls back what an error ends, the DELETE of check_code or take_challenge with it.
RolledBack(i) == siProofs

\* A mailed code or a challenge session is presented in vain: the new password is refused,
\* the user disabled, the client another.  The hosted UI's ends its request too (Refuse).
PresentInVain(i) ==
    /\ i \in DOMAIN siProofs /\ siProofs[i].kind # "code"
    /\ siProofs' = RolledBack(i)
    /\ UNCHANGED <<siPool, siClients, siUsers, siOrigins, siSessions, siReq, siMade, siEnded,
                   siVoid, siWrong, siLoose>>

-----------------------------------------------------------------------------
(* The hosted UI *)

\* Whether user u is no longer the one that request r has read.
Outdated(r) ==
    ~Exists(r.user) \/ siUsers[r.user].born # r.born \/ siUsers[r.user].outs # r.outs

\* prepare reads client and pool; module Oauth has its conditions.
\* type: response_type.
PrepareRequest(b, a, type) ==
    /\ siReq[b] = SiIdle
    /\ siPool /\ a \in siClients
    /\ SiGo(b, [at |-> "prepared", client |-> a, type |-> type])
    /\ UNCHANGED <<siPool, siClients, siUsers, siOrigins, siSessions, siProofs, siMade, siEnded,
                   siVoid, siWrong, siLoose>>

\* The request goes on with user u, as it has read it.
Proceed(b, at, u) ==
    SiGo(b, [at |-> at, client |-> siReq[b].client, type |-> siReq[b].type,
             user |-> u, born |-> siUsers[u].born, outs |-> siUsers[u].outs])

\* authorize with a session cookie: session_user.  The login page is no step.
AuthorizeWithSession(b, s) ==
    /\ siReq[b].at = "prepared"
    /\ s \in DOMAIN siSessions
    /\ LET u == siSessions[s].user IN
       /\ Exists(u) /\ siUsers[u].enabled /\ siUsers[u].status = "CONFIRMED"
       /\ Proceed(b, "complete", u)
    /\ UNCHANGED <<siPool, siClients, siUsers, siOrigins, siSessions, siProofs, siMade, siEnded,
                   siVoid, siWrong, siLoose>>

\* login_post with a password: the user signs in or is asked for a new password.
LoginPost(b, u) ==
    /\ siReq[b].at = "prepared"
    /\ Authenticated(u)
    /\ IF MustChange(u)
       THEN CreateChallenge(siReq[b].client, u) /\ SiGo(b, SiIdle)
       ELSE Proceed(b, "finish", u) /\ UNCHANGED <<siProofs, siMade>>
    /\ UNCHANGED <<siPool, siClients, siUsers, siOrigins, siSessions, siEnded, siVoid, siWrong,
                   siLoose>>

\* login_post with the new password.
LoginNewPassword(b, i) ==
    /\ siReq[b].at = "prepared"
    /\ AnswerChallenge(siReq[b].client, i)
    /\ Proceed(b, "finish", siProofs[i].user)
    /\ UNCHANGED <<siPool, siClients, siOrigins, siSessions, siMade, siEnded, siLoose>>

\* finish_login: create_session
FinishLogin(b) ==
    LET r == siReq[b]
        s == siMade.sessions + 1 IN
    /\ r.at = "finish"
    /\ s <= MaxSessions
    /\ siSessions' = With(siSessions, s, [user |-> r.user, born |-> r.born, outs |-> r.outs])
    /\ siLoose' = IF Outdated(r) THEN siLoose \cup {<<"session", s>>} ELSE siLoose
    /\ OneMore("sessions")
    /\ SiGo(b, [r EXCEPT !.at = "complete"])
    /\ UNCHANGED <<siPool, siClients, siUsers, siOrigins, siProofs, siEnded, siVoid, siWrong>>

\* complete: an authorization code, or tokens.
Complete(b) ==
    LET r == siReq[b]
        i == siMade.proofs + 1 IN
    /\ r.at = "complete"
    /\ IF r.type = "code"
       THEN /\ i <= MaxProofs
            /\ siProofs' = With(siProofs, i, [kind |-> "code", user |-> r.user, born |-> r.born,
                                              client |-> r.client, used |-> FALSE])
            /\ siLoose' = IF Outdated(r) THEN siLoose \cup {<<"proof", i>>} ELSE siLoose
            /\ OneMore("proofs")
            /\ UNCHANGED siOrigins
       ELSE /\ IssueTokens(r.client, r.user, r.born, FALSE)
            /\ siLoose' = IF Outdated(r) THEN siLoose \cup {<<"origin", siMade.origins + 1>>}
                          ELSE siLoose
            /\ OneMore("origins")
            /\ UNCHANGED siProofs
    /\ SiGo(b, SiIdle)
    /\ UNCHANGED <<siPool, siClients, siUsers, siSessions, siEnded, siVoid, siWrong>>

\* The request ends with a page or an error: it is prompted to log in, its password is
\* wrong or refused, its grant is none.
Refuse(b) ==
    /\ siReq[b].at \in {"prepared", "token"}
    /\ SiGo(b, SiIdle)
    /\ UNCHANGED <<siPool, siClients, siUsers, siOrigins, siSessions, siProofs, siMade, siEnded,
                   siVoid, siWrong, siLoose>>

\* logout
Logout(s) ==
    /\ s \in DOMAIN siSessions
    /\ siClients # {}
    /\ siSessions' = Drop(siSessions, {s})
    /\ UNCHANGED <<siPool, siClients, siUsers, siOrigins, siProofs, siReq, siMade, siEnded, siVoid,
                   siWrong, siLoose>>

-----------------------------------------------------------------------------
(* The token endpoint *)

\* client_auth
ClientAuth(b, a) ==
    /\ siReq[b] = SiIdle
    /\ a \in siClients
    /\ SiGo(b, [at |-> "token", client |-> a])
    /\ UNCHANGED <<siPool, siClients, siUsers, siOrigins, siSessions, siProofs, siMade, siEnded,
                   siVoid, siWrong, siLoose>>

\* Mutant: a code is spent by the exchange that succeeds only.
SpentIfGranted(i, granted) == IF granted THEN [siProofs EXCEPT ![i].used = TRUE] ELSE siProofs

Spent(i, granted) == [siProofs EXCEPT ![i].used = TRUE]

\* Grant authorization_code: take_code and what follows in its transaction.
\* matches: redirect_uri and code_verifier are those of the code (module Oauth).
ExchangeCode(b, i, matches) ==
    LET a == siReq[b].client
        p == siProofs[i]
        granted == /\ ~p.used /\ p.client = a /\ matches
                   /\ p.user \in DOMAIN siUsers /\ siUsers[p.user].enabled
    IN  /\ siReq[b].at = "token"
        /\ i \in DOMAIN siProofs /\ p.kind = "code"
        /\ siPool
        /\ siProofs' = Spent(i, granted)
        /\ IF granted
           THEN IssueTokens(a, p.user, siUsers[p.user].born, TRUE) /\ OneMore("origins") /\ Honour(i)
           ELSE siVoid' = siVoid \cup {i} /\ UNCHANGED <<siOrigins, siMade, siWrong>>
        /\ siLoose' = IF granted /\ p.born # siUsers[p.user].born
                      THEN siLoose \cup {<<"origin", siMade.origins + 1>>} ELSE siLoose
        /\ SiGo(b, SiIdle)
        /\ UNCHANGED <<siPool, siClients, siUsers, siSessions, siEnded>>

-----------------------------------------------------------------------------
(* The pool and its clients *)

\* delete_client: access tokens that were issued stay good.
DeleteClient(a) ==
    /\ a \in siClients
    /\ siClients' = siClients \ {a}
    /\ siOrigins' = [o \in DOMAIN siOrigins |->
          IF siOrigins[o].client = a
          THEN [siOrigins[o] EXCEPT !.refresh = IF @ = "none" THEN @ ELSE "revoked"] ELSE siOrigins[o]]
    /\ UNCHANGED <<siPool, siUsers, siSessions, siProofs, siReq, siMade, siEnded, siVoid, siWrong,
                   siLoose>>

\* delete_pool; a reset does the same to these tables.
DeletePool ==
    /\ siPool
    /\ siPool' = FALSE /\ siClients' = {} /\ siUsers' = <<>>
    /\ siOrigins' = <<>> /\ siSessions' = <<>> /\ siProofs' = <<>>
    /\ siEnded' = siEnded \cup DOMAIN siOrigins
    /\ siVoid' = siVoid \cup DOMAIN siProofs
    /\ UNCHANGED <<siReq, siMade, siWrong, siLoose>>

\* seed_pool: what is missing of the pool, its clients and its users, in one step.
\* A seeded user with a password is confirmed.
SeedPool(u) ==
    /\ ~siPool \/ siClients # AppClients \/ u \notin DOMAIN siUsers
    /\ siPool' = TRUE /\ siClients' = AppClients
    /\ IF u \in DOMAIN siUsers THEN UNCHANGED <<siUsers, siMade>>
       ELSE /\ siMade.born < MaxBorn
            /\ siUsers' = With(siUsers, u, [status |-> "CONFIRMED", enabled |-> TRUE,
                                            born |-> siMade.born + 1, outs |-> 0])
            /\ OneMore("born")
    /\ UNCHANGED <<siOrigins, siSessions, siProofs, siReq, siEnded, siVoid, siWrong, siLoose>>

\* Time passes: a session, a proof or a refresh token expires.
Expire ==
    /\ \/ \E s \in DOMAIN siSessions :
             siSessions' = Drop(siSessions, {s}) /\ UNCHANGED <<siProofs, siOrigins, siVoid>>
       \/ \E i \in DOMAIN siProofs :
             /\ siProofs' = Drop(siProofs, {i}) /\ siVoid' = siVoid \cup {i}
             /\ UNCHANGED <<siSessions, siOrigins>>
       \/ \E o \in DOMAIN siOrigins :
             /\ siOrigins[o].refresh = "valid"
             /\ siOrigins' = [siOrigins EXCEPT ![o].refresh = "none"]
             /\ UNCHANGED <<siSessions, siProofs, siVoid>>
    /\ UNCHANGED <<siPool, siClients, siUsers, siReq, siMade, siEnded, siWrong, siLoose>>

SignInInit ==
    /\ siPool = FALSE /\ siClients = {} /\ siUsers = <<>>
    /\ siOrigins = <<>> /\ siSessions = <<>> /\ siProofs = <<>>
    /\ siReq = [b \in Browsers |-> SiIdle]
    /\ siMade = [born |-> 0, origins |-> 0, sessions |-> 0, proofs |-> 0]
    /\ siEnded = {} /\ siVoid = {} /\ siWrong = {} /\ siLoose = {}

UserAdmin ==
    \E u \in Usernames :
        \/ AdminCreateUser(u) \/ AdminConfirmSignUp(u) \/ AdminResetPassword(u)
        \/ \E permanent \in BOOLEAN : SetPassword(u, permanent)

UserRemoval ==
    \E u \in Usernames :
        \/ AdminDeleteUser(u) \/ GlobalSignOut(u)
        \/ \E enabled \in BOOLEAN : SetUserEnabled(u, enabled)

ApiRequest ==
    \/ \E u \in Usernames : SignUp(u) \/ \E kind \in {"signup", "reset"} : SendCode(u, kind)
    \/ \E i \in 1..MaxProofs :
          ConfirmWithCode(i) \/ RespondToChallenge(i) \/ PresentInVain(i)
    \/ \E a \in AppClients, u \in Usernames : InitiateAuth(a, u)
    \/ \E o \in 1..MaxOrigins : RevokeToken(o)

HostedRequest ==
    \/ \E s \in 1..MaxSessions : Logout(s)
    \/ \E b \in Browsers :
          \/ FinishLogin(b) \/ Complete(b) \/ Refuse(b)
          \/ \E a \in AppClients :
                ClientAuth(b, a) \/ \E type \in {"code", "token"} : PrepareRequest(b, a, type)
          \/ \E s \in 1..MaxSessions : AuthorizeWithSession(b, s)
          \/ \E u \in Usernames : LoginPost(b, u)
          \/ \E i \in 1..MaxProofs :
                LoginNewPassword(b, i) \/ \E matches \in BOOLEAN : ExchangeCode(b, i, matches)

PoolRequest ==
    \/ DeletePool
    \/ \E a \in AppClients : DeleteClient(a)
    \/ \E u \in Usernames : SeedPool(u)

\* Everybody at once: the API, the hosted UI, administrators, and time.
SignInNext == ApiRequest \/ UserAdmin \/ UserRemoval \/ HostedRequest \/ PoolRequest \/ Expire

SignInSpec == SignInInit /\ [][SignInNext]_siVars

-----------------------------------------------------------------------------
(* Properties *)

\* Tokens of a sign-in that was revoked, signed out of, or whose user was deleted, are
\* never accepted again, nor is one got in their place, whatever signs in under that
\* name later.
EndedStaysEnded ==
    \A o \in siEnded : \A u \in Usernames, a \in AppClients :
        (o \in DOMAIN siOrigins => siOrigins[o].user = u) => ~Accepted(o, u) /\ ~Refreshable(a, o)

\* A proof is there until it is honoured or replaced, expires, or its user is deleted: a
\* challenge session or a mailed code that was presented in vain is good for another try.
ProofsStay == \A i \in 1..siMade.proofs : i \in DOMAIN siProofs \/ i \in siVoid

\* An authorization code, a challenge session or a mailed code is honoured at most once,
\* and not after a newer one replaced it, it expired or its user was deleted.  A failed
\* exchange voids an authorization code as well, and no other proof.
ProofsOnce == siWrong = {} /\ ProofsStay

\* What lets a user in belongs to the user who is there: rows of a user who was deleted
\* do not serve the next one of that name, except what a request inserted that had read
\* the user before it was deleted.
BelongToTheirUser ==
    LET Right(kind, rows) ==
            \A x \in DOMAIN rows : <<kind, x>> \in siLoose \/
                (rows[x].user \in DOMAIN siUsers /\ siUsers[rows[x].user].born = rows[x].born)
    IN  Right("session", siSessions) /\ Right("origin", siOrigins) /\ Right("proof", siProofs)

\* A hosted-UI session ends when its user is signed out or disabled, except when the
\* request that logged in was under way.
SessionsEnd ==
    \A s \in DOMAIN siSessions : <<"session", s>> \in siLoose
        \/ (siSessions[s].user \in DOMAIN siUsers => siSessions[s].outs = siUsers[siSessions[s].user].outs)

\* Nobody has signed in as a user who is not confirmed, except with a code that a request
\* had inserted for a former user of that name.
UnconfirmedHasNothing ==
    \A u \in DOMAIN siUsers : siUsers[u].status = "UNCONFIRMED" =>
        \A o \in OriginsOf(u) : <<"origin", o>> \in siLoose \/ siOrigins[o].born # siUsers[u].born

\* What signs somebody in is that user's, made for one who may sign in, and ends with
\* the sign-out.
RightsOfUser == BelongToTheirUser /\ SessionsEnd /\ UnconfirmedHasNothing
=============================================================================
