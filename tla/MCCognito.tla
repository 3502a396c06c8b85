----------------------------- MODULE MCCognito -----------------------------
(***************************************************************************)
(* The four parts of Cognito.  Each behaviour of this model is one of      *)
(* theirs: part says whose, the others stand still.  The sign-in is        *)
(* explored twice, through the API and through the hosted UI, which starts *)
(* with a user who exists; module CognitoProofs proves the two together.   *)
(***************************************************************************)
EXTENDS TLC, SignIn, UserPools, Oauth, SigningKeys

VARIABLE part

vars == <<part, siVars, upVars, oaVars, skVars>>

MCLogins == {<<"m", "upper">>, <<"m", "lower">>, <<"n", "lower">>}

\* Everything allowed, one flow after the other, and nothing.
MCNewSettings ==
    {[callbacks |-> Uris, default |-> d, oauth |-> TRUE, flows |-> f, scopes |-> sc, secret |-> TRUE] :
        d \in Uris \cup {None}, f \in {{"code"}, {"implicit"}, Flows}, sc \in {ServerScopes, Scopes}}
    \cup {[callbacks |-> {}, default |-> None, oauth |-> FALSE, flows |-> {}, scopes |-> {},
           secret |-> TRUE]}

\* Pools, clients and the requests that sign are the same two values.
ClientSymmetry == Permutations(AppClients)

\* A seed with one user, before the first request.
SignInSeeded(status) ==
    /\ siPool = TRUE /\ siClients = AppClients
    /\ siUsers = [u \in Usernames |->
                     [status |-> status, enabled |-> TRUE, born |-> 1, outs |-> 0]]
    /\ siOrigins = <<>> /\ siSessions = <<>> /\ siProofs = <<>>
    /\ siReq = [b \in Browsers |-> SiIdle]
    /\ siMade = [born |-> 1, origins |-> 0, sessions |-> 0, proofs |-> 0]
    /\ siEnded = {} /\ siVoid = {} /\ siWrong = {} /\ siLoose = {}

Init ==
    /\ part \in {"api", "hosted", "pools", "oauth", "keys"}
    /\ UserPoolsInit /\ OauthInit /\ SigningKeysInit
    /\ IF part = "hosted"
       THEN SignInSeeded("CONFIRMED") \/ SignInSeeded("FORCE_CHANGE_PASSWORD")
       ELSE SignInInit
    /\ part # "oauth" => oaClient.flows = {} /\ oaClient.callbacks = {} /\ ~oaClient.oauth
                         /\ oaClient.scopes = {} /\ ~oaClient.secret

Next ==
    \/ /\ part = "api" /\ (ApiRequest \/ UserAdmin \/ UserRemoval \/ PoolRequest \/ Expire)
       /\ UNCHANGED <<part, upVars, oaVars, skVars>>
    \/ /\ part = "hosted"
       /\ HostedRequest \/ UserRemoval \/ PoolRequest \/ \E u \in Usernames : SignUp(u)
       /\ UNCHANGED <<part, upVars, oaVars, skVars>>
    \/ /\ part = "pools" /\ UserPoolsNext
       /\ UNCHANGED <<part, siVars, oaVars, skVars>>
    \/ /\ part = "oauth" /\ OauthNext
       /\ UNCHANGED <<part, siVars, upVars, skVars>>
    \/ /\ part = "keys" /\ SigningKeysNext
       /\ UNCHANGED <<part, siVars, upVars, oaVars>>

Spec == Init /\ [][Next]_vars

-----------------------------------------------------------------------------
(* Properties *)

\* Cognito's hosted UI redirects to registered addresses only, and goes on with a request
\* if and only if nothing is wrong with it.
RedirectsTrusted == part = "oauth" => RedirectsRegistered

\* The tokens that Cognito signs verify, and are refused for good once their sign-in has
\* ended.
TokensHonoured == EndedStaysEnded /\ TokensVerify

\* What a client asks for is what it gets: at an address it registered, for the scopes it
\* asked for, against the verifier of its challenge.
GrantedAsAsked == RedirectsTrusted /\ ExchangedAsAsked
=============================================================================
