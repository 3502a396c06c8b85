------------------------------- MODULE Oauth -------------------------------
(***************************************************************************)
(* Cognito: what a client may ask the hosted UI and the token endpoint     *)
(* for.  The settings of a client (client_data_from of                     *)
(* src/src/aws/cognito/service.rs), the conditions of prepare, token and   *)
(* logout in handlers_oidc.rs, and the codes that carry what was asked     *)
(* from one to the other, while the settings change.  Who signs in is      *)
(* module SignIn's.  A client that is seeded from a file, which            *)
(* seed_client stores without these checks, is not modelled.               *)
(***************************************************************************)
EXTENDS Integers, FiniteSets, ServiceConstants

CONSTANTS
    Uris, Scopes,     \* of the settings and the requests
    ServerScopes,     \* scopes with a /, of resource servers
    NewSettings,      \* bound: the settings that update_client is called with
    MaxGrants         \* bound: how many codes, and how many kinds of tokens, are ever made

VARIABLES
    oaClient,   \* the settings of the client
    oaCodes,    \* codes: number -> what was asked for
    oaGrants    \* history: the tokens granted, and how

oaVars == <<oaClient, oaCodes, oaGrants>>

Flows == {"code", "implicit", "client_credentials"}

\* callbacks: CallbackURLs, default: DefaultRedirectURI, logouts: LogoutURLs,
\* oauth: AllowedOAuthFlowsUserPoolClient, flows: AllowedOAuthFlows,
\* scopes: AllowedOAuthScopes, secret: whether there is one.
Settings == [callbacks : SUBSET Uris, default : Uris \cup {None}, oauth : BOOLEAN,
             flows : SUBSET Flows, scopes : SUBSET Scopes, secret : BOOLEAN]

\* What a request is refused with.
Errors == {"page", "unsupported_response_type", "unauthorized_client", "invalid_scope",
           "invalid_request"}

ASSUME OauthConstants ==
    /\ ServerScopes \subseteq Scopes /\ MaxGrants \in Nat
    /\ NewSettings \subseteq Settings
    /\ None \notin Uris
    /\ None \notin {"code", "token", "S256", "plain", "md5", "c", "preimage"} \cup Errors

\* client_data_from refuses other settings.
ValidSettings(s) ==
    /\ s.default # None => s.default \in s.callbacks
    /\ s.oauth =>
          /\ s.flows # {}
          /\ s.flows \cap {"code", "implicit"} # {} => s.callbacks # {}

\* A request to /oauth2/authorize or /login; None stands for a parameter that is missing.
Requests == [redirect : Uris \cup {None}, type : {"code", "token", None},
             scopes : SUBSET Scopes \cup {None}, challenge : {"c", None},
             method : {"S256", "plain", "md5", None}]

-----------------------------------------------------------------------------
(* prepare *)

Page == [to |-> None, error |-> "page"]
Redirected(uri, error) == [to |-> uri, error |-> error]

\* Mutant: the redirect_uri of the request is not compared.
AnyUri(s, uri) == uri # None

\* A missing redirect_uri is the default one.
RedirectUri(s, q) == IF q.redirect # None THEN q.redirect ELSE s.default

Registered(s, uri) == uri \in s.callbacks

Asked(s, q) == IF q.scopes = None THEN s.scopes ELSE q.scopes

FlowOf(q) == IF q.type = "token" THEN "implicit" ELSE q.type

\* A page while the redirect_uri is not trusted, then a redirect with the first error.
Prepare(s, q) ==
    LET uri == RedirectUri(s, q) IN
    CASE ~Registered(s, uri) -> Page
      [] Registered(s, uri) /\ q.type = None -> Redirected(uri, "unsupported_response_type")
      [] Registered(s, uri) /\ q.type # None /\ ~(s.oauth /\ FlowOf(q) \in s.flows) ->
             Redirected(uri, "unauthorized_client")
      [] OTHER ->
             IF Asked(s, q) = {} \/ ~(Asked(s, q) \subseteq s.scopes)
             THEN Redirected(uri, "invalid_scope")
             ELSE IF q.method = "md5" \/ (q.method # None /\ q.challenge = None)
                  THEN Redirected(uri, "invalid_request")
                  ELSE Redirected(uri, None)

\* What the code keeps of it; a challenge without a method is plain.
CodeOf(s, q) ==
    [redirect |-> RedirectUri(s, q), scopes |-> Asked(s, q), challenge |-> q.challenge,
     method |-> IF q.challenge # None /\ q.method = None THEN "plain" ELSE q.method,
     used |-> FALSE]

\* History: code is 0 where there is none.
Grant(grant, code, verified, redirect, scopes) ==
    /\ Cardinality(oaGrants) < MaxGrants
    /\ oaGrants' = oaGrants \cup {[grant |-> grant, code |-> code, verified |-> verified,
                                   redirect |-> redirect, scopes |-> scopes]}

-----------------------------------------------------------------------------
(* The token endpoint *)

\* A verifier is the challenge itself, or what it is the digest of.
Verifiers == {"c", "preimage", "other", None}

\* Mutant: a missing verifier is not missed.
VerifiedIfGiven(challenge, method, verifier) ==
    verifier = None \/ challenge = None
    \/ verifier = IF method = "S256" THEN "preimage" ELSE challenge

\* verify_pkce
Verified(challenge, method, verifier) ==
    challenge # None => verifier = IF method = "S256" THEN "preimage" ELSE challenge

Authorize(q) ==
    LET n == Cardinality(DOMAIN oaCodes) + 1 IN
    /\ Prepare(oaClient, q).error = None /\ q.type = "code"
    /\ n <= MaxGrants
    /\ oaCodes' = [i \in DOMAIN oaCodes \cup {n} |->
          IF i = n THEN CodeOf(oaClient, q) ELSE oaCodes[i]]
    /\ UNCHANGED <<oaClient, oaGrants>>

\* Implicit grant: tokens at once, if the settings let it.
AuthorizeImplicit(q) ==
    /\ Prepare(oaClient, q).error = None /\ q.type = "token"
    /\ Grant("implicit", 0, TRUE, RedirectUri(oaClient, q), Asked(oaClient, q))
    /\ UNCHANGED <<oaClient, oaCodes>>

\* Grant authorization_code.  The code is spent even when the exchange fails; the scopes
\* are those of the code, whatever the settings are by now.
Exchange(i, redirect, verifier) ==
    LET code == oaCodes[i] IN
    /\ oaClient.oauth /\ "code" \in oaClient.flows
    /\ i \in DOMAIN oaCodes
    /\ oaCodes' = [oaCodes EXCEPT ![i].used = TRUE]
    /\ IF code.used \/ redirect # code.redirect
             \/ ~Verified(code.challenge, code.method, verifier)
       THEN UNCHANGED oaGrants
       ELSE Grant("code", i, verifier # None, redirect, code.scopes)
    /\ UNCHANGED oaClient

ServerScopesOf(s) == s.scopes \cap ServerScopes

\* Grant client_credentials, for a client with a secret.
ClientCredentials(scopes) ==
    LET asked == IF scopes = None THEN ServerScopesOf(oaClient) ELSE scopes IN
    /\ oaClient.secret /\ oaClient.oauth /\ "client_credentials" \in oaClient.flows
    /\ asked # {} /\ asked \subseteq ServerScopesOf(oaClient)
    /\ Grant("credentials", 0, TRUE, None, asked)
    /\ UNCHANGED <<oaClient, oaCodes>>

\* update_client replaces all settings but the secret.
UpdateClient(s) ==
    /\ [s EXCEPT !.secret = oaClient.secret] # oaClient
    /\ ValidSettings(s)
    /\ oaClient' = [s EXCEPT !.secret = oaClient.secret]
    /\ UNCHANGED <<oaCodes, oaGrants>>

OauthInit ==
    /\ oaClient \in {s \in Settings : ValidSettings(s)}
    /\ oaCodes = <<>> /\ oaGrants = {}

OauthNext ==
    \/ \E q \in Requests : Authorize(q) \/ AuthorizeImplicit(q)
    \/ \E i \in DOMAIN oaCodes, redirect \in Uris, verifier \in Verifiers : Exchange(i, redirect, verifier)
    \/ \E scopes \in SUBSET Scopes \cup {None} : ClientCredentials(scopes)
    \/ \E s \in NewSettings : UpdateClient(s)

OauthSpec == OauthInit /\ [][OauthNext]_oaVars

-----------------------------------------------------------------------------
(* Properties *)

\* The hosted UI redirects, be it with an error, only to an address that the client has
\* registered; and it goes on if and only if nothing is wrong with the request.
RedirectsRegistered ==
    \A q \in Requests :
        LET answer == Prepare(oaClient, q) IN
        /\ answer.to # None => answer.to \in oaClient.callbacks
        /\ (answer.error = None) =
              /\ oaClient.oauth
              /\ (q.type = "code" /\ "code" \in oaClient.flows)
                 \/ (q.type = "token" /\ "implicit" \in oaClient.flows)
              /\ IF q.redirect = None THEN oaClient.default # None ELSE q.redirect \in oaClient.callbacks
              /\ IF q.scopes = None THEN oaClient.scopes # {}
                 ELSE q.scopes # {} /\ q.scopes \subseteq oaClient.scopes
              /\ q.method \in {"S256", "plain", None}
              /\ q.method # None => q.challenge # None

\* A code that was asked for with a challenge is exchanged with a verifier only, for
\* the scopes and the address it was asked for, and spent by it.
ExchangedAsAsked ==
    \A g \in oaGrants :
        g.grant = "code" =>
            /\ oaCodes[g.code].used
            /\ g.redirect = oaCodes[g.code].redirect /\ g.scopes = oaCodes[g.code].scopes
            /\ oaCodes[g.code].challenge # None => g.verified
=============================================================================
