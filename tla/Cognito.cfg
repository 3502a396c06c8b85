SPECIFICATION Spec
CONSTANTS
    None = None
    Browsers = {b1}
    AppClients = {c1, c2}
    Usernames = {u1}
    MaxBorn = 2
    MaxOrigins = 2
    MaxSessions = 1
    MaxProofs = 2
    MaxOuts = 1
    Pools = {c1, c2}
    Domains = {d1}
    PoolClients = {a1}
    Logins <- MCLogins
    MaxMembers = 2
    Uris = {uri1, uri2}
    Scopes = {s1, s2}
    ServerScopes = {s2}
    NewSettings <- MCNewSettings
    MaxGrants = 1
    Signers = {c1, c2}
    MaxKeysMade = 3
SYMMETRY ClientSymmetry
INVARIANTS
    TokensHonoured
    ProofsOnce
    RightsOfUser
    GrantedAsAsked
PROPERTIES
    DirectorySound
CHECK_DEADLOCK FALSE
