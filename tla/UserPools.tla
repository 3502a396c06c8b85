----------------------------- MODULE UserPools -----------------------------
(***************************************************************************)
(* Cognito: user pools, their domains and clients, and the names their     *)
(* users are found by.  src/src/aws/cognito/service.rs, with the handlers  *)
(* of handlers_api.rs and the seed of mod.rs.  Every request is one        *)
(* transaction: here the hard part is not concurrency but that names are   *)
(* unique after any sequence of requests, whichever of the names a login   *)
(* is looked up by.                                                        *)
(*                                                                         *)
(* A name is a letter of some case: <<"n", "upper">> and <<"n", "lower">>  *)
(* are one name, since pools are case-insensitive unless they are told     *)
(* otherwise; pools that are told otherwise are not modelled, nor are      *)
(* phone numbers, preferred user names and the sub as names of a user.     *)
(***************************************************************************)
EXTENDS Integers, FiniteSets, Functions, ServiceConstants

CONSTANTS
    Pools, Domains,
    PoolClients,     \* ids of clients
    Logins,          \* what users sign in with: names and mail addresses
    MaxMembers       \* bound: how many users are ever made

ASSUME UserPoolsConstants == MaxMembers \in Nat /\ None \notin Logins

VARIABLES
    upPools,     \* table cognito_user_pools: id -> [kind, domain]
    upClients,   \* table cognito_clients: id -> pool
    upUsers,     \* table cognito_users: number, in the order of creation -> row
    upMade       \* how many users were made

upVars == <<upPools, upClients, upUsers, upMade>>

\* "plain": users have the name they chose; "email": UsernameAttributes is [email], the
\* username is the sub and the login the mail address; "alias": AliasAttributes is
\* [email], a verified address serves as well.
Kinds == {"plain", "email", "alias"}

PoolRows == [kind : Kinds, domain : Domains \cup {None}]

\* username is None where it is the random sub.
MemberRows == [pool : Pools, username : Logins \cup {None}, email : Logins \cup {None},
               verified : BOOLEAN]

Letter(name) == name[1]

\* COLLATE NOCASE and lower()
SameName(a, b) == a # None /\ b # None /\ Letter(a) = Letter(b)

Entry(f, x, v) == [y \in DOMAIN f \cup {x} |-> IF y = x THEN v ELSE f[y]]
Without(f, S) == Restrict(f, DOMAIN f \ S)
Members(p) == {n \in DOMAIN upUsers : upUsers[n].pool = p}
Kind(p) == upPools[p].kind
Oldest(S) == {n \in S : \A m \in S : n <= m}

-----------------------------------------------------------------------------
(* Looking users up *)

ByName(p, login) == {n \in Members(p) : SameName(upUsers[n].username, login)}
ByEmail(p, login) == {n \in Members(p) : SameName(upUsers[n].email, login)}

\* find_user: by username, then by what else the pool lets a user be found by, the oldest
\* row first.  A set of at most one.
FindUser(p, login) ==
    IF ByName(p, login) # {} THEN Oldest(ByName(p, login))
    ELSE IF Kind(p) = "email" THEN Oldest(ByEmail(p, login))
    ELSE IF Kind(p) = "alias" THEN Oldest({n \in ByEmail(p, login) : upUsers[n].verified})
    ELSE {}

\* Mutant: addresses are compared letter by letter.
TakenExactly(p, email, except) == \E n \in Members(p) \ except : upUsers[n].email = email

\* email_taken
EmailTaken(p, email, except) == ByEmail(p, email) \ except # {}

-----------------------------------------------------------------------------
(* Users *)

\* create_user: by AdminCreateUser, SignUp or a seed.
CreateUser(p, login, email, verified) ==
    LET address == IF Kind(p) = "email" THEN login ELSE email IN
    /\ p \in DOMAIN upPools
    /\ FindUser(p, login) = {}
    /\ Kind(p) = "email" => ~EmailTaken(p, address, {})
    /\ upMade < MaxMembers
    /\ upMade' = upMade + 1
    /\ upUsers' = Entry(upUsers, upMade + 1, [pool |-> p,
          username |-> IF Kind(p) = "email" THEN None ELSE login,
          email |-> address, verified |-> verified /\ address # None])
    /\ UNCHANGED <<upPools, upClients>>

\* update_attributes refuses an address that another user has.
EmailFree(n, email) ==
    Kind(upUsers[n].pool) = "email" => ~EmailTaken(upUsers[n].pool, email, {n})

\* AdminUpdateUserAttributes, or RespondToAuthChallenge, with an address: it is no longer
\* verified unless the request says so.
UpdateEmail(n, email, given, verified) ==
    /\ n \in DOMAIN upUsers
    /\ EmailFree(n, email)
    /\ upUsers' = [upUsers EXCEPT ![n].email = email,
          ![n].verified = IF given THEN verified ELSE @ /\ upUsers[n].email = email]
    /\ UNCHANGED <<upPools, upClients, upMade>>

\* AdminDeleteUserAttributes: email and email_verified are attributes of their own.
DeleteEmail(n) ==
    /\ n \in DOMAIN upUsers /\ upUsers[n].email # None
    /\ upUsers' = [upUsers EXCEPT ![n].email = None]
    /\ UNCHANGED <<upPools, upClients, upMade>>

DeleteMember(n) ==
    /\ n \in DOMAIN upUsers
    /\ upUsers' = Without(upUsers, {n})
    /\ UNCHANGED <<upPools, upClients, upMade>>

-----------------------------------------------------------------------------
(* Pools, domains and clients *)

CreatePool(p, kind) ==
    /\ p \notin DOMAIN upPools
    /\ upPools' = Entry(upPools, p, [kind |-> kind, domain |-> None])
    /\ UNCHANGED <<upClients, upUsers, upMade>>

\* Mutant: the clients of the pool stay.
NoClients(p) == {}

ClientsOf(p) == {a \in DOMAIN upClients : upClients[a] = p}

\* delete_pool
DeleteUserPool(p) ==
    /\ p \in DOMAIN upPools
    /\ upPools' = Without(upPools, {p})
    /\ upClients' = Without(upClients, ClientsOf(p))
    /\ upUsers' = Without(upUsers, Members(p))
    /\ UNCHANGED upMade

\* Mutant: only the pool itself is looked at.
OwnDomain(p, d) == upPools[p].domain \in {None, d}

\* create_domain
DomainFree(p, d) ==
    /\ upPools[p].domain \in {None, d}
    /\ \A r \in DOMAIN upPools \ {p} : upPools[r].domain # d

CreateDomain(p, d) ==
    /\ p \in DOMAIN upPools
    /\ DomainFree(p, d)
    /\ upPools' = [upPools EXCEPT ![p].domain = d]
    /\ UNCHANGED <<upClients, upUsers, upMade>>

DeleteDomain(p) ==
    /\ p \in DOMAIN upPools /\ upPools[p].domain # None
    /\ upPools' = [upPools EXCEPT ![p].domain = None]
    /\ UNCHANGED <<upClients, upUsers, upMade>>

CreateClient(p, a) ==
    /\ p \in DOMAIN upPools
    /\ a \notin DOMAIN upClients
    /\ upClients' = Entry(upClients, a, p)
    /\ UNCHANGED <<upPools, upUsers, upMade>>

DeletePoolClient(a) ==
    /\ a \in DOMAIN upClients
    /\ upClients' = Without(upClients, {a})
    /\ UNCHANGED <<upPools, upUsers, upMade>>

\* seed_pool for an existing pool or a new one: a domain is set only if the pool has none
\* and nobody has it; a client that belongs to another pool makes the whole seed fail;
\* a user that is found is left alone (CreateUser otherwise, in the same transaction).
Seed(p, kind, d, a) ==
    LET old == p \in DOMAIN upPools
        row == IF old THEN upPools[p] ELSE [kind |-> kind, domain |-> None]
        free == row.domain = None /\ \A r \in DOMAIN upPools : upPools[r].domain # d
    IN  /\ a \in DOMAIN upClients => upClients[a] = p
        /\ upPools' = Entry(upPools, p, IF free THEN [row EXCEPT !.domain = d] ELSE row)
        /\ upClients' = Entry(upClients, a, p)
        /\ UNCHANGED <<upUsers, upMade>>

UserPoolsInit == upPools = <<>> /\ upClients = <<>> /\ upUsers = <<>> /\ upMade = 0

MemberRequest ==
    \/ \E p \in DOMAIN upPools, login \in Logins, email \in Logins \cup {None}, verified \in BOOLEAN :
          CreateUser(p, login, email, verified)
    \/ \E n \in DOMAIN upUsers :
          \/ DeleteEmail(n) \/ DeleteMember(n)
          \/ \E email \in Logins, given, verified \in BOOLEAN : UpdateEmail(n, email, given, verified)

DirectoryRequest ==
    \/ \E p \in Pools :
          \/ DeleteUserPool(p) \/ DeleteDomain(p)
          \/ \E kind \in Kinds : CreatePool(p, kind)
          \/ \E d \in Domains : CreateDomain(p, d)
          \/ \E a \in PoolClients : CreateClient(p, a)
          \/ \E kind \in Kinds, d \in Domains, a \in PoolClients : Seed(p, kind, d, a)
    \/ \E a \in PoolClients : DeletePoolClient(a)

UserPoolsNext == MemberRequest \/ DirectoryRequest

UserPoolsSpec == UserPoolsInit /\ [][UserPoolsNext]_upVars

-----------------------------------------------------------------------------
(* Properties *)

\* Whatever users are made, renamed and removed: a user is found by its own username, in
\* any case, and where the mail address is the login, each user is found by its address.
FoundByLogin ==
    \A n \in DOMAIN upUsers :
        LET row == upUsers[n] IN
        /\ row.username # None => \A x \in Logins :
              SameName(x, row.username) => FindUser(row.pool, x) = {n}
        /\ Kind(row.pool) = "email" /\ row.email # None => \A x \in Logins :
              SameName(x, row.email) => FindUser(row.pool, x) = {n}

\* A domain leads to one pool.
DomainOfOnePool ==
    \A p, r \in DOMAIN upPools :
        p # r /\ upPools[p].domain # None => upPools[p].domain # upPools[r].domain

\* A client and a user have a pool: what belonged to a deleted pool is not found in the
\* one that is made with its id.
HavePool ==
    \A p \in DOMAIN upPools' \ DOMAIN upPools :
        (\A a \in DOMAIN upClients : upClients[a] # p) /\ Members(p) = {}

\* Names lead where they should: logins to users, domains to pools, and the id of a pool
\* to nothing of a former one.
DirectorySound == [][FoundByLogin' /\ DomainOfOnePool' /\ HavePool]_upVars
=============================================================================
