---------------------------- MODULE CognitoProofs ----------------------------
(***************************************************************************)
(* Theorems about Cognito, for every number of users, clients, browsers    *)
(* and requests: who signs in, with everybody at once; the key that signs; *)
(* and what clients are granted.                                           *)
(***************************************************************************)
EXTENDS MCCognito, FiniteSetTheorems, TLAPS

-----------------------------------------------------------------------------
(* Signing in *)

\* What the request of a browser may hold.
SiRequests ==
    {SiIdle}
    \cup [at : {"prepared"}, client : AppClients, type : {"code", "token"}]
    \cup [at : {"token"}, client : AppClients]
    \cup [at : {"finish", "complete"}, client : AppClients, type : {"code", "token"},
          user : Usernames, born : Nat, outs : Nat]

SignInTypeOK ==
    /\ siMade \in [born : Nat, origins : Nat, sessions : Nat, proofs : Nat]
    /\ siClients \subseteq AppClients
    /\ siReq \in [Browsers -> SiRequests]
    /\ DOMAIN siUsers \subseteq Usernames
    /\ \A u \in DOMAIN siUsers : siUsers[u] \in UserRows
    /\ DOMAIN siOrigins \subseteq 1..siMade.origins
    /\ \A o \in DOMAIN siOrigins : siOrigins[o] \in OriginRows
    /\ DOMAIN siSessions \subseteq 1..siMade.sessions
    /\ \A s \in DOMAIN siSessions : siSessions[s] \in SessionRows
    /\ DOMAIN siProofs \subseteq 1..siMade.proofs
    /\ \A i \in DOMAIN siProofs : siProofs[i] \in Proofs
    /\ siEnded \subseteq 1..siMade.origins
    /\ siVoid \subseteq 1..siMade.proofs

\* Nothing is of a user who is yet to be made.
BornBefore ==
    /\ \A u \in DOMAIN siUsers : siUsers[u].born <= siMade.born
    /\ \A o \in DOMAIN siOrigins : siOrigins[o].born <= siMade.born
    /\ \A i \in DOMAIN siProofs : siProofs[i].born <= siMade.born
    /\ \A b \in Browsers : siReq[b].at \in {"finish", "complete"} => siReq[b].born <= siMade.born

\* Of the void proofs only codes that were spent are still there.
VoidIsSpent ==
    \A i \in siVoid \cap DOMAIN siProofs : siProofs[i].kind = "code" /\ siProofs[i].used

EndedIsRevoked == \A o \in siEnded : OriginRevoked(o)

\* Whether u is a user of that birth who is confirmed, or no longer there.
Confirmed(u, born) ==
    u \in DOMAIN siUsers /\ siUsers[u].born = born => siUsers[u].status # "UNCONFIRMED"

ConfirmedAfter(u, born) ==
    u \in DOMAIN siUsers' /\ siUsers'[u].born = born => siUsers'[u].status # "UNCONFIRMED"

\* Codes, and the requests that are about to make one, are of users who were confirmed.
CodesConfirmed ==
    /\ \A i \in DOMAIN siProofs : siProofs[i].kind = "code" =>
          Confirmed(siProofs[i].user, siProofs[i].born)
    /\ \A b \in Browsers : siReq[b].at \in {"finish", "complete"} =>
          Confirmed(siReq[b].user, siReq[b].born)

SignInInv ==
    /\ SignInTypeOK /\ BornBefore /\ VoidIsSpent /\ EndedIsRevoked /\ CodesConfirmed
    /\ ProofsOnce /\ RightsOfUser

LEMMA SignInInvInit == SignInInit => SignInInv
<1> SUFFICES ASSUME SignInInit PROVE SignInInv
  OBVIOUS
<1>1. \A b \in Browsers : siReq[b] = [at |-> "idle"]
  BY DEF SignInInit, SiIdle
<1>2. SignInTypeOK
  BY DEF SignInInit, SignInTypeOK, SiRequests
<1>3. BornBefore /\ VoidIsSpent /\ EndedIsRevoked /\ CodesConfirmed
  BY <1>1 DEF SignInInit, BornBefore, VoidIsSpent, EndedIsRevoked, CodesConfirmed
<1>4. ProofsOnce /\ RightsOfUser
  BY DEF SignInInit, ProofsOnce, ProofsStay, RightsOfUser, BelongToTheirUser, SessionsEnd,
         UnconfirmedHasNothing
<1> QED
  BY <1>2, <1>3, <1>4 DEF SignInInv

\* What a step does to the users: it makes one, changes one and keeps its birth, or
\* removes one with all its rows; and it does not undo a confirmation.  Who is signed out
\* keeps no session.
UserSteps ==
    /\ DOMAIN siUsers' \subseteq Usernames
    /\ \A u \in DOMAIN siUsers' : siUsers'[u] \in UserRows
    /\ \A u \in DOMAIN siUsers' \ DOMAIN siUsers :
          siUsers'[u].born = siMade.born + 1 /\ siMade'.born = siMade.born + 1
    /\ \A u \in DOMAIN siUsers' \cap DOMAIN siUsers :
          /\ siUsers'[u].born = siUsers[u].born
          /\ siUsers'[u].status = "UNCONFIRMED" => siUsers[u].status = "UNCONFIRMED"
          /\ siUsers'[u].outs = siUsers[u].outs
             \/ \A s \in DOMAIN siSessions' : siSessions'[s].user # u
    /\ \A u \in DOMAIN siUsers \ DOMAIN siUsers' :
          /\ \A o \in DOMAIN siOrigins' : siOrigins'[o].user # u
          /\ \A s \in DOMAIN siSessions' : siSessions'[s].user # u
          /\ \A i \in DOMAIN siProofs' : siProofs'[i].user # u

\* An origin is revoked, or new: of a user who is there and confirmed, or loose.
OriginSteps ==
    /\ \A o \in DOMAIN siOrigins' : siOrigins'[o] \in OriginRows
    /\ \A o \in DOMAIN siOrigins' \cap DOMAIN siOrigins :
          /\ siOrigins'[o].user = siOrigins[o].user /\ siOrigins'[o].born = siOrigins[o].born
          /\ siOrigins[o].revoked => siOrigins'[o].revoked
    /\ \A o \in DOMAIN siOrigins' \ DOMAIN siOrigins :
          /\ o = siMade.origins + 1 /\ siMade'.origins = o
          /\ siOrigins'[o].born <= siMade.born
          /\ <<"origin", o>> \in siLoose' \/
                /\ siOrigins'[o].user \in DOMAIN siUsers'
                /\ siOrigins'[o].born = siUsers'[siOrigins'[o].user].born
                /\ siUsers'[siOrigins'[o].user].status # "UNCONFIRMED"

\* A session is new, of the user as it is, or loose.
SessionSteps ==
    /\ \A s \in DOMAIN siSessions' \cap DOMAIN siSessions : siSessions'[s] = siSessions[s]
    /\ \A s \in DOMAIN siSessions' \ DOMAIN siSessions :
          /\ siSessions'[s] \in SessionRows
          /\ s = siMade.sessions + 1 /\ siMade'.sessions = s
          /\ <<"session", s>> \in siLoose' \/
                /\ siSessions'[s].user \in DOMAIN siUsers'
                /\ siSessions'[s].born = siUsers'[siSessions'[s].user].born
                /\ siSessions'[s].outs = siUsers'[siSessions'[s].user].outs

\* A proof is spent, or new; of those that become void only spent codes stay, and those
\* that go are void.
ProofSteps ==
    /\ \A i \in DOMAIN siProofs \ DOMAIN siProofs' : i \in siVoid'
    /\ \A i \in DOMAIN siProofs' : siProofs'[i] \in Proofs
    /\ \A i \in DOMAIN siProofs' \cap DOMAIN siProofs :
          /\ siProofs'[i].kind = siProofs[i].kind /\ siProofs'[i].user = siProofs[i].user
          /\ siProofs'[i].born = siProofs[i].born
          /\ siProofs[i].used => siProofs'[i].used
          /\ i \in siVoid' \ siVoid => siProofs[i].kind = "code" /\ siProofs'[i].used
    /\ \A i \in DOMAIN siProofs' \ DOMAIN siProofs :
          /\ i = siMade.proofs + 1 /\ siMade'.proofs = i
          /\ siProofs'[i].born <= siMade'.born
          /\ <<"proof", i>> \in siLoose' \/
                /\ siProofs'[i].user \in DOMAIN siUsers'
                /\ siProofs'[i].born = siUsers'[siProofs'[i].user].born
          /\ siProofs'[i].kind = "code" => ConfirmedAfter(siProofs'[i].user, siProofs'[i].born)

\* A request holds what it held, or a user who is confirmed.
RequestSteps ==
    /\ siReq' \in [Browsers -> SiRequests]
    /\ \A b \in Browsers : siReq'[b].at \in {"finish", "complete"} =>
          \/ /\ siReq[b].at \in {"finish", "complete"}
             /\ siReq'[b].user = siReq[b].user /\ siReq'[b].born = siReq[b].born
          \/ /\ siReq'[b].born <= siMade.born
             /\ ConfirmedAfter(siReq'[b].user, siReq'[b].born)

HistorySteps ==
    /\ siMade' \in [born : Nat, origins : Nat, sessions : Nat, proofs : Nat]
    /\ siMade'.born >= siMade.born /\ siMade'.origins >= siMade.origins
    /\ siMade'.sessions >= siMade.sessions /\ siMade'.proofs >= siMade.proofs
    /\ siMade'.proofs # siMade.proofs =>
          siMade'.proofs = siMade.proofs + 1 /\ siMade'.proofs \in DOMAIN siProofs'
    /\ siClients' \subseteq AppClients
    /\ siLoose \subseteq siLoose'
    /\ siWrong' = siWrong
    /\ siVoid \subseteq siVoid' /\ siVoid' \ siVoid \subseteq DOMAIN siProofs
    /\ siEnded' \ siEnded \subseteq DOMAIN siOrigins
    /\ \A o \in siEnded' \ siEnded : OriginRevoked(o)'

SignInEffect ==
    UserSteps /\ OriginSteps /\ SessionSteps /\ ProofSteps /\ RequestSteps /\ HistorySteps

LEMMA EffectKeeps == SignInInv /\ SignInEffect => SignInInv'
<1> SUFFICES ASSUME SignInInv, SignInEffect PROVE SignInInv'
  OBVIOUS
<1>a. /\ SignInTypeOK /\ BornBefore /\ VoidIsSpent /\ EndedIsRevoked /\ CodesConfirmed
      /\ ProofsOnce /\ BelongToTheirUser /\ SessionsEnd /\ UnconfirmedHasNothing
  BY DEF SignInInv, RightsOfUser
<1>b. UserSteps /\ OriginSteps /\ SessionSteps /\ ProofSteps /\ RequestSteps /\ HistorySteps
  BY DEF SignInEffect
<1>c. /\ siMade.born \in Nat /\ siMade.origins \in Nat /\ siMade.sessions \in Nat
      /\ siMade.proofs \in Nat
      /\ siMade'.born \in Nat /\ siMade'.origins \in Nat /\ siMade'.sessions \in Nat
      /\ siMade'.proofs \in Nat
      /\ siMade'.born >= siMade.born /\ siMade'.origins >= siMade.origins
      /\ siMade'.sessions >= siMade.sessions /\ siMade'.proofs >= siMade.proofs
  BY <1>a, <1>b DEF SignInTypeOK, HistorySteps
<1>1. SignInTypeOK'
  <2>1. DOMAIN siOrigins' \subseteq 1..siMade'.origins
    <3> SUFFICES ASSUME NEW o \in DOMAIN siOrigins' PROVE o \in 1..siMade'.origins
      OBVIOUS
    <3>1. CASE o \in DOMAIN siOrigins
      <4>1. o \in 1..siMade.origins
        BY <3>1, <1>a DEF SignInTypeOK
      <4> QED
        BY <4>1, <1>c
    <3>2. CASE o \notin DOMAIN siOrigins
      <4>1. o = siMade.origins + 1 /\ siMade'.origins = o
        BY <3>2, <1>b DEF OriginSteps
      <4> QED
        BY <4>1, <1>c
    <3> QED
      BY <3>1, <3>2
  <2>2. DOMAIN siSessions' \subseteq 1..siMade'.sessions
    <3> SUFFICES ASSUME NEW s \in DOMAIN siSessions' PROVE s \in 1..siMade'.sessions
      OBVIOUS
    <3>1. CASE s \in DOMAIN siSessions
      <4>1. s \in 1..siMade.sessions
        BY <3>1, <1>a DEF SignInTypeOK
      <4> QED
        BY <4>1, <1>c
    <3>2. CASE s \notin DOMAIN siSessions
      <4>1. s = siMade.sessions + 1 /\ siMade'.sessions = s
        BY <3>2, <1>b DEF SessionSteps
      <4> QED
        BY <4>1, <1>c
    <3> QED
      BY <3>1, <3>2
  <2>3. DOMAIN siProofs' \subseteq 1..siMade'.proofs
    <3> SUFFICES ASSUME NEW i \in DOMAIN siProofs' PROVE i \in 1..siMade'.proofs
      OBVIOUS
    <3>1. CASE i \in DOMAIN siProofs
      <4>1. i \in 1..siMade.proofs
        BY <3>1, <1>a DEF SignInTypeOK
      <4> QED
        BY <4>1, <1>c
    <3>2. CASE i \notin DOMAIN siProofs
      <4>1. i = siMade.proofs + 1 /\ siMade'.proofs = i
        BY <3>2, <1>b DEF ProofSteps
      <4> QED
        BY <4>1, <1>c
    <3> QED
      BY <3>1, <3>2
  <2>4. \A s \in DOMAIN siSessions' : siSessions'[s] \in SessionRows
    BY <1>a, <1>b DEF SignInTypeOK, SessionSteps
  <2>5. siEnded' \subseteq 1..siMade'.origins
    <3>1. \A o \in siEnded' : o \in siEnded \/ o \in DOMAIN siOrigins
      BY <1>b DEF HistorySteps
    <3>2. \A o \in siEnded' : o \in 1..siMade.origins
      BY <3>1, <1>a DEF SignInTypeOK
    <3> QED
      BY <3>2, <1>c
  <2>6. siVoid' \subseteq 1..siMade'.proofs
    <3>1. \A o \in siVoid' : o \in siVoid \/ o \in DOMAIN siProofs
      BY <1>b DEF HistorySteps
    <3>2. \A o \in siVoid' : o \in 1..siMade.proofs
      BY <3>1, <1>a DEF SignInTypeOK
    <3> QED
      BY <3>2, <1>c
  <2>7. /\ siMade' \in [born : Nat, origins : Nat, sessions : Nat, proofs : Nat]
        /\ siClients' \subseteq AppClients
        /\ siReq' \in [Browsers -> SiRequests]
        /\ DOMAIN siUsers' \subseteq Usernames
        /\ \A u \in DOMAIN siUsers' : siUsers'[u] \in UserRows
        /\ \A o \in DOMAIN siOrigins' : siOrigins'[o] \in OriginRows
        /\ \A i \in DOMAIN siProofs' : siProofs'[i] \in Proofs
    BY <1>b DEF HistorySteps, RequestSteps, UserSteps, OriginSteps, ProofSteps
  <2> QED
    BY <2>1, <2>2, <2>3, <2>4, <2>5, <2>6, <2>7 DEF SignInTypeOK
<1>d. /\ \A u \in DOMAIN siUsers : siUsers[u].born \in Nat
      /\ \A o \in DOMAIN siOrigins : siOrigins[o].born \in Nat
      /\ \A i \in DOMAIN siProofs : siProofs[i].born \in Nat
  BY <1>a DEF SignInTypeOK, UserRows, OriginRows, Proofs
<1>e. /\ \A u \in DOMAIN siUsers' : siUsers'[u].born \in Nat
      /\ \A o \in DOMAIN siOrigins' : siOrigins'[o].born \in Nat
      /\ \A i \in DOMAIN siProofs' : siProofs'[i].born \in Nat
  BY <1>1 DEF SignInTypeOK, UserRows, OriginRows, Proofs
<1>f. \A b \in Browsers : siReq[b].at \in {"finish", "complete"} => siReq[b].born \in Nat
  <2> SUFFICES ASSUME NEW b \in Browsers, siReq[b].at \in {"finish", "complete"}
               PROVE  siReq[b].born \in Nat
    OBVIOUS
  <2>1. siReq[b] \in SiRequests
    BY <1>a DEF SignInTypeOK
  <2> QED
    BY <2>1 DEF SiRequests, SiIdle
<1>g. \A b \in Browsers : siReq'[b].at \in {"finish", "complete"} => siReq'[b].born \in Nat
  <2> SUFFICES ASSUME NEW b \in Browsers, siReq'[b].at \in {"finish", "complete"}
               PROVE  siReq'[b].born \in Nat
    OBVIOUS
  <2>1. siReq'[b] \in SiRequests
    BY <1>1 DEF SignInTypeOK
  <2> QED
    BY <2>1 DEF SiRequests, SiIdle
<1>2. BornBefore'
  <2>1. \A u \in DOMAIN siUsers' : siUsers'[u].born <= siMade'.born
    BY <1>a, <1>b, <1>c, <1>d, <1>e DEF BornBefore, UserSteps
  <2>2. \A o \in DOMAIN siOrigins' : siOrigins'[o].born <= siMade'.born
    <3> SUFFICES ASSUME NEW o \in DOMAIN siOrigins' PROVE siOrigins'[o].born <= siMade'.born
      OBVIOUS
    <3>1. CASE o \in DOMAIN siOrigins
      <4>1. siOrigins[o].born <= siMade.born /\ siOrigins'[o].born = siOrigins[o].born
        BY <3>1, <1>a, <1>b DEF BornBefore, OriginSteps
      <4> QED
        BY <4>1, <3>1, <1>c, <1>d, <1>e
    <3>2. CASE o \notin DOMAIN siOrigins
      <4>1. siOrigins'[o].born <= siMade.born
        BY <3>2, <1>b DEF OriginSteps
      <4> QED
        BY <4>1, <1>c, <1>e
    <3> QED
      BY <3>1, <3>2
  <2>3. \A i \in DOMAIN siProofs' : siProofs'[i].born <= siMade'.born
    <3> SUFFICES ASSUME NEW i \in DOMAIN siProofs' PROVE siProofs'[i].born <= siMade'.born
      OBVIOUS
    <3>1. CASE i \in DOMAIN siProofs
      <4>1. siProofs[i].born <= siMade.born /\ siProofs'[i].born = siProofs[i].born
        BY <3>1, <1>a, <1>b DEF BornBefore, ProofSteps
      <4> QED
        BY <4>1, <3>1, <1>c, <1>d, <1>e
    <3>2. CASE i \notin DOMAIN siProofs
      BY <3>2, <1>b, <1>c, <1>e DEF ProofSteps
    <3> QED
      BY <3>1, <3>2
  <2>4. \A b \in Browsers : siReq'[b].at \in {"finish", "complete"} =>
           siReq'[b].born <= siMade'.born
    BY <1>a, <1>b, <1>c, <1>f, <1>g DEF BornBefore, RequestSteps
  <2> QED
    BY <2>1, <2>2, <2>3, <2>4 DEF BornBefore
<1>3. VoidIsSpent'
  <2> SUFFICES ASSUME NEW i \in siVoid', i \in DOMAIN siProofs'
               PROVE  siProofs'[i].kind = "code" /\ siProofs'[i].used
    BY DEF VoidIsSpent
  <2>1. i \in DOMAIN siProofs
    <3>1. i \in siVoid \/ i \in DOMAIN siProofs
      BY <1>b DEF HistorySteps
    <3>2. i \in 1..siMade.proofs
      BY <3>1, <1>a DEF SignInTypeOK
    <3>3. i # siMade.proofs + 1
      BY <3>2, <1>c
    <3> QED
      BY <3>3, <1>b DEF ProofSteps
  <2> QED
    BY <2>1, <1>a, <1>b DEF VoidIsSpent, ProofSteps
<1>4. EndedIsRevoked'
  <2> SUFFICES ASSUME NEW o \in siEnded', o \in DOMAIN siOrigins' PROVE siOrigins'[o].revoked
    BY DEF EndedIsRevoked, OriginRevoked
  <2>1. CASE o \in siEnded
    <3>1. o \in 1..siMade.origins
      BY <2>1, <1>a DEF SignInTypeOK
    <3>2. o # siMade.origins + 1
      BY <3>1, <1>c
    <3>3. o \in DOMAIN siOrigins
      BY <3>2, <1>b DEF OriginSteps
    <3> QED
      BY <3>3, <2>1, <1>a, <1>b DEF EndedIsRevoked, OriginRevoked, OriginSteps
  <2>2. CASE o \notin siEnded
    BY <2>2, <1>b DEF HistorySteps, OriginRevoked
  <2> QED
    BY <2>1, <2>2
<1>6. CodesConfirmed'
  <2>1. ASSUME NEW i \in DOMAIN siProofs', siProofs'[i].kind = "code"
        PROVE  ConfirmedAfter(siProofs'[i].user, siProofs'[i].born)
    <3>1. CASE i \in DOMAIN siProofs
      <4>2. siProofs'[i].user = siProofs[i].user /\ siProofs'[i].born = siProofs[i].born
            /\ siProofs[i].kind = "code"
        BY <3>1, <2>1, <1>b DEF ProofSteps
      <4>3. Confirmed(siProofs[i].user, siProofs[i].born)
        BY <4>2, <3>1, <1>a DEF CodesConfirmed
      <4>4. siProofs[i].born \in Nat /\ siProofs[i].born <= siMade.born
        BY <3>1, <1>a, <1>d DEF BornBefore
      <4> QED
        BY <4>2, <4>3, <4>4, <1>b, <1>c DEF Confirmed, ConfirmedAfter, UserSteps
    <3>2. CASE i \notin DOMAIN siProofs
      BY <3>2, <2>1, <1>b DEF ProofSteps
    <3> QED
      BY <3>1, <3>2
  <2>2. ASSUME NEW b \in Browsers, siReq'[b].at \in {"finish", "complete"}
        PROVE  ConfirmedAfter(siReq'[b].user, siReq'[b].born)
    <3>1. CASE /\ siReq[b].at \in {"finish", "complete"}
               /\ siReq'[b].user = siReq[b].user /\ siReq'[b].born = siReq[b].born
      <4>1. Confirmed(siReq[b].user, siReq[b].born)
            /\ siReq[b].born \in Nat /\ siReq[b].born <= siMade.born
        BY <3>1, <1>a, <1>f DEF CodesConfirmed, BornBefore
      <4> QED
        BY <4>1, <3>1, <1>b, <1>c DEF Confirmed, ConfirmedAfter, UserSteps
    <3> QED
      BY <3>1, <2>2, <1>b DEF RequestSteps
  <2> QED
    BY <2>1, <2>2 DEF CodesConfirmed, Confirmed, ConfirmedAfter
<1>7. ProofsOnce'
  <2>1. siWrong' = {}
    BY <1>a, <1>b DEF ProofsOnce, HistorySteps
  <2>2. ASSUME NEW i \in 1..siMade'.proofs PROVE i \in DOMAIN siProofs' \/ i \in siVoid'
    <3>1. CASE i \in 1..siMade.proofs
      BY <3>1, <1>a, <1>b DEF ProofsOnce, ProofsStay, ProofSteps, HistorySteps
    <3>2. CASE i \notin 1..siMade.proofs
      <4>1. siMade'.proofs = siMade.proofs + 1 /\ siMade'.proofs \in DOMAIN siProofs'
        BY <3>2, <1>b DEF HistorySteps
      <4>2. i = siMade'.proofs
        BY <3>2, <4>1, <1>c
      <4> QED
        BY <4>1, <4>2
    <3> QED
      BY <3>1, <3>2
  <2> QED
    BY <2>1, <2>2 DEF ProofsOnce, ProofsStay
<1>8. BelongToTheirUser'
  BY <1>a, <1>b DEF BelongToTheirUser, UserSteps, OriginSteps, SessionSteps, ProofSteps,
                    HistorySteps
<1>9. SessionsEnd'
  <2> SUFFICES ASSUME NEW s \in DOMAIN siSessions', <<"session", s>> \notin siLoose',
                      siSessions'[s].user \in DOMAIN siUsers'
               PROVE  siSessions'[s].outs = siUsers'[siSessions'[s].user].outs
    BY DEF SessionsEnd
  <2>1. CASE s \in DOMAIN siSessions
    <3>1. siSessions'[s] = siSessions[s] /\ <<"session", s>> \notin siLoose
      BY <2>1, <1>b DEF SessionSteps, HistorySteps
    <3>2. siSessions[s].user \in DOMAIN siUsers
      BY <2>1, <3>1, <1>a DEF BelongToTheirUser
    <3> QED
      BY <2>1, <3>1, <3>2, <1>a, <1>b DEF SessionsEnd, UserSteps
  <2>2. CASE s \notin DOMAIN siSessions
    BY <2>2, <1>b DEF SessionSteps
  <2> QED
    BY <2>1, <2>2
<1>10. UnconfirmedHasNothing'
  <2> SUFFICES ASSUME NEW u \in DOMAIN siUsers', siUsers'[u].status = "UNCONFIRMED",
                      NEW o \in DOMAIN siOrigins', siOrigins'[o].user = u,
                      <<"origin", o>> \notin siLoose'
               PROVE  siOrigins'[o].born # siUsers'[u].born
    BY DEF UnconfirmedHasNothing, OriginsOf
  <2>1. CASE o \in DOMAIN siOrigins
    <3>1. /\ siOrigins'[o].born = siOrigins[o].born /\ siOrigins[o].user = u
          /\ <<"origin", o>> \notin siLoose
      BY <2>1, <1>b DEF OriginSteps, HistorySteps
    <3>2. CASE u \in DOMAIN siUsers
      BY <2>1, <3>1, <3>2, <1>a, <1>b DEF UnconfirmedHasNothing, OriginsOf, UserSteps
    <3>3. CASE u \notin DOMAIN siUsers
      <4>1. siUsers'[u].born = siMade.born + 1 /\ siOrigins[o].born <= siMade.born
        BY <2>1, <3>3, <1>a, <1>b DEF UserSteps, BornBefore
      <4> QED
        BY <4>1, <3>1, <2>1, <1>c, <1>d
    <3> QED
      BY <3>2, <3>3
  <2>2. CASE o \notin DOMAIN siOrigins
    BY <2>2, <1>b DEF OriginSteps
  <2> QED
    BY <2>1, <2>2
<1> QED
  BY <1>1, <1>2, <1>3, <1>4, <1>6, <1>7, <1>8, <1>9, <1>10 DEF SignInInv, RightsOfUser

\* What a step leaves alone has no effect.
LEMMA Frames ==
    ASSUME SignInInv
    PROVE  /\ UNCHANGED siUsers => UserSteps
           /\ UNCHANGED siOrigins => OriginSteps
           /\ UNCHANGED siSessions => SessionSteps
           /\ UNCHANGED <<siProofs, siVoid>> => ProofSteps
           /\ UNCHANGED siReq => RequestSteps
           /\ UNCHANGED <<siMade, siClients, siVoid, siWrong, siEnded, siLoose>> => HistorySteps
<1>a. SignInTypeOK
  BY DEF SignInInv
<1>b. /\ siMade.born \in Nat /\ siMade.origins \in Nat
      /\ siMade.sessions \in Nat /\ siMade.proofs \in Nat
  BY <1>a DEF SignInTypeOK
<1>1. UNCHANGED siUsers => UserSteps
  BY <1>a DEF UserSteps, SignInTypeOK
<1>2. UNCHANGED siOrigins => OriginSteps
  BY <1>a DEF OriginSteps, SignInTypeOK
<1>3. UNCHANGED siSessions => SessionSteps
  BY DEF SessionSteps
<1>4. UNCHANGED <<siProofs, siVoid>> => ProofSteps
  BY <1>a DEF ProofSteps, SignInTypeOK
<1>5. UNCHANGED siReq => RequestSteps
  BY <1>a DEF RequestSteps, SignInTypeOK
<1>6. UNCHANGED <<siMade, siClients, siVoid, siWrong, siEnded, siLoose>> => HistorySteps
  BY <1>a, <1>b DEF HistorySteps, SignInTypeOK
<1> QED
  BY <1>1, <1>2, <1>3, <1>4, <1>5, <1>6

LEMMA UserChanged ==
    ASSUME SignInInv, NEW u \in DOMAIN siUsers, NEW row \in UserRows, SetUser(u, row),
           row.born = siUsers[u].born,
           row.status = "UNCONFIRMED" => siUsers[u].status = "UNCONFIRMED",
           row.outs = siUsers[u].outs \/ \A s \in DOMAIN siSessions' : siSessions'[s].user # u
    PROVE  UserSteps
BY DEF UserSteps, SetUser, SignInInv, SignInTypeOK

LEMMA UserMade ==
    ASSUME SignInInv, NEW u \in Usernames, u \notin DOMAIN siUsers, NEW row \in UserRows,
           siUsers' = With(siUsers, u, row), row.born = siMade.born + 1,
           siMade'.born = siMade.born + 1
    PROVE  UserSteps
BY DEF UserSteps, With, SignInInv, SignInTypeOK

LEMMA OriginIssued ==
    ASSUME SignInInv, NEW a \in AppClients, NEW u \in Usernames, NEW born \in Nat,
           NEW refresh \in BOOLEAN, IssueTokens(a, u, born, refresh), born <= siMade.born,
           siMade'.origins = siMade.origins + 1,
           <<"origin", siMade.origins + 1>> \in siLoose' \/
               /\ u \in DOMAIN siUsers' /\ siUsers'[u].born = born
               /\ siUsers'[u].status # "UNCONFIRMED"
    PROVE  OriginSteps
<1> DEFINE n == siMade.origins + 1
<1>1. SignInTypeOK
  BY DEF SignInInv
<1>2. n \notin DOMAIN siOrigins
  <2>1. siMade.origins \in Nat
    BY <1>1 DEF SignInTypeOK
  <2> QED
    BY <1>1, <2>1 DEF SignInTypeOK
<1>3. /\ DOMAIN siOrigins' = DOMAIN siOrigins \cup {n}
      /\ \A o \in DOMAIN siOrigins : siOrigins'[o] = siOrigins[o]
      /\ siOrigins'[n] = [user |-> u, born |-> born, client |-> a, revoked |-> FALSE,
                          refresh |-> IF refresh THEN "valid" ELSE "none"]
  BY <1>2 DEF IssueTokens, With
<1>4. siOrigins'[n] \in OriginRows /\ siOrigins'[n].user = u /\ siOrigins'[n].born = born
  BY <1>3 DEF OriginRows
<1>5. \A o \in DOMAIN siOrigins : siOrigins[o] \in OriginRows
  BY <1>1 DEF SignInTypeOK
<1> HIDE DEF n
<1> QED
  BY <1>3, <1>4, <1>5 DEF OriginSteps, n

LEMMA ProofMade ==
    ASSUME SignInInv, NEW row \in Proofs,
           siMade.proofs + 1 \in DOMAIN siProofs', siProofs'[siMade.proofs + 1] = row,
           \A i \in DOMAIN siProofs' \ {siMade.proofs + 1} :
               i \in DOMAIN siProofs /\ siProofs'[i] = siProofs[i] /\ i \notin siVoid' \ siVoid,
           \A i \in DOMAIN siProofs \ DOMAIN siProofs' : i \in siVoid',
           siMade'.proofs = siMade.proofs + 1, row.born <= siMade'.born,
           \/ <<"proof", siMade.proofs + 1>> \in siLoose'
           \/ row.user \in DOMAIN siUsers' /\ row.born = siUsers'[row.user].born,
           row.kind = "code" => ConfirmedAfter(row.user, row.born)
    PROVE  ProofSteps
<1> DEFINE n == siMade.proofs + 1
<1>1. SignInTypeOK
  BY DEF SignInInv
<1>2. n \notin DOMAIN siProofs
  <2>1. siMade.proofs \in Nat
    BY <1>1 DEF SignInTypeOK
  <2> QED
    BY <1>1, <2>1 DEF SignInTypeOK
<1>3. \A i \in DOMAIN siProofs : siProofs[i] \in Proofs
  BY <1>1 DEF SignInTypeOK
<1> HIDE DEF n
<1> QED
  BY <1>2, <1>3 DEF ProofSteps, n

\* The rows and counters as the proofs below use them.
LEMMA Rows ==
    ASSUME SignInInv
    PROVE  /\ siMade \in [born : Nat, origins : Nat, sessions : Nat, proofs : Nat]
           /\ siMade.born \in Nat /\ siMade.origins \in Nat
           /\ siMade.sessions \in Nat /\ siMade.proofs \in Nat
           /\ siClients \subseteq AppClients
           /\ \A u \in DOMAIN siUsers :
                 u \in Usernames /\ siUsers[u] \in UserRows /\ siUsers[u].born <= siMade.born
                 /\ siUsers[u].born \in Nat /\ siUsers[u].outs \in Nat
           /\ \A i \in DOMAIN siProofs :
                 siProofs[i] \in Proofs /\ siProofs[i].born <= siMade.born
           /\ \A b \in Browsers : siReq[b] \in SiRequests
<1>1. SignInTypeOK /\ BornBefore
  BY DEF SignInInv
<1> QED
  BY <1>1 DEF SignInTypeOK, BornBefore, UserRows

\* The counters that a step increments.
LEMMA Counted ==
    ASSUME SignInInv, NEW what \in {"born", "origins", "sessions", "proofs"}, OneMore(what)
    PROVE  /\ siMade' \in [born : Nat, origins : Nat, sessions : Nat, proofs : Nat]
           /\ siMade'[what] = siMade[what] + 1
           /\ \A x \in {"born", "origins", "sessions", "proofs"} \ {what} :
                 siMade'[x] = siMade[x]
           /\ siMade'.born >= siMade.born /\ siMade'.origins >= siMade.origins
           /\ siMade'.sessions >= siMade.sessions /\ siMade'.proofs >= siMade.proofs
BY Rows DEF OneMore

\* A mailed code replaces the one before, which is gone and void.
LEMMA CodeSet ==
    ASSUME SignInInv, NEW u \in Usernames, NEW born \in Nat, NEW kind \in {"signup", "reset"},
           SetCode(u, born, kind), born <= siMade'.born, siMade'.proofs = siMade.proofs + 1,
           u \in DOMAIN siUsers' /\ siUsers'[u].born = born
    PROVE  /\ ProofSteps
           /\ siVoid \subseteq siVoid' /\ siVoid' \ siVoid \subseteq DOMAIN siProofs
           /\ siMade'.proofs \in DOMAIN siProofs'
<1> DEFINE row == [kind |-> kind, user |-> u, born |-> born, client |-> None, used |-> FALSE]
<1>1. /\ siProofs' = With(Drop(siProofs, Replaced(u, kind)), siMade.proofs + 1, row)
      /\ siVoid' = siVoid \cup {j \in ProofsOf(u) : siProofs[j].kind = kind}
  BY DEF SetCode
<1>2. siVoid' \ siVoid \subseteq Replaced(u, kind) /\ Replaced(u, kind) \subseteq DOMAIN siProofs
  BY <1>1 DEF Replaced, ProofsOf
<1>3. row \in Proofs /\ row.user = u /\ row.born = born /\ row.kind # "code"
  BY DEF Proofs
<1> HIDE DEF row
<1>5. /\ siMade.proofs + 1 \in DOMAIN siProofs' /\ siProofs'[siMade.proofs + 1] = row
      /\ \A i \in DOMAIN siProofs' \ {siMade.proofs + 1} :
            i \in DOMAIN siProofs /\ siProofs'[i] = siProofs[i] /\ i \notin siVoid' \ siVoid
  BY <1>1, <1>2 DEF With, Drop, Restrict
<1>6. \A i \in DOMAIN siProofs \ DOMAIN siProofs' : i \in siVoid'
  BY <1>1 DEF With, Drop, Restrict, Replaced
<1>4. ProofSteps
  BY <1>3, <1>5, <1>6, ProofMade
<1> QED
  BY <1>1, <1>2, <1>4, <1>5

LEMMA UserAdminEffect == SignInInv /\ UserAdmin => SignInEffect
<1> SUFFICES ASSUME SignInInv, UserAdmin PROVE SignInEffect
  OBVIOUS
<1>1. ASSUME NEW u \in Usernames, AdminCreateUser(u) PROVE SignInEffect
  <2> DEFINE row == [status |-> "FORCE_CHANGE_PASSWORD", enabled |-> TRUE,
                     born |-> siMade.born + 1, outs |-> 0]
  <2>1. /\ siUsers' = With(siUsers, u, row) /\ u \notin DOMAIN siUsers
        /\ OneMore("born")
        /\ UNCHANGED <<siClients, siOrigins, siSessions, siProofs, siReq, siEnded, siVoid,
                       siWrong, siLoose>>
    BY <1>1 DEF AdminCreateUser, NewUser
  <2>2. row \in UserRows /\ row.born = siMade.born + 1
    BY Rows DEF UserRows, Statuses
  <2>3. UserSteps
    <3> HIDE DEF row
    <3> QED
      BY <2>1, <2>2, UserMade, Counted
  <2>4. HistorySteps
    BY <2>1, Counted, Rows DEF HistorySteps
  <2> QED
    BY <2>1, <2>3, <2>4, Frames DEF SignInEffect
<1>2. ASSUME NEW u \in Usernames, AdminConfirmSignUp(u) PROVE SignInEffect
  <2> DEFINE row == [siUsers[u] EXCEPT !.status = "CONFIRMED"]
  <2>1. /\ u \in DOMAIN siUsers /\ SetUser(u, row)
        /\ UNCHANGED <<siClients, siOrigins, siSessions, siProofs, siReq, siMade, siEnded,
                       siVoid, siWrong, siLoose>>
    BY <1>2 DEF AdminConfirmSignUp, Exists
  <2>2. row \in UserRows /\ row.born = siUsers[u].born /\ row.outs = siUsers[u].outs
        /\ row.status # "UNCONFIRMED"
    BY <2>1, Rows DEF UserRows, Statuses
  <2>3. UserSteps
    <3> HIDE DEF row
    <3> QED
      BY <2>1, <2>2, UserChanged
  <2> QED
    BY <2>1, <2>3, Frames DEF SignInEffect
<1>3. ASSUME NEW u \in Usernames, NEW permanent \in BOOLEAN, SetPassword(u, permanent)
      PROVE  SignInEffect
  <2> DEFINE row == [siUsers[u] EXCEPT
                       !.status = IF permanent THEN "CONFIRMED" ELSE "FORCE_CHANGE_PASSWORD"]
  <2>1. /\ u \in DOMAIN siUsers /\ SetUser(u, row)
        /\ UNCHANGED <<siClients, siOrigins, siSessions, siProofs, siReq, siMade, siEnded,
                       siVoid, siWrong, siLoose>>
    BY <1>3 DEF SetPassword, Exists
  <2>2. row \in UserRows /\ row.born = siUsers[u].born /\ row.outs = siUsers[u].outs
        /\ row.status # "UNCONFIRMED"
    BY <2>1, Rows DEF UserRows, Statuses
  <2>3. UserSteps
    <3> HIDE DEF row
    <3> QED
      BY <2>1, <2>2, UserChanged
  <2> QED
    BY <2>1, <2>3, Frames DEF SignInEffect
<1>4. ASSUME NEW u \in Usernames, AdminResetPassword(u) PROVE SignInEffect
  <2> DEFINE row == [siUsers[u] EXCEPT
                       !.status = IF @ = "UNCONFIRMED" THEN @ ELSE "RESET_REQUIRED"]
  <2>1. /\ u \in DOMAIN siUsers /\ SetUser(u, row)
        /\ SetCode(u, siUsers[u].born, "reset") /\ OneMore("proofs")
        /\ UNCHANGED <<siClients, siOrigins, siSessions, siReq, siEnded, siWrong, siLoose>>
    BY <1>4 DEF AdminResetPassword, Exists
  <2>2. row \in UserRows /\ row.born = siUsers[u].born /\ row.outs = siUsers[u].outs
        /\ (row.status = "UNCONFIRMED" => siUsers[u].status = "UNCONFIRMED")
    BY <2>1, Rows DEF UserRows, Statuses
  <2>3. UserSteps
    <3> HIDE DEF row
    <3> QED
      BY <2>1, <2>2, UserChanged
  <2>4. u \in DOMAIN siUsers' /\ siUsers'[u].born = siUsers[u].born
    BY <2>1, <2>2 DEF SetUser
  <2>5. siMade'.born = siMade.born /\ siMade'.proofs = siMade.proofs + 1
    BY <2>1, Counted
  <2>6. /\ ProofSteps /\ siMade'.proofs \in DOMAIN siProofs'
        /\ siVoid \subseteq siVoid' /\ siVoid' \ siVoid \subseteq DOMAIN siProofs
    BY <2>1, <2>4, <2>5, CodeSet, Rows
  <2>7. HistorySteps
    BY <2>1, <2>5, <2>6, Counted, Rows DEF HistorySteps
  <2> QED
    BY <2>1, <2>3, <2>6, <2>7, Frames DEF SignInEffect
<1> QED
  BY <1>1, <1>2, <1>3, <1>4 DEF UserAdmin

\* Rows that go, or stay as they are.
LEMMA RowsGo ==
    ASSUME SignInInv
    PROVE  /\ (\A o \in DOMAIN siOrigins' : o \in DOMAIN siOrigins /\ siOrigins'[o] = siOrigins[o])
                 => OriginSteps
           /\ (\A s \in DOMAIN siSessions' :
                 s \in DOMAIN siSessions /\ siSessions'[s] = siSessions[s]) => SessionSteps
           /\ (/\ \A i \in DOMAIN siProofs' : i \in DOMAIN siProofs /\ siProofs'[i] = siProofs[i]
                     /\ i \notin siVoid' \ siVoid
               /\ \A i \in DOMAIN siProofs \ DOMAIN siProofs' : i \in siVoid') => ProofSteps
<1>1. SignInTypeOK
  BY DEF SignInInv
<1>2. (\A o \in DOMAIN siOrigins' : o \in DOMAIN siOrigins /\ siOrigins'[o] = siOrigins[o])
         => OriginSteps
  BY <1>1 DEF SignInTypeOK, OriginSteps
<1>3. (\A s \in DOMAIN siSessions' :
         s \in DOMAIN siSessions /\ siSessions'[s] = siSessions[s]) => SessionSteps
  BY DEF SessionSteps
<1>4. (/\ \A i \in DOMAIN siProofs' : i \in DOMAIN siProofs /\ siProofs'[i] = siProofs[i]
             /\ i \notin siVoid' \ siVoid
       /\ \A i \in DOMAIN siProofs \ DOMAIN siProofs' : i \in siVoid') => ProofSteps
  BY <1>1 DEF SignInTypeOK, ProofSteps
<1> QED
  BY <1>2, <1>3, <1>4

LEMMA UserRemovalEffect == SignInInv /\ UserRemoval => SignInEffect
<1> SUFFICES ASSUME SignInInv, UserRemoval PROVE SignInEffect
  OBVIOUS
<1>1. ASSUME NEW u \in Usernames, AdminDeleteUser(u) PROVE SignInEffect
  <2>1. /\ u \in DOMAIN siUsers
        /\ siUsers' = Drop(siUsers, {u})
        /\ siOrigins' = Drop(siOrigins, OriginsOf(u))
        /\ siSessions' = Drop(siSessions, SessionsOf(u))
        /\ siProofs' = Drop(siProofs, ProofsOf(u))
        /\ siEnded' = siEnded \cup OriginsOf(u)
        /\ siVoid' = siVoid \cup ProofsOf(u)
        /\ UNCHANGED <<siPool, siClients, siReq, siMade, siWrong, siLoose>>
    BY <1>1 DEF AdminDeleteUser, Exists, ProofsDeleted
  <2>2. /\ DOMAIN siUsers' = DOMAIN siUsers \ {u}
        /\ \A x \in DOMAIN siUsers' : siUsers'[x] = siUsers[x]
    BY <2>1 DEF Drop, Restrict
  <2>3. \A o \in DOMAIN siOrigins' :
           o \in DOMAIN siOrigins /\ siOrigins'[o] = siOrigins[o] /\ siOrigins[o].user # u
    BY <2>1 DEF Drop, Restrict, OriginsOf
  <2>4. \A s \in DOMAIN siSessions' :
           s \in DOMAIN siSessions /\ siSessions'[s] = siSessions[s] /\ siSessions[s].user # u
    BY <2>1 DEF Drop, Restrict, SessionsOf
  <2>5. \A i \in DOMAIN siProofs' :
           /\ i \in DOMAIN siProofs /\ siProofs'[i] = siProofs[i] /\ siProofs[i].user # u
           /\ i \notin siVoid' \ siVoid
    BY <2>1 DEF Drop, Restrict, ProofsOf
  <2>10. \A i \in DOMAIN siProofs \ DOMAIN siProofs' : i \in siVoid'
    BY <2>1 DEF Drop, Restrict, ProofsOf
  <2>6. UserSteps
    BY <2>2, <2>3, <2>4, <2>5, Rows DEF UserSteps
  <2>7. OriginSteps /\ SessionSteps /\ ProofSteps
    BY <2>3, <2>4, <2>5, <2>10, RowsGo
  <2>8. \A o \in OriginsOf(u) : o \notin DOMAIN siOrigins'
    BY <2>3 DEF OriginsOf
  <2>9. HistorySteps
    BY <2>1, <2>8, Rows DEF HistorySteps, OriginRevoked, OriginsOf, ProofsOf
  <2> QED
    BY <2>1, <2>6, <2>7, <2>9, Frames DEF SignInEffect
<1>2. ASSUME NEW u \in Usernames, GlobalSignOut(u) PROVE SignInEffect
  <2> DEFINE row == [siUsers[u] EXCEPT !.outs = @ + 1]
  <2>1. /\ u \in DOMAIN siUsers
        /\ siOrigins' = [o \in DOMAIN siOrigins |->
              IF siOrigins[o].user = u THEN SignedOut(siOrigins[o]) ELSE siOrigins[o]]
        /\ siSessions' = Drop(siSessions, SessionsOf(u))
        /\ SetUser(u, row)
        /\ siEnded' = siEnded \cup OriginsOf(u)
        /\ UNCHANGED <<siPool, siClients, siProofs, siReq, siMade, siVoid, siWrong, siLoose>>
    BY <1>2 DEF GlobalSignOut, Exists
  <2>2. \A s \in DOMAIN siSessions' :
           s \in DOMAIN siSessions /\ siSessions'[s] = siSessions[s] /\ siSessions[s].user # u
    BY <2>1 DEF Drop, Restrict, SessionsOf
  <2>3. row \in UserRows /\ row.born = siUsers[u].born /\ row.status = siUsers[u].status
    BY <2>1, Rows DEF UserRows, Statuses
  <2>4. UserSteps
    <3> HIDE DEF row
    <3> QED
      BY <2>1, <2>2, <2>3, UserChanged
  <2>5. \A o \in DOMAIN siOrigins :
           siOrigins[o] \in OriginRows => SignedOut(siOrigins[o]) \in OriginRows
             /\ SignedOut(siOrigins[o]).user = siOrigins[o].user
             /\ SignedOut(siOrigins[o]).born = siOrigins[o].born
             /\ SignedOut(siOrigins[o]).revoked
    BY DEF SignedOut, OriginRows
  <2>6. \A o \in DOMAIN siOrigins : siOrigins[o] \in OriginRows
    BY DEF SignInInv, SignInTypeOK
  <2>7. OriginSteps
    BY <2>1, <2>5, <2>6 DEF OriginSteps
  <2>8. \A o \in OriginsOf(u) : siOrigins'[o].revoked
    BY <2>1, <2>5, <2>6 DEF OriginsOf
  <2>9. HistorySteps
    BY <2>1, <2>8, Rows DEF HistorySteps, OriginRevoked, OriginsOf
  <2> QED
    BY <2>1, <2>2, <2>4, <2>7, <2>9, RowsGo, Frames DEF SignInEffect
<1>3. ASSUME NEW u \in Usernames, NEW enabled \in BOOLEAN, SetUserEnabled(u, enabled)
      PROVE  SignInEffect
  <2> DEFINE row == [siUsers[u] EXCEPT !.enabled = enabled,
                                       !.outs = IF enabled THEN @ ELSE @ + 1]
  <2>1. /\ u \in DOMAIN siUsers
        /\ SetUser(u, row)
        /\ siSessions' = IF enabled THEN siSessions ELSE Drop(siSessions, SessionsOf(u))
        /\ UNCHANGED <<siPool, siClients, siOrigins, siProofs, siReq, siMade, siEnded, siVoid,
                       siWrong, siLoose>>
    BY <1>3 DEF SetUserEnabled, Exists, SessionsDeleted
  <2>2. \A s \in DOMAIN siSessions' :
           s \in DOMAIN siSessions /\ siSessions'[s] = siSessions[s]
             /\ (~enabled => siSessions[s].user # u)
    BY <2>1 DEF Drop, Restrict, SessionsOf
  <2>3. /\ row \in UserRows /\ row.born = siUsers[u].born /\ row.status = siUsers[u].status
        /\ enabled => row.outs = siUsers[u].outs
    <3>1. siUsers[u] \in UserRows
      BY <2>1, Rows
    <3>2. siUsers[u].outs \in Nat
      BY <3>1 DEF UserRows
    <3>3. (IF enabled THEN siUsers[u].outs ELSE siUsers[u].outs + 1) \in Nat
      BY <3>2
    <3> QED
      BY <3>1, <3>3 DEF UserRows
  <2>4. UserSteps
    <3> HIDE DEF row
    <3> QED
      BY <2>1, <2>2, <2>3, UserChanged
  <2> QED
    BY <2>1, <2>2, <2>4, RowsGo, Frames DEF SignInEffect
<1> QED
  BY <1>1, <1>2, <1>3 DEF UserRemoval

LEMMA ExpireEffect == SignInInv /\ Expire => SignInEffect
<1> SUFFICES ASSUME SignInInv, Expire PROVE SignInEffect
  OBVIOUS
<1>1. UNCHANGED <<siPool, siClients, siUsers, siReq, siMade, siEnded, siWrong, siLoose>>
  BY DEF Expire
<1> DEFINE Voided == siVoid \subseteq siVoid' /\ siVoid' \ siVoid \subseteq DOMAIN siProofs
<1>2. OriginSteps /\ SessionSteps /\ ProofSteps /\ Voided
  <2>1. ASSUME NEW s \in DOMAIN siSessions, siSessions' = Drop(siSessions, {s}),
               UNCHANGED <<siProofs, siOrigins, siVoid>>
        PROVE  OriginSteps /\ SessionSteps /\ ProofSteps /\ Voided
    <3>1. \A x \in DOMAIN siSessions' : x \in DOMAIN siSessions /\ siSessions'[x] = siSessions[x]
      BY <2>1 DEF Drop, Restrict
    <3> QED
      BY <1>1, <2>1, <3>1, RowsGo, Frames
  <2>2. ASSUME NEW i \in DOMAIN siProofs, siProofs' = Drop(siProofs, {i}),
               siVoid' = siVoid \cup {i}, UNCHANGED <<siSessions, siOrigins>>
        PROVE  OriginSteps /\ SessionSteps /\ ProofSteps /\ Voided
    <3>1. \A x \in DOMAIN siProofs' : x \in DOMAIN siProofs /\ siProofs'[x] = siProofs[x]
             /\ x \notin siVoid' \ siVoid
      BY <2>2, <1>1 DEF Drop, Restrict
    <3>2. \A x \in DOMAIN siProofs \ DOMAIN siProofs' : x \in siVoid'
      BY <2>2 DEF Drop, Restrict
    <3> QED
      BY <1>1, <2>2, <3>1, <3>2, RowsGo, Frames
  <2>3. ASSUME NEW o \in DOMAIN siOrigins,
               siOrigins' = [siOrigins EXCEPT ![o].refresh = "none"],
               UNCHANGED <<siSessions, siProofs, siVoid>>
        PROVE  OriginSteps /\ SessionSteps /\ ProofSteps /\ Voided
    <3>1. \A x \in DOMAIN siOrigins : siOrigins[x] \in OriginRows
      BY DEF SignInInv, SignInTypeOK
    <3>2. OriginSteps
      BY <2>3, <3>1 DEF OriginSteps, OriginRows
    <3> QED
      BY <1>1, <2>3, <3>2, Frames
  <2> QED
    BY <2>1, <2>2, <2>3 DEF Expire
<1>3. HistorySteps
  BY <1>1, <1>2, Rows DEF HistorySteps
<1> QED
  BY <1>1, <1>2, <1>3, Frames DEF SignInEffect

LEMMA PoolEffect == SignInInv /\ PoolRequest => SignInEffect
<1> SUFFICES ASSUME SignInInv, PoolRequest PROVE SignInEffect
  OBVIOUS
<1>1. CASE DeletePool
  <2>1. /\ siClients' = {} /\ siUsers' = <<>> /\ siOrigins' = <<>> /\ siSessions' = <<>>
        /\ siProofs' = <<>>
        /\ siEnded' = siEnded \cup DOMAIN siOrigins
        /\ siVoid' = siVoid \cup DOMAIN siProofs
        /\ UNCHANGED <<siReq, siMade, siWrong, siLoose>>
    BY <1>1 DEF DeletePool
  <2>2. DOMAIN <<>> = {}
    OBVIOUS
  <2>3. UserSteps /\ OriginSteps /\ SessionSteps /\ ProofSteps
    BY <2>1, <2>2 DEF UserSteps, OriginSteps, SessionSteps, ProofSteps
  <2>4. HistorySteps
    BY <2>1, <2>2, Rows DEF HistorySteps, OriginRevoked
  <2> QED
    BY <2>1, <2>3, <2>4, Frames DEF SignInEffect
<1>2. ASSUME NEW a \in AppClients, DeleteClient(a) PROVE SignInEffect
  <2>1. /\ siClients' = siClients \ {a}
        /\ siOrigins' = [o \in DOMAIN siOrigins |->
              IF siOrigins[o].client = a
              THEN [siOrigins[o] EXCEPT !.refresh = IF @ = "none" THEN @ ELSE "revoked"]
              ELSE siOrigins[o]]
        /\ UNCHANGED <<siPool, siUsers, siSessions, siProofs, siReq, siMade, siEnded, siVoid,
                       siWrong, siLoose>>
    BY <1>2 DEF DeleteClient
  <2>2. \A o \in DOMAIN siOrigins : siOrigins[o] \in OriginRows
    BY DEF SignInInv, SignInTypeOK
  <2>3. OriginSteps
    BY <2>1, <2>2 DEF OriginSteps, OriginRows
  <2>4. HistorySteps
    BY <2>1, Rows DEF HistorySteps
  <2> QED
    BY <2>1, <2>3, <2>4, Frames DEF SignInEffect
<1>3. ASSUME NEW u \in Usernames, SeedPool(u) PROVE SignInEffect
  <2>1. /\ siClients' = AppClients
        /\ UNCHANGED <<siOrigins, siSessions, siProofs, siReq, siEnded, siVoid, siWrong, siLoose>>
    BY <1>3 DEF SeedPool
  <2>2. CASE u \in DOMAIN siUsers
    <3>1. UNCHANGED <<siUsers, siMade>>
      BY <1>3, <2>2 DEF SeedPool
    <3>2. HistorySteps
      BY <2>1, <3>1, Rows DEF HistorySteps
    <3> QED
      BY <2>1, <3>1, <3>2, Frames DEF SignInEffect
  <2>3. CASE u \notin DOMAIN siUsers
    <3> DEFINE row == [status |-> "CONFIRMED", enabled |-> TRUE, born |-> siMade.born + 1,
                       outs |-> 0]
    <3>1. siUsers' = With(siUsers, u, row) /\ OneMore("born")
      BY <1>3, <2>3 DEF SeedPool
    <3>2. row \in UserRows /\ row.born = siMade.born + 1
      BY Rows DEF UserRows, Statuses
    <3>3. UserSteps
      <4> HIDE DEF row
      <4> QED
        BY <2>3, <3>1, <3>2, UserMade, Counted
    <3>4. HistorySteps
      BY <2>1, <3>1, Counted, Rows DEF HistorySteps
    <3> QED
      BY <2>1, <3>3, <3>4, Frames DEF SignInEffect
  <2> QED
    BY <2>2, <2>3
<1> QED
  BY <1>1, <1>2, <1>3 DEF PoolRequest

\* A mailed code or a challenge that is honoured is gone; it was not void.
ProofHonoured(i) ==
    /\ i \in DOMAIN siProofs /\ siProofs' = Drop(siProofs, {i}) /\ Honour(i)

LEMMA HonourEffect ==
    ASSUME SignInInv, NEW i, i \notin siVoid, ProofHonoured(i)
    PROVE  /\ ProofSteps /\ siWrong' = siWrong
           /\ siVoid \subseteq siVoid' /\ siVoid' \ siVoid \subseteq DOMAIN siProofs
<1>1. /\ siVoid' = siVoid \cup {i} /\ siWrong' = siWrong
      /\ \A x \in DOMAIN siProofs' : x \in DOMAIN siProofs /\ siProofs'[x] = siProofs[x] /\ x # i
  BY DEF ProofHonoured, Honour, Drop, Restrict
<1>2. \A x \in DOMAIN siProofs \ DOMAIN siProofs' : x \in siVoid'
  BY <1>1 DEF ProofHonoured, Drop, Restrict
<1> QED
  BY <1>1, <1>2, RowsGo DEF ProofHonoured

\* What it proves confirms the user.
UserConfirmed(u) ==
    /\ u \in DOMAIN siUsers
    /\ SetUser(u, [siUsers[u] EXCEPT !.status = "CONFIRMED"])

LEMMA ConfirmEffect ==
    ASSUME SignInInv, NEW u, UserConfirmed(u)
    PROVE  /\ UserSteps /\ u \in DOMAIN siUsers' /\ siUsers'[u].born = siUsers[u].born
           /\ siUsers'[u].outs = siUsers[u].outs
           /\ siUsers'[u].status # "UNCONFIRMED"
<1> DEFINE row == [siUsers[u] EXCEPT !.status = "CONFIRMED"]
<1>1. u \in DOMAIN siUsers /\ SetUser(u, row)
  BY DEF UserConfirmed
<1>2. row \in UserRows /\ row.born = siUsers[u].born /\ row.outs = siUsers[u].outs
      /\ row.status # "UNCONFIRMED"
  BY <1>1, Rows DEF UserRows, Statuses
<1> HIDE DEF row
<1>3. UserSteps
  BY <1>1, <1>2, UserChanged
<1>4. u \in DOMAIN siUsers' /\ siUsers'[u] = row
  BY <1>1 DEF SetUser
<1> QED
  BY <1>2, <1>3, <1>4

\* A challenge is of the user who is there.
LEMMA ChallengeEffect ==
    ASSUME SignInInv, NEW a \in AppClients, NEW u \in DOMAIN siUsers, CreateChallenge(a, u),
           UNCHANGED <<siClients, siUsers, siEnded, siVoid, siWrong, siLoose>>
    PROVE  ProofSteps /\ HistorySteps
<1> DEFINE row == [kind |-> "challenge", user |-> u, born |-> siUsers[u].born, client |-> a,
                   used |-> FALSE]
<1>1. siProofs' = With(siProofs, siMade.proofs + 1, row) /\ OneMore("proofs")
  BY DEF CreateChallenge
<1>2. row \in Proofs /\ row.user = u /\ row.born = siUsers[u].born /\ row.kind # "code"
  BY Rows DEF Proofs
<1> HIDE DEF row
<1>3. siMade'.proofs = siMade.proofs + 1 /\ siMade'.born = siMade.born
  BY <1>1, Counted
<1>7. /\ siMade.proofs + 1 \in DOMAIN siProofs' /\ siProofs'[siMade.proofs + 1] = row
      /\ \A i \in DOMAIN siProofs' \ {siMade.proofs + 1} :
            i \in DOMAIN siProofs /\ siProofs'[i] = siProofs[i] /\ i \notin siVoid' \ siVoid
  BY <1>1 DEF With
<1>8. \A i \in DOMAIN siProofs \ DOMAIN siProofs' : i \in siVoid'
  BY <1>1 DEF With
<1>4. row.born <= siMade'.born
      /\ row.user \in DOMAIN siUsers' /\ row.born = siUsers'[row.user].born
  BY <1>2, <1>3, Rows
<1>6. ProofSteps
  BY <1>2, <1>3, <1>4, <1>7, <1>8, ProofMade
<1>5. HistorySteps
  BY <1>1, <1>3, <1>7, Counted, Rows DEF HistorySteps
<1> QED
  BY <1>5, <1>6

LEMMA ApiEffect == SignInInv /\ ApiRequest => SignInEffect
<1> SUFFICES ASSUME SignInInv, ApiRequest PROVE SignInEffect
  OBVIOUS
<1>1. ASSUME NEW u \in Usernames, SignUp(u) PROVE SignInEffect
  <2> DEFINE row == [status |-> "UNCONFIRMED", enabled |-> TRUE,
                     born |-> siMade.born + 1, outs |-> 0]
             made == [siMade EXCEPT !.born = @ + 1, !.proofs = @ + 1]
  <2>1. /\ siUsers' = With(siUsers, u, row) /\ u \notin DOMAIN siUsers
        /\ SetCode(u, siMade.born + 1, "signup")
        /\ siMade' = made
        /\ UNCHANGED <<siClients, siOrigins, siSessions, siReq, siEnded, siWrong, siLoose>>
    BY <1>1 DEF SignUp, NewUser
  <2>2. row \in UserRows /\ row.born = siMade.born + 1
    BY Rows DEF UserRows, Statuses
  <2>3. /\ siMade' \in [born : Nat, origins : Nat, sessions : Nat, proofs : Nat]
        /\ siMade'.born = siMade.born + 1 /\ siMade'.proofs = siMade.proofs + 1
        /\ siMade'.origins = siMade.origins /\ siMade'.sessions = siMade.sessions
    <3>1. /\ siMade \in [born : Nat, origins : Nat, sessions : Nat, proofs : Nat]
          /\ siMade' = made
          /\ siMade.born + 1 \in Nat /\ siMade.proofs + 1 \in Nat
      BY <2>1, Rows
    <3> QED
      BY <3>1
  <2>4. UserSteps
    <3> HIDE DEF row, made
    <3> QED
      BY <2>1, <2>2, <2>3, UserMade
  <2>5. u \in DOMAIN siUsers' /\ siUsers'[u].born = siMade.born + 1
    <3> HIDE DEF row, made
    <3> QED
      BY <2>1, <2>2 DEF With
  <2>6. siMade.born + 1 \in Nat /\ siMade.born + 1 <= siMade'.born
    BY <2>3, Rows
  <2>7. /\ ProofSteps /\ siMade'.proofs \in DOMAIN siProofs'
        /\ siVoid \subseteq siVoid' /\ siVoid' \ siVoid \subseteq DOMAIN siProofs
    <3> HIDE DEF row, made
    <3> QED
      BY <2>1, <2>3, <2>5, <2>6, CodeSet
  <2>8. HistorySteps
    BY <2>1, <2>3, <2>7, Rows DEF HistorySteps
  <2> QED
    BY <2>1, <2>4, <2>7, <2>8, Frames DEF SignInEffect
<1>2. ASSUME NEW u \in Usernames, NEW kind \in {"signup", "reset"}, SendCode(u, kind)
      PROVE  SignInEffect
  <2>1. /\ u \in DOMAIN siUsers /\ SetCode(u, siUsers[u].born, kind) /\ OneMore("proofs")
        /\ UNCHANGED <<siClients, siUsers, siOrigins, siSessions, siReq, siEnded, siWrong, siLoose>>
    BY <1>2 DEF SendCode, Exists
  <2>2. siMade'.born = siMade.born /\ siMade'.proofs = siMade.proofs + 1
    BY <2>1, Counted
  <2>3. /\ ProofSteps /\ siMade'.proofs \in DOMAIN siProofs'
        /\ siVoid \subseteq siVoid' /\ siVoid' \ siVoid \subseteq DOMAIN siProofs
    BY <2>1, <2>2, CodeSet, Rows
  <2>4. HistorySteps
    BY <2>1, <2>2, <2>3, Counted, Rows DEF HistorySteps
  <2> QED
    BY <2>1, <2>3, <2>4, Frames DEF SignInEffect
<1>3. ASSUME NEW i, ConfirmWithCode(i) PROVE SignInEffect
  <2> DEFINE u == siProofs[i].user
             row == [siUsers[u] EXCEPT !.status = "CONFIRMED"]
  <2>1. /\ i \in DOMAIN siProofs /\ siProofs[i].kind \in {"signup", "reset"}
        /\ u \in DOMAIN siUsers /\ SetUser(u, row)
        /\ siProofs' = Drop(siProofs, {i})
        /\ Honour(i)
        /\ UNCHANGED <<siClients, siOrigins, siSessions, siReq, siMade, siEnded, siLoose>>
    BY <1>3 DEF ConfirmWithCode, Exists
  <2>2. i \notin siVoid
    BY <2>1 DEF SignInInv, VoidIsSpent
  <2> HIDE DEF u
  <2>3. ProofHonoured(i) /\ UserConfirmed(u)
    BY <2>1 DEF ProofHonoured, UserConfirmed
  <2>4. /\ UserSteps /\ ProofSteps /\ siWrong' = siWrong
        /\ siVoid \subseteq siVoid' /\ siVoid' \ siVoid \subseteq DOMAIN siProofs
    BY <2>2, <2>3, HonourEffect, ConfirmEffect
  <2>5. HistorySteps
    BY <2>1, <2>4, Rows DEF HistorySteps
  <2> QED
    BY <2>1, <2>4, <2>5, Frames DEF SignInEffect
<1>4. ASSUME NEW a \in AppClients, NEW u \in Usernames, InitiateAuth(a, u) PROVE SignInEffect
  <2>1. /\ u \in DOMAIN siUsers /\ siUsers[u].status # "UNCONFIRMED"
        /\ UNCHANGED <<siClients, siUsers, siSessions, siReq, siEnded, siVoid, siWrong, siLoose>>
    BY <1>4 DEF InitiateAuth, Authenticated, Exists
  <2>2. CASE CreateChallenge(a, u) /\ UNCHANGED siOrigins
    BY <2>1, <2>2, ChallengeEffect, Frames DEF SignInEffect
  <2>3. CASE IssueTokens(a, u, siUsers[u].born, TRUE) /\ OneMore("origins") /\ UNCHANGED siProofs
    <3>1. OriginSteps
      BY <2>1, <2>3, OriginIssued, Rows, Counted
    <3>2. HistorySteps
      BY <2>1, <2>3, Counted, Rows DEF HistorySteps
    <3> QED
      BY <2>1, <2>3, <3>1, <3>2, Frames DEF SignInEffect
  <2> QED
    BY <1>4, <2>2, <2>3 DEF InitiateAuth
<1>5. ASSUME NEW i, RespondToChallenge(i) PROVE SignInEffect
  <2> DEFINE u == siProofs[i].user
             a == siProofs[i].client
  <2>1. /\ a \in siClients /\ AnswerChallenge(a, i)
        /\ IssueTokens(a, u, siUsers[u].born, TRUE)
        /\ OneMore("origins")
        /\ UNCHANGED <<siPool, siClients, siSessions, siReq, siEnded, siLoose>>
    BY <1>5 DEF RespondToChallenge
  <2> HIDE DEF a
  <2>2. /\ i \in DOMAIN siProofs /\ siProofs[i].kind = "challenge" /\ u \in DOMAIN siUsers
        /\ SetUser(u, [siUsers[u] EXCEPT !.status = "CONFIRMED"])
        /\ siProofs' = Drop(siProofs, {i})
        /\ Honour(i)
    BY <2>1 DEF AnswerChallenge, Exists
  <2> HIDE DEF u
  <2>3. i \notin siVoid
    BY <2>2 DEF SignInInv, VoidIsSpent
  <2>4. ProofHonoured(i) /\ UserConfirmed(u)
    BY <2>2 DEF ProofHonoured, UserConfirmed
  <2>5. /\ UserSteps /\ u \in DOMAIN siUsers' /\ siUsers'[u].born = siUsers[u].born
        /\ siUsers'[u].status # "UNCONFIRMED"
    BY <2>2, <2>4, ConfirmEffect
  <2>6. ProofSteps /\ siWrong' = siWrong
        /\ siVoid \subseteq siVoid' /\ siVoid' \ siVoid \subseteq DOMAIN siProofs
    BY <2>2, <2>3, <2>4, HonourEffect
  <2>7. OriginSteps
    BY <2>1, <2>2, <2>5, OriginIssued, Rows, Counted
  <2>8. HistorySteps
    BY <2>1, <2>6, Counted, Rows DEF HistorySteps
  <2> QED
    BY <2>1, <2>5, <2>6, <2>7, <2>8, Frames DEF SignInEffect
<1>6. ASSUME NEW o, RevokeToken(o) PROVE SignInEffect
  <2>1. /\ o \in DOMAIN siOrigins
        /\ siOrigins' = [siOrigins EXCEPT ![o].revoked = TRUE, ![o].refresh = "revoked"]
        /\ siEnded' = siEnded \cup {o}
        /\ UNCHANGED <<siClients, siUsers, siSessions, siProofs, siReq, siMade, siVoid, siWrong,
                       siLoose>>
    BY <1>6 DEF RevokeToken
  <2>2. \A x \in DOMAIN siOrigins : siOrigins[x] \in OriginRows
    BY DEF SignInInv, SignInTypeOK
  <2>3. OriginSteps /\ siOrigins'[o].revoked
    BY <2>1, <2>2 DEF OriginSteps, OriginRows
  <2>4. HistorySteps
    BY <2>1, <2>3, Rows DEF HistorySteps, OriginRevoked
  <2> QED
    BY <2>1, <2>3, <2>4, Frames DEF SignInEffect
<1>7. ASSUME NEW i, PresentInVain(i) PROVE SignInEffect
  BY <1>7, Frames DEF PresentInVain, RolledBack, SignInEffect
<1> QED
  BY <1>1, <1>2, <1>3, <1>4, <1>5, <1>6, <1>7 DEF ApiRequest

\* A request goes on, or ends.
LEMMA RequestGoes ==
    ASSUME SignInInv, NEW b \in Browsers, NEW r \in SiRequests, SiGo(b, r),
           r.at \in {"finish", "complete"} =>
               \/ /\ siReq[b].at \in {"finish", "complete"}
                  /\ r.user = siReq[b].user /\ r.born = siReq[b].born
               \/ r.born <= siMade.born /\ ConfirmedAfter(r.user, r.born)
    PROVE  RequestSteps
<1>1. siReq \in [Browsers -> SiRequests]
  BY DEF SignInInv, SignInTypeOK
<1>2. siReq' = [siReq EXCEPT ![b] = r]
  BY DEF SiGo
<1>3. siReq' \in [Browsers -> SiRequests] /\ siReq'[b] = r
      /\ \A c \in Browsers \ {b} : siReq'[c] = siReq[c]
  BY <1>1, <1>2
<1> QED
  BY <1>3 DEF RequestSteps

\* What a request holds, by how far it is.
LEMMA RequestHolds ==
    ASSUME SignInInv, NEW b \in Browsers
    PROVE  /\ siReq[b].at \in {"prepared", "token", "finish", "complete"} =>
                 siReq[b].client \in AppClients
           /\ siReq[b].at \in {"prepared", "finish", "complete"} => siReq[b].type \in {"code", "token"}
           /\ siReq[b].at \in {"finish", "complete"} =>
                 /\ siReq[b].user \in Usernames /\ siReq[b].born \in Nat /\ siReq[b].outs \in Nat
                 /\ siReq[b].born <= siMade.born /\ Confirmed(siReq[b].user, siReq[b].born)
                 /\ siReq[b] \in [at : {"finish", "complete"}, client : AppClients,
                       type : {"code", "token"}, user : Usernames, born : Nat, outs : Nat]
<1>1. siReq[b] \in SiRequests
  BY Rows
<1>2. siReq[b].at \in {"finish", "complete"} =>
         siReq[b].born <= siMade.born /\ Confirmed(siReq[b].user, siReq[b].born)
  BY DEF SignInInv, BornBefore, CodesConfirmed
<1> QED
  BY <1>1, <1>2 DEF SiRequests, SiIdle

LEMMA IdleEffect ==
    ASSUME SignInInv, NEW b \in Browsers, SiGo(b, SiIdle)
    PROVE  RequestSteps
<1>1. SiIdle \in SiRequests /\ SiIdle.at \notin {"finish", "complete"}
  BY DEF SiRequests, SiIdle
<1> QED
  BY <1>1, RequestGoes

LEMMA ProceedEffect ==
    ASSUME SignInInv, NEW b \in Browsers, siReq[b].at = "prepared",
           NEW at \in {"finish", "complete"}, NEW u \in DOMAIN siUsers, Proceed(b, at, u),
           ConfirmedAfter(u, siUsers[u].born)
    PROVE  RequestSteps
<1> DEFINE r == [at |-> at, client |-> siReq[b].client, type |-> siReq[b].type,
                 user |-> u, born |-> siUsers[u].born, outs |-> siUsers[u].outs]
<1>1. SiGo(b, r)
  BY DEF Proceed
<1>2. /\ siReq[b].client \in AppClients /\ siReq[b].type \in {"code", "token"}
      /\ u \in Usernames /\ siUsers[u].born \in Nat /\ siUsers[u].outs \in Nat
      /\ siUsers[u].born <= siMade.born
  BY RequestHolds, Rows
<1>3. r \in SiRequests /\ r.user = u /\ r.born = siUsers[u].born
  BY <1>2 DEF SiRequests
<1> HIDE DEF r
<1> QED
  BY <1>1, <1>2, <1>3, RequestGoes

LEMMA HostedEffect == SignInInv /\ HostedRequest => SignInEffect
<1> SUFFICES ASSUME SignInInv, HostedRequest PROVE SignInEffect
  OBVIOUS
<1>1. ASSUME NEW s, Logout(s) PROVE SignInEffect
  <2>1. /\ siSessions' = Drop(siSessions, {s})
        /\ UNCHANGED <<siPool, siClients, siUsers, siOrigins, siProofs, siReq, siMade, siEnded,
                       siVoid, siWrong, siLoose>>
    BY <1>1 DEF Logout
  <2>2. \A x \in DOMAIN siSessions' : x \in DOMAIN siSessions /\ siSessions'[x] = siSessions[x]
    BY <2>1 DEF Drop, Restrict
  <2> QED
    BY <2>1, <2>2, RowsGo, Frames DEF SignInEffect
<1>2. ASSUME NEW b \in Browsers, FinishLogin(b) PROVE SignInEffect
  <2> DEFINE row == [user |-> siReq[b].user, born |-> siReq[b].born, outs |-> siReq[b].outs]
             r == [siReq[b] EXCEPT !.at = "complete"]
             s == siMade.sessions + 1
  <2>1. /\ siReq[b].at = "finish"
        /\ siSessions' = With(siSessions, s, row)
        /\ siLoose' = IF Outdated(siReq[b]) THEN siLoose \cup {<<"session", s>>} ELSE siLoose
        /\ OneMore("sessions")
        /\ SiGo(b, r)
        /\ UNCHANGED <<siPool, siClients, siUsers, siOrigins, siProofs, siEnded, siVoid, siWrong>>
    BY <1>2 DEF FinishLogin
  <2>2. row \in SessionRows /\ row.user = siReq[b].user /\ row.born = siReq[b].born
        /\ row.outs = siReq[b].outs
    BY <2>1, RequestHolds DEF SessionRows
  <2>3. r \in SiRequests /\ r.user = siReq[b].user /\ r.born = siReq[b].born
    BY <2>1, RequestHolds DEF SiRequests
  <2>4. siMade'.sessions = s
    BY <2>1, Counted
  <2>5. s \notin DOMAIN siSessions
    <3>1. siMade.sessions \in Nat /\ DOMAIN siSessions \subseteq 1..siMade.sessions
      BY DEF SignInInv, SignInTypeOK
    <3> QED
      BY <3>1
  <2>6. HistorySteps
    BY <2>1, Counted, Rows DEF HistorySteps
  <2> HIDE DEF row, r, s
  <2>7. /\ DOMAIN siSessions' = DOMAIN siSessions \cup {s}
        /\ \A x \in DOMAIN siSessions : siSessions'[x] = siSessions[x]
        /\ siSessions'[s] = row
    BY <2>1, <2>5 DEF With
  <2>8. <<"session", s>> \in siLoose' \/
           /\ row.user \in DOMAIN siUsers' /\ row.born = siUsers'[row.user].born
           /\ row.outs = siUsers'[row.user].outs
    BY <2>1, <2>2 DEF Outdated, Exists
  <2>9. SessionSteps
    BY <2>2, <2>4, <2>7, <2>8 DEF SessionSteps, s
  <2>10. RequestSteps
    BY <2>1, <2>3, RequestGoes
  <2> QED
    BY <2>1, <2>6, <2>9, <2>10, Frames DEF SignInEffect
<1>3. ASSUME NEW b \in Browsers, Complete(b) PROVE SignInEffect
  <2> DEFINE r == siReq[b]
             i == siMade.proofs + 1
             row == [kind |-> "code", user |-> r.user, born |-> r.born, client |-> r.client,
                     used |-> FALSE]
  <2>1. /\ r.at = "complete"
        /\ SiGo(b, SiIdle)
        /\ UNCHANGED <<siPool, siClients, siUsers, siSessions, siEnded, siVoid, siWrong>>
    BY <1>3 DEF Complete
  <2>2. /\ r.user \in Usernames /\ r.born \in Nat /\ r.client \in AppClients
        /\ r.born <= siMade.born /\ Confirmed(r.user, r.born)
    BY <2>1, RequestHolds
  <2>3. RequestSteps
    BY <2>1, IdleEffect
  <2>4. ~Outdated(r) => r.user \in DOMAIN siUsers' /\ siUsers'[r.user].born = r.born
                          /\ siUsers'[r.user].status # "UNCONFIRMED"
    BY <2>1, <2>2 DEF Outdated, Exists, Confirmed
  <2>5. CASE /\ siProofs' = With(siProofs, i, row)
             /\ siLoose' = IF Outdated(r) THEN siLoose \cup {<<"proof", i>>} ELSE siLoose
             /\ OneMore("proofs")
             /\ UNCHANGED siOrigins
    <3>1. row \in Proofs /\ row.user = r.user /\ row.born = r.born
      BY <2>2 DEF Proofs
    <3>2. siMade'.proofs = siMade.proofs + 1 /\ siMade'.born = siMade.born
      BY <2>5, Counted
    <3>4. ConfirmedAfter(r.user, r.born)
      BY <2>1, <2>2 DEF Confirmed, ConfirmedAfter
    <3>5. /\ i \in DOMAIN siProofs' /\ siProofs'[i] = row
          /\ \A x \in DOMAIN siProofs' \ {i} :
                x \in DOMAIN siProofs /\ siProofs'[x] = siProofs[x] /\ x \notin siVoid' \ siVoid
      <4> HIDE DEF row, i
      <4> QED
        BY <2>1, <2>5 DEF With
    <3>8. \A x \in DOMAIN siProofs \ DOMAIN siProofs' : x \in siVoid'
      BY <2>5 DEF With
    <3>3. HistorySteps
      BY <2>1, <2>5, <3>2, <3>5, Counted, Rows DEF HistorySteps
    <3>6. <<"proof", i>> \in siLoose' \/ ~Outdated(r)
      BY <2>5
    <3> HIDE DEF row, r
    <3>7. ProofSteps
      <4>1. /\ row.born <= siMade'.born
            /\ \/ <<"proof", siMade.proofs + 1>> \in siLoose'
               \/ row.user \in DOMAIN siUsers' /\ row.born = siUsers'[row.user].born
            /\ ConfirmedAfter(row.user, row.born)
        BY <2>2, <2>4, <3>1, <3>2, <3>4, <3>6
      <4> QED
        BY <3>1, <3>2, <3>5, <3>8, <4>1, ProofMade
    <3> QED
      BY <2>1, <2>3, <2>5, <3>3, <3>7, Frames DEF SignInEffect
  <2>6. CASE /\ IssueTokens(r.client, r.user, r.born, FALSE)
             /\ siLoose' = IF Outdated(r) THEN siLoose \cup {<<"origin", siMade.origins + 1>>}
                           ELSE siLoose
             /\ OneMore("origins")
             /\ UNCHANGED siProofs
    <3>1. siMade'.origins = siMade.origins + 1
      BY <2>6, Counted
    <3>2. HistorySteps
      BY <2>1, <2>6, Counted, Rows DEF HistorySteps
    <3>3. <<"origin", siMade.origins + 1>> \in siLoose' \/ ~Outdated(r)
      BY <2>6
    <3> HIDE DEF r
    <3>4. OriginSteps
      BY <2>2, <2>4, <2>6, <3>1, <3>3, OriginIssued
    <3> QED
      BY <2>1, <2>3, <2>6, <3>2, <3>4, Frames DEF SignInEffect
  <2> QED
    BY <1>3, <2>5, <2>6 DEF Complete
<1>4. ASSUME NEW b \in Browsers, Refuse(b) PROVE SignInEffect
  BY <1>4, IdleEffect, Frames DEF Refuse, SignInEffect
<1>5. ASSUME NEW b \in Browsers, NEW a \in AppClients, ClientAuth(b, a) PROVE SignInEffect
  <2>1. [at |-> "token", client |-> a] \in SiRequests
    BY DEF SiRequests
  <2>2. RequestSteps
    BY <1>5, <2>1, RequestGoes DEF ClientAuth
  <2> QED
    BY <1>5, <2>2, Frames DEF ClientAuth, SignInEffect
<1>6. ASSUME NEW b \in Browsers, NEW a \in AppClients, NEW type \in {"code", "token"},
             PrepareRequest(b, a, type)
      PROVE  SignInEffect
  <2>1. [at |-> "prepared", client |-> a, type |-> type] \in SiRequests
    BY DEF SiRequests
  <2>2. RequestSteps
    BY <1>6, <2>1, RequestGoes DEF PrepareRequest
  <2> QED
    BY <1>6, <2>2, Frames DEF PrepareRequest, SignInEffect
<1>7. ASSUME NEW b \in Browsers, NEW s, AuthorizeWithSession(b, s) PROVE SignInEffect
  <2> DEFINE u == siSessions[s].user
  <2>1. /\ siReq[b].at = "prepared" /\ u \in DOMAIN siUsers /\ siUsers[u].status = "CONFIRMED"
        /\ Proceed(b, "complete", u)
        /\ UNCHANGED <<siPool, siClients, siUsers, siOrigins, siSessions, siProofs, siMade, siEnded,
                       siVoid, siWrong, siLoose>>
    BY <1>7 DEF AuthorizeWithSession, Exists
  <2> HIDE DEF u
  <2>2. ConfirmedAfter(u, siUsers[u].born)
    BY <2>1 DEF ConfirmedAfter
  <2>3. RequestSteps
    BY <2>1, <2>2, ProceedEffect
  <2> QED
    BY <2>1, <2>3, Frames DEF SignInEffect
<1>8. ASSUME NEW b \in Browsers, NEW u \in Usernames, LoginPost(b, u) PROVE SignInEffect
  <2>1. /\ siReq[b].at = "prepared" /\ u \in DOMAIN siUsers /\ siUsers[u].status # "UNCONFIRMED"
        /\ UNCHANGED <<siPool, siClients, siUsers, siOrigins, siSessions, siEnded, siVoid, siWrong,
                       siLoose>>
    BY <1>8 DEF LoginPost, Authenticated, Exists
  <2>2. CASE CreateChallenge(siReq[b].client, u) /\ SiGo(b, SiIdle)
    <3>1. siReq[b].client \in AppClients
      BY <2>1, RequestHolds
    <3>2. ProofSteps /\ HistorySteps
      BY <2>1, <2>2, <3>1, ChallengeEffect
    <3> QED
      BY <2>1, <2>2, <3>2, IdleEffect, Frames DEF SignInEffect
  <2>3. CASE Proceed(b, "finish", u) /\ UNCHANGED <<siProofs, siMade>>
    <3>1. ConfirmedAfter(u, siUsers[u].born)
      BY <2>1 DEF ConfirmedAfter
    <3>2. RequestSteps
      BY <2>1, <2>3, <3>1, ProceedEffect
    <3> QED
      BY <2>1, <2>3, <3>2, Frames DEF SignInEffect
  <2> QED
    BY <1>8, <2>2, <2>3 DEF LoginPost
<1>9. ASSUME NEW b \in Browsers, NEW i, LoginNewPassword(b, i) PROVE SignInEffect
  <2> DEFINE u == siProofs[i].user
  <2>1. /\ siReq[b].at = "prepared"
        /\ i \in DOMAIN siProofs /\ siProofs[i].kind = "challenge" /\ u \in DOMAIN siUsers
        /\ SetUser(u, [siUsers[u] EXCEPT !.status = "CONFIRMED"])
        /\ siProofs' = Drop(siProofs, {i})
        /\ Honour(i)
        /\ Proceed(b, "finish", u)
        /\ UNCHANGED <<siPool, siClients, siOrigins, siSessions, siMade, siEnded, siLoose>>
    BY <1>9 DEF LoginNewPassword, AnswerChallenge, Exists
  <2> HIDE DEF u
  <2>2. i \notin siVoid
    BY <2>1 DEF SignInInv, VoidIsSpent
  <2>3. ProofHonoured(i) /\ UserConfirmed(u)
    BY <2>1 DEF ProofHonoured, UserConfirmed
  <2>4. /\ UserSteps /\ ProofSteps /\ siWrong' = siWrong
        /\ siVoid \subseteq siVoid' /\ siVoid' \ siVoid \subseteq DOMAIN siProofs
        /\ siUsers'[u].status # "UNCONFIRMED"
    BY <2>2, <2>3, HonourEffect, ConfirmEffect
  <2>5. HistorySteps
    BY <2>1, <2>4, Rows DEF HistorySteps
  <2>6. ConfirmedAfter(u, siUsers[u].born)
    BY <2>4 DEF ConfirmedAfter
  <2>7. RequestSteps
    BY <2>1, <2>6, ProceedEffect
  <2> QED
    BY <2>1, <2>4, <2>5, <2>7, Frames DEF SignInEffect
<1>10. ASSUME NEW b \in Browsers, NEW i, NEW matches \in BOOLEAN, ExchangeCode(b, i, matches)
       PROVE  SignInEffect
  <2> DEFINE a == siReq[b].client
             p == siProofs[i]
             o == siMade.origins + 1
             granted == /\ ~p.used /\ p.client = a /\ matches
                        /\ p.user \in DOMAIN siUsers /\ siUsers[p.user].enabled
  <2>1. /\ siReq[b].at = "token"
        /\ i \in DOMAIN siProofs /\ p.kind = "code"
        /\ siProofs' = [siProofs EXCEPT ![i].used = TRUE]
        /\ IF granted
           THEN IssueTokens(a, p.user, siUsers[p.user].born, TRUE) /\ OneMore("origins") /\ Honour(i)
           ELSE siVoid' = siVoid \cup {i} /\ UNCHANGED <<siOrigins, siMade, siWrong>>
        /\ siLoose' = IF granted /\ p.born # siUsers[p.user].born
                      THEN siLoose \cup {<<"origin", o>>} ELSE siLoose
        /\ SiGo(b, SiIdle)
        /\ UNCHANGED <<siPool, siClients, siUsers, siSessions, siEnded>>
    BY <1>10 DEF ExchangeCode, Spent
  <2>2. a \in AppClients
    BY <2>1, RequestHolds
  <2>3. granted => i \notin siVoid
    BY <2>1 DEF SignInInv, VoidIsSpent
  <2>4. siVoid' = siVoid \cup {i} /\ siWrong' = siWrong
    BY <2>1, <2>3 DEF Honour
  <2>5. \A x \in DOMAIN siProofs : siProofs[x] \in Proofs
    BY DEF SignInInv, SignInTypeOK
  <2>6. ProofSteps
    <3>1. DOMAIN siProofs' = DOMAIN siProofs
      BY <2>1
    <3>2. ASSUME NEW x \in DOMAIN siProofs
          PROVE  /\ siProofs'[x] \in Proofs
                 /\ siProofs'[x].kind = siProofs[x].kind /\ siProofs'[x].user = siProofs[x].user
                 /\ siProofs'[x].born = siProofs[x].born
                 /\ siProofs[x].used => siProofs'[x].used
                 /\ x = i => siProofs'[x].used
      <4>1. CASE x = i
        <5>1. siProofs'[x] = [siProofs[x] EXCEPT !.used = TRUE]
          BY <2>1, <4>1
        <5> QED BY <5>1, <2>5 DEF Proofs
      <4>2. CASE x # i
        BY <2>1, <2>5, <4>2
      <4> QED BY <4>1, <4>2
    <3>3. \A x \in DOMAIN siProofs : x \in siVoid' \ siVoid => x = i /\ siProofs[x].kind = "code"
      BY <2>1, <2>4
    <3> QED BY <3>1, <3>2, <3>3 DEF ProofSteps
  <2>7. Confirmed(p.user, p.born)
    BY <2>1 DEF SignInInv, CodesConfirmed
  <2> HIDE DEF a, p, o
  <2>8. OriginSteps /\ HistorySteps
    <3>1. CASE granted
      <4>1. /\ IssueTokens(a, p.user, siUsers[p.user].born, TRUE) /\ OneMore("origins")
            /\ p.user \in DOMAIN siUsers
            /\ siLoose' = IF p.born # siUsers[p.user].born
                          THEN siLoose \cup {<<"origin", o>>} ELSE siLoose
        BY <2>1, <3>1
      <4>2. <<"origin", siMade.origins + 1>> \in siLoose' \/ siUsers'[p.user].status # "UNCONFIRMED"
        BY <2>1, <2>7, <4>1 DEF Confirmed, o
      <4>3. /\ p.user \in Usernames /\ siUsers[p.user].born \in Nat
            /\ siUsers[p.user].born <= siMade.born /\ siMade'.origins = siMade.origins + 1
            /\ p.user \in DOMAIN siUsers' /\ siUsers'[p.user].born = siUsers[p.user].born
        BY <2>1, <4>1, Rows, Counted
      <4>4. OriginSteps
        BY <2>2, <4>1, <4>2, <4>3, OriginIssued
      <4>5. HistorySteps
        BY <2>1, <2>4, <4>1, Counted, Rows DEF HistorySteps
      <4> QED
        BY <4>4, <4>5
    <3>2. CASE ~granted
      <4>1. UNCHANGED <<siOrigins, siMade, siLoose>>
        BY <2>1, <3>2
      <4>2. HistorySteps
        BY <2>1, <2>4, <4>1, Rows DEF HistorySteps
      <4> QED
        BY <4>1, <4>2, Frames
    <3> QED
      BY <3>1, <3>2
  <2> QED
    BY <2>1, <2>6, <2>8, IdleEffect, Frames DEF SignInEffect
<1> QED
  BY <1>1, <1>2, <1>3, <1>4, <1>5, <1>6, <1>7, <1>8, <1>9, <1>10 DEF HostedRequest

LEMMA SignInInvNext == SignInInv /\ [SignInNext]_siVars => SignInInv'
<1> SUFFICES ASSUME SignInInv, [SignInNext]_siVars PROVE SignInInv'
  OBVIOUS
<1>1. CASE SignInNext
  BY <1>1, ApiEffect, UserAdminEffect, UserRemovalEffect, HostedEffect, PoolEffect, ExpireEffect,
     EffectKeeps DEF SignInNext
<1>2. CASE UNCHANGED siVars
  BY <1>2, Frames, EffectKeeps DEF siVars, SignInEffect
<1> QED
  BY <1>1, <1>2

LEMMA SignInHolds == SignInSpec => []SignInInv
BY SignInInvInit, SignInInvNext, PTL DEF SignInSpec

\* Whoever signs in, however they overlap: what proves who someone is, an authorization
\* code, a challenge or a mailed code, is honoured at most once, and a challenge or a mailed
\* code that is presented in vain stays good for another try.
THEOREM HonouredOnce == SignInSpec => []ProofsOnce
<1>1. SignInInv => ProofsOnce
  BY DEF SignInInv
<1> QED
  BY <1>1, SignInHolds, PTL

\* Sessions, sign-ins and proofs are of the user who is there and may sign in, and end with
\* the sign-out, except what a request inserts late.
THEOREM RowsOfTheirUser == SignInSpec => []RightsOfUser
<1>1. SignInInv => RightsOfUser
  BY DEF SignInInv
<1> QED
  BY <1>1, SignInHolds, PTL

-----------------------------------------------------------------------------
(* The key that signs *)

\* Whoever holds a key holds the stored one, which never changes; who has generated one
\* holds no key of 0, that is, none.
SigningKeysInv ==
    /\ skMade \in Nat /\ skStored \in Nat
    /\ skReq \in [Signers -> [at : {"idle", "generate", "store", "keys"}, key : Nat]]
    /\ \A r \in Signers :
          /\ skReq[r].at = "keys" => skReq[r].key = skStored /\ skStored # 0
          /\ skReq[r].at = "store" => skReq[r].key # 0
    /\ skTokens \subseteq {skStored} \ {0}

LEMMA SigningKeysInvInit == SigningKeysInit => SigningKeysInv
BY DEF SigningKeysInit, SigningKeysInv, SkIdle

LEMMA SigningKeysInvNext == SigningKeysInv /\ [SigningKeysNext]_skVars => SigningKeysInv'
<1> SUFFICES ASSUME SigningKeysInv, [SigningKeysNext]_skVars PROVE SigningKeysInv'
  OBVIOUS
<1> USE DEF SigningKeysInv, SkGo
<1>1. CASE RestartSigners
  BY <1>1 DEF RestartSigners, SkIdle
<1>2. ASSUME NEW r \in Signers, LoadPem(r) PROVE SigningKeysInv'
  BY <1>2 DEF LoadPem
<1>3. ASSUME NEW r \in Signers, GenerateKey(r) PROVE SigningKeysInv'
  BY <1>3 DEF GenerateKey
<1>4. ASSUME NEW r \in Signers, StoreKey(r) PROVE SigningKeysInv'
  BY <1>4 DEF StoreKey, Winner
<1>5. ASSUME NEW r \in Signers, Sign(r) PROVE SigningKeysInv'
  BY <1>5 DEF Sign
<1>6. CASE UNCHANGED skVars
  BY <1>6 DEF skVars
<1> QED
  BY <1>1, <1>2, <1>3, <1>4, <1>5, <1>6 DEF SigningKeysNext

\* Tokens verify with the stored key, and those of a sign-in that has ended are refused:
\* whatever requests race to make the key, and whoever signs in under the name later.
THEOREM TokensAreHonoured == SignInSpec /\ SigningKeysSpec => []TokensHonoured
<1>1. SigningKeysSpec => []SigningKeysInv
  BY SigningKeysInvInit, SigningKeysInvNext, PTL DEF SigningKeysSpec
<1>2. SigningKeysInv => TokensVerify
  BY DEF SigningKeysInv, TokensVerify
<1>3. SignInInv => EndedStaysEnded
  BY DEF SignInInv, EndedIsRevoked, EndedStaysEnded, Accepted, Refreshable, RefreshRevoked
<1>4. EndedStaysEnded /\ TokensVerify => TokensHonoured
  BY DEF TokensHonoured
<1> QED
  BY <1>1, <1>2, <1>3, <1>4, SignInHolds, PTL

-----------------------------------------------------------------------------
(* What clients are granted *)

CodeRows == [redirect : Uris, scopes : SUBSET Scopes, challenge : {"c", None},
             method : {"S256", "plain", None}, used : BOOLEAN]

\* Codes are numbered as they are made, so none takes the number of another; a grant is of
\* a code that is there.
OauthInv ==
    /\ oaClient \in Settings /\ ValidSettings(oaClient)
    /\ \E n \in Nat : DOMAIN oaCodes = 1..n
    /\ \A i \in DOMAIN oaCodes : oaCodes[i] \in CodeRows
    /\ \A g \in oaGrants : g.grant = "code" => g.code \in DOMAIN oaCodes
    /\ ExchangedAsAsked

LEMMA OauthInvInit == OauthInit => OauthInv
<1> SUFFICES ASSUME OauthInit PROVE OauthInv
  OBVIOUS
<1>1. DOMAIN oaCodes = 1..0
  BY DEF OauthInit
<1> QED
  BY <1>1 DEF OauthInit, OauthInv, ExchangedAsAsked

\* A request that prepare lets through.
LEMMA Prepared ==
    ASSUME OauthInv, NEW q \in Requests
    PROVE  /\ Prepare(oaClient, q).to # None => Prepare(oaClient, q).to \in oaClient.callbacks
           /\ (Prepare(oaClient, q).error = None) =
                 /\ RedirectUri(oaClient, q) \in oaClient.callbacks
                 /\ q.type # None /\ oaClient.oauth /\ FlowOf(q) \in oaClient.flows
                 /\ Asked(oaClient, q) # {} /\ Asked(oaClient, q) \subseteq oaClient.scopes
                 /\ q.method # "md5" /\ (q.method # None => q.challenge # None)
<1> DEFINE uri == RedirectUri(oaClient, q)
           flow == oaClient.oauth /\ FlowOf(q) \in oaClient.flows
           scopes == Asked(oaClient, q) # {} /\ Asked(oaClient, q) \subseteq oaClient.scopes
           method == q.method # "md5" /\ (q.method # None => q.challenge # None)
           answer == Prepare(oaClient, q)
<1>1. /\ None # "page" /\ None # "unsupported_response_type" /\ None # "unauthorized_client"
      /\ None # "invalid_scope" /\ None # "invalid_request"
  BY OauthConstants DEF Errors
<1>2. CASE uri \notin oaClient.callbacks
  <2>1. answer = [to |-> None, error |-> "page"]
    BY <1>2 DEF Prepare, Registered, Page
  <2>2. answer.to = None /\ answer.error # None
    BY <2>1, <1>1
  <2>3. ~(/\ RedirectUri(oaClient, q) \in oaClient.callbacks
           /\ q.type # None /\ oaClient.oauth /\ FlowOf(q) \in oaClient.flows)
    BY <1>2
  <2> QED
    BY <2>2, <2>3
<1>3. CASE uri \in oaClient.callbacks /\ q.type = None
  <2>1. answer = [to |-> uri, error |-> "unsupported_response_type"]
    BY <1>3 DEF Prepare, Registered, Redirected
  <2>2. answer.to \in {None, uri} /\ answer.error # None
    BY <2>1, <1>1
  <2>3. ~(/\ RedirectUri(oaClient, q) \in oaClient.callbacks
           /\ q.type # None /\ oaClient.oauth /\ FlowOf(q) \in oaClient.flows)
    BY <1>3
  <2> QED
    BY <2>2, <2>3, <1>3
<1>4. CASE uri \in oaClient.callbacks /\ q.type # None /\ ~flow
  <2>1. answer = [to |-> uri, error |-> "unauthorized_client"]
    BY <1>4 DEF Prepare, Registered, Redirected
  <2>2. answer.to \in {None, uri} /\ answer.error # None
    BY <2>1, <1>1
  <2>3. ~(/\ RedirectUri(oaClient, q) \in oaClient.callbacks
           /\ q.type # None /\ oaClient.oauth /\ FlowOf(q) \in oaClient.flows)
    BY <1>4
  <2> QED
    BY <2>2, <2>3, <1>4
<1>5. CASE uri \in oaClient.callbacks /\ q.type # None /\ flow
  <2>1. answer = IF ~scopes THEN [to |-> uri, error |-> "invalid_scope"]
                 ELSE IF ~method THEN [to |-> uri, error |-> "invalid_request"]
                 ELSE [to |-> uri, error |-> None]
    BY <1>5 DEF Prepare, Registered, Redirected
  <2>2. answer.to = uri
    BY <2>1
  <2>3. (answer.error = None) = (scopes /\ method)
    <3> HIDE DEF scopes, method, answer
    <3> QED
      BY <2>1, <1>1
  <2> QED
    BY <2>2, <2>3, <1>5
<1> QED
  BY <1>2, <1>3, <1>4, <1>5

LEMMA OauthInvNext == OauthInv /\ [OauthNext]_oaVars => OauthInv'
<1> SUFFICES ASSUME OauthInv, [OauthNext]_oaVars PROVE OauthInv'
  OBVIOUS
<1>0. /\ oaClient \in Settings /\ ValidSettings(oaClient)
      /\ \E n \in Nat : DOMAIN oaCodes = 1..n
      /\ \A i \in DOMAIN oaCodes : oaCodes[i] \in CodeRows
      /\ \A g \in oaGrants : g.grant = "code" => g.code \in DOMAIN oaCodes
      /\ ExchangedAsAsked
  BY DEF OauthInv
<1>1. ASSUME NEW q \in Requests, Authorize(q) PROVE OauthInv'
  <2> DEFINE n == Cardinality(DOMAIN oaCodes) + 1
             row == CodeOf(oaClient, q)
  <2>1. /\ Prepare(oaClient, q).error = None
        /\ oaCodes' = [i \in DOMAIN oaCodes \cup {n} |-> IF i = n THEN row ELSE oaCodes[i]]
        /\ UNCHANGED <<oaClient, oaGrants>>
    BY <1>1 DEF Authorize
  <2>2. PICK k \in Nat : DOMAIN oaCodes = 1..k
    BY <1>0
  <2>3. n = k + 1
    <3>1. Cardinality(1..k) = IF 1 > k THEN 0 ELSE k - 1 + 1
      BY <2>2, FS_Interval
    <3>2. Cardinality(1..k) = k
      BY <3>1, <2>2
    <3> QED
      BY <3>2, <2>2
  <2>4. /\ RedirectUri(oaClient, q) \in oaClient.callbacks
        /\ Asked(oaClient, q) \subseteq oaClient.scopes /\ q.method # "md5"
    BY <2>1, Prepared
  <2>5. row \in CodeRows
    <3>1. RedirectUri(oaClient, q) \in Uris /\ Asked(oaClient, q) \in SUBSET Scopes
      BY <2>4, <1>0 DEF Settings
    <3>2. q.challenge \in {"c", None} /\ q.method \in {"S256", "plain", None}
      BY <2>4 DEF Requests
    <3> QED
      BY <3>1, <3>2 DEF CodeOf, CodeRows
  <2> HIDE DEF n, row
  <2>6. /\ DOMAIN oaCodes' = 1..(k + 1)
        /\ \A i \in DOMAIN oaCodes : oaCodes'[i] = oaCodes[i]
        /\ oaCodes'[n] = row
    BY <2>1, <2>2, <2>3
  <2>7. ExchangedAsAsked'
    <3>1. ASSUME NEW g \in oaGrants, g.grant = "code"
          PROVE  oaCodes'[g.code] = oaCodes[g.code]
      BY <1>0, <2>6, <3>1
    <3>2. oaGrants' = oaGrants
      BY <2>1
    <3> QED BY <1>0, <3>1, <3>2 DEF ExchangedAsAsked
  <2>8. \A i \in DOMAIN oaCodes' : oaCodes'[i] \in CodeRows
    BY <2>2, <2>3, <2>5, <2>6, <1>0
  <2>9. \A g \in oaGrants' : g.grant = "code" => g.code \in DOMAIN oaCodes'
    BY <2>1, <2>2, <2>6, <1>0
  <2>10. oaClient' \in Settings /\ ValidSettings(oaClient')
    BY <2>1, <1>0
  <2>11. \E m \in Nat : DOMAIN oaCodes' = 1..m
    BY <2>2, <2>6
  <2>12. ValidSettings(oaClient)'
    BY <2>10 DEF ValidSettings
  <2> QED
    BY <2>7, <2>8, <2>9, <2>10, <2>11, <2>12 DEF OauthInv
<1>2. ASSUME NEW q \in Requests, AuthorizeImplicit(q) PROVE OauthInv'
  BY <1>0, <1>2 DEF AuthorizeImplicit, Grant, OauthInv, ExchangedAsAsked
<1>3. ASSUME NEW i \in DOMAIN oaCodes, NEW redirect \in Uris, NEW verifier \in Verifiers,
             Exchange(i, redirect, verifier)
      PROVE  OauthInv'
  <2> DEFINE code == oaCodes[i]
             grant == [grant |-> "code", code |-> i, verified |-> verifier # None,
                       redirect |-> redirect, scopes |-> code.scopes]
  <2>1. /\ oaCodes' = [oaCodes EXCEPT ![i].used = TRUE]
        /\ UNCHANGED oaClient
        /\ \/ UNCHANGED oaGrants
           \/ /\ redirect = code.redirect /\ Verified(code.challenge, code.method, verifier)
              /\ oaGrants' = oaGrants \cup {grant}
    BY <1>3 DEF Exchange, Grant
  <2>2. /\ code \in CodeRows /\ code.challenge \in {"c", None}
    BY <1>0 DEF CodeRows
  <2>3. /\ DOMAIN oaCodes' = DOMAIN oaCodes
        /\ \A j \in DOMAIN oaCodes :
              /\ oaCodes'[j].redirect = oaCodes[j].redirect
              /\ oaCodes'[j].scopes = oaCodes[j].scopes
              /\ oaCodes'[j].challenge = oaCodes[j].challenge
              /\ oaCodes[j].used => oaCodes'[j].used
              /\ oaCodes'[j] \in CodeRows
        /\ oaCodes'[i].used
    BY <2>1, <1>0 DEF CodeRows
  <2>4. ExchangedAsAsked'
    <3> SUFFICES ASSUME NEW g \in oaGrants', g.grant = "code"
                 PROVE  /\ oaCodes'[g.code].used
                        /\ g.redirect = oaCodes'[g.code].redirect
                        /\ g.scopes = oaCodes'[g.code].scopes
                        /\ oaCodes'[g.code].challenge # None => g.verified
      BY DEF ExchangedAsAsked
    <3>1. CASE g \in oaGrants
      BY <3>1, <2>3, <1>0 DEF ExchangedAsAsked
    <3>2. CASE g \notin oaGrants
      <4>1. /\ g = grant /\ redirect = code.redirect
            /\ Verified(code.challenge, code.method, verifier)
        BY <3>2, <2>1
      <4>2. code.challenge # None => verifier # None
        BY <4>1, <2>2, OauthConstants DEF Verified
      <4> QED
        BY <4>1, <4>2, <2>3
    <3> QED
      BY <3>1, <3>2
  <2>5. \A g \in oaGrants' : g.grant = "code" => g.code \in DOMAIN oaCodes'
    BY <2>1, <2>3, <1>0
  <2> QED
    BY <2>1, <2>3, <2>4, <2>5, <1>0 DEF OauthInv
<1>4. ASSUME NEW scopes, ClientCredentials(scopes) PROVE OauthInv'
  BY <1>0, <1>4 DEF ClientCredentials, Grant, OauthInv, ExchangedAsAsked
<1>5. ASSUME NEW s \in NewSettings, UpdateClient(s) PROVE OauthInv'
  <2>1. /\ ValidSettings(s) /\ oaClient' = [s EXCEPT !.secret = oaClient.secret]
        /\ UNCHANGED <<oaCodes, oaGrants>>
    BY <1>5 DEF UpdateClient
  <2>2. s \in Settings /\ oaClient.secret \in BOOLEAN
    BY <1>0, OauthConstants DEF Settings
  <2>3. oaClient' \in Settings /\ ValidSettings(oaClient')
    BY <2>1, <2>2 DEF Settings, ValidSettings
  <2> QED
    BY <2>1, <2>3, <1>0 DEF OauthInv, ExchangedAsAsked, ValidSettings
<1>6. CASE UNCHANGED oaVars
  BY <1>0, <1>6 DEF oaVars, OauthInv, ExchangedAsAsked, ValidSettings
<1> QED
  BY <1>1, <1>2, <1>3, <1>4, <1>5, <1>6 DEF OauthNext

\* The hosted UI redirects to registered addresses only and goes on if and only if nothing
\* is wrong with the request; a code is exchanged for what it was asked for, against the
\* verifier of its challenge, whatever the settings are by then.
THEOREM GrantsAsAsked == OauthSpec => []GrantedAsAsked
<1>1. OauthInv => RedirectsRegistered
  <2> SUFFICES ASSUME OauthInv, NEW q \in Requests
               PROVE
        LET answer == Prepare(oaClient, q) IN
        /\ answer.to # None => answer.to \in oaClient.callbacks
        /\ (answer.error = None) =
              /\ oaClient.oauth
              /\ (q.type = "code" /\ "code" \in oaClient.flows)
                 \/ (q.type = "token" /\ "implicit" \in oaClient.flows)
              /\ IF q.redirect = None THEN oaClient.default # None ELSE q.redirect \in oaClient.callbacks
              /\ IF q.scopes = None THEN oaClient.scopes # {}
                 ELSE q.scopes # {} /\ q.scopes \subseteq oaClient.scopes
              /\ q.method \in {"S256", "plain", None}
              /\ q.method # None => q.challenge # None
    BY DEF RedirectsRegistered
  <2>1. /\ q.type \in {"code", "token", None} /\ q.method \in {"S256", "plain", "md5", None}
        /\ "code" # None /\ "token" # None /\ "md5" # None
    BY OauthConstants DEF Requests
  <2>2. (q.type # None /\ FlowOf(q) \in oaClient.flows) <=>
           (q.type = "code" /\ "code" \in oaClient.flows)
             \/ (q.type = "token" /\ "implicit" \in oaClient.flows)
    BY <2>1 DEF FlowOf
  <2>3. RedirectUri(oaClient, q) \in oaClient.callbacks <=>
           IF q.redirect = None THEN oaClient.default # None ELSE q.redirect \in oaClient.callbacks
    BY OauthConstants DEF OauthInv, RedirectUri, ValidSettings, Settings
  <2>4. (Asked(oaClient, q) # {} /\ Asked(oaClient, q) \subseteq oaClient.scopes) <=>
           IF q.scopes = None THEN oaClient.scopes # {}
           ELSE q.scopes # {} /\ q.scopes \subseteq oaClient.scopes
    BY DEF Asked
  <2>5. q.method # "md5" <=> q.method \in {"S256", "plain", None}
    BY <2>1
  <2> QED
    BY <2>2, <2>3, <2>4, <2>5, Prepared
<1>2. OauthInv => GrantedAsAsked
  BY <1>1 DEF OauthInv, GrantedAsAsked, RedirectsTrusted
<1> QED
  BY <1>2, OauthInvInit, OauthInvNext, PTL DEF OauthSpec

-----------------------------------------------------------------------------
(* The directory of users *)

\* Names are unique in a pool, and addresses where they are the login; what is of a pool
\* is of a pool that exists.
UserPoolsInv ==
    /\ upMade \in Nat /\ DOMAIN upUsers \subseteq 1..upMade
    /\ \A n \in DOMAIN upUsers : upUsers[n] \in MemberRows
    /\ DOMAIN upPools \subseteq Pools /\ \A p \in DOMAIN upPools : upPools[p] \in PoolRows
    /\ \A n \in DOMAIN upUsers :
          /\ upUsers[n].pool \in DOMAIN upPools
          /\ Kind(upUsers[n].pool) = "email" <=> upUsers[n].username = None
    /\ \A m, n \in DOMAIN upUsers : m # n /\ upUsers[m].pool = upUsers[n].pool =>
          /\ ~SameName(upUsers[m].username, upUsers[n].username)
          /\ Kind(upUsers[n].pool) = "email" => ~SameName(upUsers[m].email, upUsers[n].email)
    /\ \A a \in DOMAIN upClients : upClients[a] \in DOMAIN upPools
    /\ DomainOfOnePool

LEMMA UserPoolsInvInit == UserPoolsInit => UserPoolsInv
<1>1. DOMAIN <<>> = {}
  OBVIOUS
<1> QED
  BY <1>1 DEF UserPoolsInit, UserPoolsInv, DomainOfOnePool

LEMMA LoginsFound == UserPoolsInv => FoundByLogin
<1> SUFFICES ASSUME UserPoolsInv, NEW n \in DOMAIN upUsers
             PROVE  LET row == upUsers[n] IN
        /\ row.username # None => \A x \in Logins :
              SameName(x, row.username) => FindUser(row.pool, x) = {n}
        /\ Kind(row.pool) = "email" /\ row.email # None => \A x \in Logins :
              SameName(x, row.email) => FindUser(row.pool, x) = {n}
  BY DEF FoundByLogin
<1> DEFINE row == upUsers[n]
<1>1. Oldest({n}) = {n}
  BY DEF UserPoolsInv, Oldest
<1>2. ASSUME row.username # None, NEW x \in Logins, SameName(x, row.username)
      PROVE  FindUser(row.pool, x) = {n}
  <2>1. ByName(row.pool, x) = {n}
    BY <1>2 DEF UserPoolsInv, ByName, Members, SameName
  <2> QED
    BY <1>1, <2>1 DEF FindUser
<1>3. ASSUME Kind(row.pool) = "email", row.email # None, NEW x \in Logins,
             SameName(x, row.email)
      PROVE  FindUser(row.pool, x) = {n}
  <2>1. ByName(row.pool, x) = {}
    BY <1>3 DEF UserPoolsInv, ByName, Members, SameName
  <2>2. ByEmail(row.pool, x) = {n}
    BY <1>3 DEF UserPoolsInv, ByEmail, Members, SameName
  <2> QED
    BY <1>1, <1>3, <2>1, <2>2 DEF FindUser
<1> QED
  BY <1>2, <1>3

\* Who is not found has a name that nobody has.
LEMMA NotFound ==
    ASSUME UserPoolsInv, NEW p, NEW login \in Logins, FindUser(p, login) = {}
    PROVE  ByName(p, login) = {}
<1> SUFFICES ASSUME NEW n \in ByName(p, login) PROVE FALSE
  OBVIOUS
<1>1. ByName(p, login) = {n}
  BY DEF UserPoolsInv, ByName, Members, SameName
<1>2. Oldest({n}) = {n}
  BY DEF UserPoolsInv, Oldest, ByName, Members
<1> QED
  BY <1>1, <1>2 DEF FindUser

\* A pool gets a domain that no other has, or none.
LEMMA DomainSet ==
    ASSUME UserPoolsInv, NEW p \in DOMAIN upPools, NEW d \in Domains \cup {None},
           upPools' = [upPools EXCEPT ![p].domain = d],
           d = None \/ \A r \in DOMAIN upPools \ {p} : upPools[r].domain # d,
           UNCHANGED <<upClients, upUsers, upMade>>
    PROVE  UserPoolsInv'
<1>1. \A q \in DOMAIN upPools : upPools[q] \in PoolRows
  BY DEF UserPoolsInv
<1>2. /\ DOMAIN upPools' = DOMAIN upPools
      /\ \A q \in DOMAIN upPools \ {p} : upPools'[q] = upPools[q]
      /\ upPools'[p] \in PoolRows /\ upPools'[p].domain = d
      /\ \A q \in DOMAIN upPools : upPools'[q].kind = upPools[q].kind
  BY <1>1 DEF PoolRows
<1>3. \A q \in DOMAIN upPools : Kind(q)' = Kind(q)
  BY <1>2 DEF Kind
<1>4. DomainOfOnePool'
  BY <1>2 DEF UserPoolsInv, DomainOfOnePool
<1> QED
  BY <1>1, <1>2, <1>3, <1>4 DEF UserPoolsInv

LEMMA UserPoolsInvNext == UserPoolsInv /\ [UserPoolsNext]_upVars => UserPoolsInv'
<1> SUFFICES ASSUME UserPoolsInv, [UserPoolsNext]_upVars PROVE UserPoolsInv'
  OBVIOUS
<1>1. ASSUME NEW p \in DOMAIN upPools, NEW login \in Logins, NEW email \in Logins \cup {None},
             NEW verified \in BOOLEAN, CreateUser(p, login, email, verified)
      PROVE  UserPoolsInv'
  <2> DEFINE n == upMade + 1
             address == IF Kind(p) = "email" THEN login ELSE email
             row == [pool |-> p, username |-> IF Kind(p) = "email" THEN None ELSE login,
                     email |-> address, verified |-> verified /\ address # None]
  <2>1. /\ upUsers' = Entry(upUsers, n, row) /\ upMade' = n
        /\ FindUser(p, login) = {}
        /\ Kind(p) = "email" => ByEmail(p, login) = {}
        /\ UNCHANGED <<upPools, upClients>>
    BY <1>1 DEF CreateUser, EmailTaken
  <2>2. ByName(p, login) = {}
    BY <2>1, NotFound
  <2>3. row \in MemberRows
    <3>1. p \in Pools /\ address \in Logins \cup {None} /\ (verified /\ address # None) \in BOOLEAN
      BY DEF UserPoolsInv
    <3> HIDE DEF address
    <3> QED
      BY <3>1 DEF MemberRows
  <2>4. n \notin DOMAIN upUsers /\ n \in Nat /\ 1..n = 1..upMade \cup {n}
    BY DEF UserPoolsInv
  <2>5. /\ row.pool = p /\ (Kind(p) = "email" <=> row.username = None)
        /\ row.username # None => row.username = login
        /\ Kind(p) = "email" => row.email = login
    BY UserPoolsConstants
  <2>6. \A m \in DOMAIN upUsers : upUsers[m].pool = p =>
           /\ ~SameName(upUsers[m].username, row.username)
           /\ ~SameName(row.username, upUsers[m].username)
           /\ Kind(p) = "email" => /\ ~SameName(upUsers[m].email, row.email)
                                   /\ ~SameName(row.email, upUsers[m].email)
    <3> HIDE DEF row
    <3> QED
      BY <2>1, <2>2, <2>5 DEF ByName, ByEmail, Members, SameName
  <2> HIDE DEF n, row
  <2>7. /\ DOMAIN upUsers' = DOMAIN upUsers \cup {n} /\ upUsers'[n] = row
        /\ \A m \in DOMAIN upUsers : upUsers'[m] = upUsers[m]
    BY <2>1, <2>4 DEF Entry
  <2>8. \A q : Kind(q)' = Kind(q)
    BY <2>1 DEF Kind
  <2> QED
    BY <2>1, <2>3, <2>4, <2>5, <2>6, <2>7, <2>8 DEF UserPoolsInv, DomainOfOnePool, Kind
<1>2. ASSUME NEW n \in DOMAIN upUsers, NEW email \in Logins, NEW given \in BOOLEAN,
             NEW verified \in BOOLEAN, UpdateEmail(n, email, given, verified)
      PROVE  UserPoolsInv'
  <2> DEFINE p == upUsers[n].pool
  <2>1. /\ Kind(p) = "email" => ByEmail(p, email) \ {n} = {}
        /\ upUsers' = [upUsers EXCEPT ![n].email = email,
              ![n].verified = IF given THEN verified ELSE @ /\ upUsers[n].email = email]
        /\ UNCHANGED <<upPools, upClients, upMade>>
    BY <1>2 DEF UpdateEmail, EmailFree, EmailTaken
  <2>2. \A m \in DOMAIN upUsers : upUsers[m] \in MemberRows
    BY DEF UserPoolsInv
  <2>3. /\ DOMAIN upUsers' = DOMAIN upUsers
        /\ \A m \in DOMAIN upUsers \ {n} : upUsers'[m] = upUsers[m]
        /\ upUsers'[n] \in MemberRows /\ upUsers'[n].pool = p
        /\ upUsers'[n].username = upUsers[n].username /\ upUsers'[n].email = email
    BY <2>1, <2>2 DEF MemberRows
  <2>4. \A m \in DOMAIN upUsers \ {n} : upUsers[m].pool = p /\ Kind(p) = "email" =>
           ~SameName(upUsers[m].email, email) /\ ~SameName(email, upUsers[m].email)
    BY <2>1 DEF ByEmail, Members, SameName
  <2>5. \A q : Kind(q)' = Kind(q)
    BY <2>1 DEF Kind
  <2> HIDE DEF p
  <2> QED
    BY <2>1, <2>2, <2>3, <2>4, <2>5 DEF UserPoolsInv, DomainOfOnePool, Kind, p
<1>3. ASSUME NEW n \in DOMAIN upUsers, DeleteEmail(n) PROVE UserPoolsInv'
  <2>1. /\ upUsers' = [upUsers EXCEPT ![n].email = None]
        /\ UNCHANGED <<upPools, upClients, upMade>>
    BY <1>3 DEF DeleteEmail
  <2>2. \A m \in DOMAIN upUsers : upUsers[m] \in MemberRows
    BY DEF UserPoolsInv
  <2>3. /\ DOMAIN upUsers' = DOMAIN upUsers
        /\ \A m \in DOMAIN upUsers \ {n} : upUsers'[m] = upUsers[m]
        /\ upUsers'[n] \in MemberRows /\ upUsers'[n].pool = upUsers[n].pool
        /\ upUsers'[n].username = upUsers[n].username /\ upUsers'[n].email = None
    BY <2>1, <2>2 DEF MemberRows
  <2>4. \A x : ~SameName(x, None) /\ ~SameName(None, x)
    BY DEF SameName
  <2>5. \A q : Kind(q)' = Kind(q)
    BY <2>1 DEF Kind
  <2> QED
    BY <2>1, <2>2, <2>3, <2>4, <2>5 DEF UserPoolsInv, DomainOfOnePool, Kind
<1>4. ASSUME NEW n \in DOMAIN upUsers, DeleteMember(n) PROVE UserPoolsInv'
  <2>1. /\ \A m \in DOMAIN upUsers' : m \in DOMAIN upUsers /\ upUsers'[m] = upUsers[m]
        /\ UNCHANGED <<upPools, upClients, upMade>>
    BY <1>4 DEF DeleteMember, Without, Restrict
  <2> QED
    BY <2>1 DEF UserPoolsInv, DomainOfOnePool, Kind
<1>5. ASSUME NEW p \in Pools, NEW kind \in Kinds, CreatePool(p, kind) PROVE UserPoolsInv'
  <2> DEFINE row == [kind |-> kind, domain |-> None]
  <2>1. p \notin DOMAIN upPools /\ upPools' = Entry(upPools, p, row)
        /\ UNCHANGED <<upClients, upUsers, upMade>>
    BY <1>5 DEF CreatePool
  <2>2. row \in PoolRows /\ row.domain = None
    BY DEF PoolRows
  <2> HIDE DEF row
  <2>3. /\ DOMAIN upPools' = DOMAIN upPools \cup {p} /\ upPools'[p] = row
        /\ \A q \in DOMAIN upPools : upPools'[q] = upPools[q]
    BY <2>1 DEF Entry
  <2> QED
    BY <2>1, <2>2, <2>3 DEF UserPoolsInv, DomainOfOnePool, Kind
<1>6. ASSUME NEW p \in Pools, DeleteUserPool(p) PROVE UserPoolsInv'
  <2>1. /\ DOMAIN upPools' = DOMAIN upPools \ {p}
        /\ \A q \in DOMAIN upPools' : upPools'[q] = upPools[q]
        /\ \A m \in DOMAIN upUsers' :
              m \in DOMAIN upUsers /\ upUsers'[m] = upUsers[m] /\ upUsers[m].pool # p
        /\ \A a \in DOMAIN upClients' :
              a \in DOMAIN upClients /\ upClients'[a] = upClients[a] /\ upClients[a] # p
        /\ UNCHANGED upMade
    BY <1>6 DEF DeleteUserPool, Without, Restrict, ClientsOf, Members
  <2> QED
    BY <2>1 DEF UserPoolsInv, DomainOfOnePool, Kind
<1>7. ASSUME NEW p \in Pools, NEW d \in Domains, CreateDomain(p, d) PROVE UserPoolsInv'
  <2>1. /\ p \in DOMAIN upPools /\ upPools' = [upPools EXCEPT ![p].domain = d]
        /\ \A r \in DOMAIN upPools \ {p} : upPools[r].domain # d
        /\ UNCHANGED <<upClients, upUsers, upMade>>
    BY <1>7 DEF CreateDomain, DomainFree
  <2> QED
    BY <2>1, DomainSet DEF UserPoolsInv
<1>8. ASSUME NEW p \in Pools, DeleteDomain(p) PROVE UserPoolsInv'
  <2>1. /\ p \in DOMAIN upPools /\ upPools' = [upPools EXCEPT ![p].domain = None]
        /\ UNCHANGED <<upClients, upUsers, upMade>>
    BY <1>8 DEF DeleteDomain
  <2> QED
    BY <2>1, DomainSet DEF UserPoolsInv
<1>9. ASSUME NEW p \in Pools, NEW a \in PoolClients, CreateClient(p, a) PROVE UserPoolsInv'
  BY <1>9 DEF CreateClient, Entry, UserPoolsInv, DomainOfOnePool, Kind
<1>10. ASSUME NEW a \in PoolClients, DeletePoolClient(a) PROVE UserPoolsInv'
  BY <1>10 DEF DeletePoolClient, Without, Restrict, UserPoolsInv, DomainOfOnePool, Kind
<1>11. ASSUME NEW p \in Pools, NEW kind \in Kinds, NEW d \in Domains, NEW a \in PoolClients,
              Seed(p, kind, d, a)
       PROVE  UserPoolsInv'
  <2> DEFINE old == p \in DOMAIN upPools
             row == IF old THEN upPools[p] ELSE [kind |-> kind, domain |-> None]
             free == row.domain = None /\ \A r \in DOMAIN upPools : upPools[r].domain # d
             new == IF free THEN [row EXCEPT !.domain = d] ELSE row
  <2>1. /\ upPools' = Entry(upPools, p, new)
        /\ upClients' = Entry(upClients, a, p)
        /\ UNCHANGED <<upUsers, upMade>>
    BY <1>11 DEF Seed
  <2>2. row \in PoolRows /\ (old => row = upPools[p]) /\ (~old => row.domain = None)
    BY DEF PoolRows, UserPoolsInv
  <2>3. /\ new \in PoolRows /\ new.kind = row.kind
        /\ \/ new.domain = row.domain
           \/ /\ new.domain = d
              /\ \A r \in DOMAIN upPools : upPools[r].domain # d
    <3> HIDE DEF row
    <3>1. CASE free
      <4>1. new = [row EXCEPT !.domain = d]
        BY <3>1
      <4>2. [row EXCEPT !.domain = d] \in PoolRows /\ [row EXCEPT !.domain = d].kind = row.kind
            /\ [row EXCEPT !.domain = d].domain = d
        BY <2>2 DEF PoolRows
      <4> QED
        BY <3>1, <4>1, <4>2
    <3>2. CASE ~free
      BY <2>2, <3>2
    <3> QED
      BY <3>1, <3>2
  <2> HIDE DEF row, new
  <2>4. /\ DOMAIN upPools' = DOMAIN upPools \cup {p} /\ upPools'[p] = new
        /\ \A q \in DOMAIN upPools \ {p} : upPools'[q] = upPools[q]
        /\ DOMAIN upClients' = DOMAIN upClients \cup {a} /\ upClients'[a] = p
        /\ \A b \in DOMAIN upClients \ {a} : upClients'[b] = upClients[b]
    BY <2>1 DEF Entry
  <2>5. \A q \in DOMAIN upPools : Kind(q)' = Kind(q)
    BY <2>2, <2>3, <2>4 DEF Kind
  <2>6. DomainOfOnePool'
    BY <2>2, <2>3, <2>4 DEF UserPoolsInv, DomainOfOnePool
  <2> QED
    BY <2>1, <2>3, <2>4, <2>5, <2>6 DEF UserPoolsInv
<1>12. CASE UNCHANGED upVars
  BY <1>12 DEF upVars, UserPoolsInv, DomainOfOnePool, Kind
<1> QED
  BY <1>1, <1>2, <1>3, <1>4, <1>5, <1>6, <1>7, <1>8, <1>9, <1>10, <1>11, <1>12
  DEF UserPoolsNext, MemberRequest, DirectoryRequest

\* Logins lead to users, domains to pools, and the id of a pool to nothing of a former one,
\* whatever is made, renamed and removed.
THEOREM DirectoryIsSound == UserPoolsSpec => DirectorySound
<1>1. UserPoolsInv /\ UserPoolsInv' => FoundByLogin' /\ DomainOfOnePool' /\ HavePool
  <2>1. UserPoolsInv => HavePool
    BY DEF UserPoolsInv, HavePool, Members
  <2>2. UserPoolsInv' => FoundByLogin'
    BY LoginsFound, PTL
  <2>3. UserPoolsInv' => DomainOfOnePool'
    BY DEF UserPoolsInv
  <2> QED
    BY <2>1, <2>2, <2>3
<1>2. UserPoolsInv /\ [UserPoolsNext]_upVars =>
         UserPoolsInv' /\ [FoundByLogin' /\ DomainOfOnePool' /\ HavePool]_upVars
  BY <1>1, UserPoolsInvNext
<1> QED
  BY <1>2, UserPoolsInvInit, PTL DEF UserPoolsSpec, DirectorySound
====
