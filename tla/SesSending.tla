----------------------------- MODULE SesSending -----------------------------
(***************************************************************************)
(* SES: the sending pipeline, src/src/aws/ses/sending.rs, with the         *)
(* account, the suppression list, configuration sets and event             *)
(* destinations of service.rs.  Every check of send_email is a call of its *)
(* own, and so is every event it records and publishes afterwards.         *)
(*                                                                         *)
(* Addresses are sets of their own here: Plain ones, and those of the      *)
(* mailbox simulator, whose name is their outcome.  configuration_set is   *)
(* that of the request or of the identity.  MAIL FROM is left out.  No     *)
(* statement of the database fails; publish_internal of SNS may.           *)
(***************************************************************************)
EXTENDS SesIdentities, Sequences, SequencesExt

CONSTANTS
    Sender, Plain,     \* an address that sends, addresses that receive
    Candidates,        \* address -> the identities that may verify it, in order
    RecipientSets,     \* bound: sets of recipients of a request
    ConfigurationSet,  \* the only one
    Destinations,      \* names of event destinations
    TypeSets,          \* bound: the MatchingEventTypes in use
    MaxMails,          \* bound: how many mails are ever stored
    MaxChanges,        \* bound: how many changes are made besides
    MaxLost            \* bound: how many publishes fail

ASSUME SesSendingConstants ==
    MaxMails \in Nat /\ MaxChanges \in Nat /\ MaxLost \in Nat /\ RecipientSets \subseteq SUBSET (Plain \cup
        {"bounce", "suppressionlist", "complaint", "ooto", "delay", "reject", "success"})

VARIABLES
    sesAccount,     \* sending_enabled, production_access_enabled; strict_verification
    sesSuppressed,  \* table ses_suppressed_destinations
    sesSet,         \* whether the configuration set exists
    sesDests,       \* table ses_event_destinations: name -> row
    sesSend,        \* what the SendEmail, or the request on a destination, of each client holds
    sesMails,       \* tables ses_messages and ses_events: number -> message; history: steady
    sesInbox,       \* what was captured in the mailbox
    sesTopics,      \* history: what was published: <<message, event, destination>>
    sesLost,        \* history: what could not be published, in the same form
    sesChanges,     \* how many changes were made
    sesStray        \* history: destinations written for a set that was deleted meanwhile,
                    \* or left by a crash in its deletion

sesSendVars == <<sesAccount, sesSuppressed, sesSet, sesDests, sesSend, sesMails, sesInbox,
                 sesTopics, sesLost, sesChanges, sesStray>>

\* A definition: sns tells whether it has a topic of SNS, the only kind that is served.
DestinationRows == [enabled : BOOLEAN, types : TypeSets, sns : BOOLEAN]

MailGo(c, r) == sesSend' = [sesSend EXCEPT ![c] = r]

-----------------------------------------------------------------------------
(* Account, suppression list, configuration sets and event destinations *)

\* set_account of control.rs; PutAccountSendingAttributes.
SetAccount(sending, production) ==
    /\ sesAccount' = [sesAccount EXCEPT !.sending = sending, !.production = production]
    /\ sesAccount' # sesAccount
    /\ UNCHANGED <<sesIdVars, sesSuppressed, sesSet, sesDests, sesSend, sesMails, sesInbox,
                   sesTopics, sesLost, sesStray>>

PutSuppressed(x, put) ==
    /\ sesSuppressed' = IF put THEN sesSuppressed \cup {x} ELSE sesSuppressed \ {x}
    /\ sesSuppressed' # sesSuppressed
    /\ UNCHANGED <<sesIdVars, sesAccount, sesSet, sesDests, sesSend, sesMails, sesInbox,
                   sesTopics, sesLost, sesStray>>

CreateConfigurationSet ==
    /\ ~sesSet /\ sesSet' = TRUE
    /\ UNCHANGED <<sesIdVars, sesAccount, sesSuppressed, sesDests, sesSend, sesMails, sesInbox,
                   sesTopics, sesLost, sesStray>>

\* History: the requests under way know that these destinations have changed.
Unsteady(names) ==
    [c \in SesClients |-> IF "steady" \in DOMAIN sesSend[c]
                          THEN [sesSend[c] EXCEPT !.steady = @ \ names] ELSE sesSend[c]]

\* Mutant: the event destinations of the set stay.
NoDestinations == {}

DestinationsOfSet == DOMAIN sesDests

DeleteConfigurationSet ==
    /\ sesSet /\ sesSet' = FALSE
    /\ sesDests' = Restrict(sesDests, DOMAIN sesDests \ DestinationsOfSet)
    /\ sesSend' = Unsteady(DOMAIN sesDests)
    /\ sesStray' = sesStray \cap DOMAIN sesDests'
    /\ UNCHANGED <<sesIdVars, sesAccount, sesSuppressed, sesMails, sesInbox, sesTopics, sesLost>>

\* A crash between its two statements leaves the destinations, and ends the requests.
CrashInDeleteConfigurationSet ==
    /\ sesSet /\ sesSet' = FALSE
    /\ sesStray' = sesStray \cup DOMAIN sesDests
    /\ sesSend' = [c \in SesClients |-> SesIdle]
    /\ sesReq' = [c \in SesClients |-> SesIdle]
    /\ UNCHANGED <<sesRule, sesIds, sesHour, sesMade, sesReads, sesForced, sesFree>>
    /\ UNCHANGED <<sesAccount, sesSuppressed, sesDests, sesMails, sesInbox, sesTopics, sesLost>>

\* create_event_destination and update_event_destination, one at a time (a bound):
\* what they look at first,
CheckDestination(c, d, row) ==
    /\ sesSend[c] = SesIdle
    /\ sesSet
    /\ \A b \in SesClients : sesSend[b].at # "destination"
    /\ MailGo(c, [at |-> "destination", name |-> d, row |-> row])
    /\ UNCHANGED <<sesIdVars, sesAccount, sesSuppressed, sesSet, sesDests, sesMails, sesInbox,
                   sesTopics, sesLost, sesStray>>

\* and the upsert, whether or not the set is still there.
WriteDestination(c) ==
    LET r == sesSend[c] IN
    /\ r.at = "destination"
    /\ sesDests' = Put(sesDests, r.name, r.row)
    /\ sesSend' = [Unsteady({r.name}) EXCEPT ![c] = SesIdle]
    /\ sesStray' = IF sesSet THEN sesStray \ {r.name} ELSE sesStray \cup {r.name}
    /\ UNCHANGED <<sesIdVars, sesAccount, sesSuppressed, sesSet, sesMails, sesInbox, sesTopics, sesLost>>

DeleteDestination(d) ==
    /\ sesSet /\ d \in DOMAIN sesDests
    /\ sesDests' = Restrict(sesDests, DOMAIN sesDests \ {d})
    /\ sesSend' = Unsteady({d})
    /\ sesStray' = sesStray \ {d}
    /\ UNCHANGED <<sesIdVars, sesAccount, sesSuppressed, sesSet, sesMails, sesInbox, sesTopics, sesLost>>

-----------------------------------------------------------------------------
(* send_email: the checks *)

\* The requests that have not stored their message.
Unstored == {d \in SesClients : sesSend[d].at \in {"verify", "set", "ask"}}

\* account, and the addresses that have to be verified: the sender's, in the sandbox
\* also the recipients'.
SendEmail(c, rcpts, cs, feedback) ==
    LET verify == IF sesAccount.production THEN <<Sender>>
                  ELSE <<Sender>> \o SetToSeq(rcpts \cap Plain)
    IN  /\ sesSend[c] = SesIdle /\ sesReq[c] = SesIdle
        /\ Cardinality(DOMAIN sesMails) + Cardinality(Unstored) < MaxMails
        /\ sesAccount.sending
        /\ rcpts # {}
        /\ MailGo(c, [at |-> "verify", rcpts |-> rcpts, cs |-> cs, feedback |-> feedback,
                      verify |-> verify, candidates |-> Candidates[Sender],
                      ask |-> rcpts \cap Plain, suppressed |-> {}, steady |-> DOMAIN sesDests])
        /\ UNCHANGED <<sesIdVars, sesAccount, sesSuppressed, sesSet, sesDests, sesMails, sesInbox,
                       sesTopics, sesLost, sesChanges, sesStray>>

\* The next address, or the next check.
NextAddress(r) ==
    IF Len(r.verify) = 1 THEN [r EXCEPT !.at = "set"]
    ELSE [r EXCEPT !.verify = Tail(@), !.candidates = Candidates[r.verify[2]]]

\* sending_identity: the candidates one after the other,
TryCandidate(c) ==
    LET r == sesSend[c] IN
    /\ r.at = "verify" /\ r.candidates # <<>> /\ sesReq[c] = SesIdle
    /\ \/ /\ Head(r.candidates) \in DOMAIN sesIds
          /\ LoadIdentity(c, Head(r.candidates), "send")
          /\ UNCHANGED sesSend
       \/ /\ Head(r.candidates) \notin DOMAIN sesIds
          /\ MailGo(c, [r EXCEPT !.candidates = Tail(@)])
          /\ UNCHANGED sesIdVars
    /\ UNCHANGED <<sesAccount, sesSuppressed, sesSet, sesDests, sesMails, sesInbox, sesTopics, sesLost,
                   sesChanges, sesStray>>

\* until one is verified;
CandidateLoaded(c) ==
    LET r == sesSend[c] IN
    /\ r.at = "verify" /\ sesReq[c].at = "loaded"
    /\ MailGo(c, IF sesReq[c].row.verification.status = "SUCCESS" THEN NextAddress(r)
                 ELSE [r EXCEPT !.candidates = Tail(@)])
    /\ SesGo(c, SesIdle)
    /\ UNCHANGED <<sesRule, sesIds, sesHour, sesMade, sesReads, sesForced, sesFree>>
    /\ UNCHANGED <<sesAccount, sesSuppressed, sesSet, sesDests, sesMails, sesInbox, sesTopics, sesLost,
                   sesChanges, sesStray>>

\* without one the message is refused, unless it is the sender and nobody is strict.
NoCandidate(c) ==
    LET r == sesSend[c] IN
    /\ r.at = "verify" /\ r.candidates = <<>>
    /\ MailGo(c, IF Head(r.verify) = Sender /\ ~sesAccount.strict THEN NextAddress(r) ELSE SesIdle)
    /\ UNCHANGED <<sesIdVars, sesAccount, sesSuppressed, sesSet, sesDests, sesMails, sesInbox,
                   sesTopics, sesLost, sesChanges, sesStray>>

\* require_configuration_set.  After it, an identity whose MAIL FROM domain is not
\* verified may ask for the message to be refused (REJECT_MESSAGE).
RequireSet(c) ==
    LET r == sesSend[c] IN
    /\ r.at = "set"
    /\ \/ (r.cs = None \/ sesSet) /\ MailGo(c, [r EXCEPT !.at = "ask"])
       \/ MailGo(c, SesIdle)
    /\ UNCHANGED <<sesIdVars, sesAccount, sesSuppressed, sesSet, sesDests, sesMails, sesInbox,
                   sesTopics, sesLost, sesChanges, sesStray>>

\* get_suppressed, for each recipient that is not the simulator.
AskSuppressed(c, x) ==
    LET r == sesSend[c] IN
    /\ r.at = "ask" /\ x \in r.ask
    /\ MailGo(c, [r EXCEPT !.ask = @ \ {x},
                           !.suppressed = IF x \in sesSuppressed THEN @ \cup {x} ELSE @])
    /\ UNCHANGED <<sesIdVars, sesAccount, sesSuppressed, sesSet, sesDests, sesMails, sesInbox,
                   sesTopics, sesLost, sesChanges, sesStray>>

-----------------------------------------------------------------------------
(* send_email: the outcomes *)

\* simulator_outcome and the suppression list; bounces by bounceSubType.
Outcome(r, x) ==
    CASE x = "bounce" -> "General" [] x = "suppressionlist" -> "Suppressed"
      [] x \in r.suppressed -> "OnAccountSuppressionList"
      [] x = "complaint" -> "Complaint" [] x = "ooto" -> "OutOfOffice" [] x = "delay" -> "Delayed"
      [] OTHER -> "Delivered"

SubTypes == {"General", "Suppressed", "OnAccountSuppressionList"}
Rejected(r) == "reject" \in r.rcpts
WithOutcome(r, outcomes) == {x \in r.rcpts : Outcome(r, x) \in outcomes}

\* recipient_status
RecipientStatus(r) ==
    [x \in r.rcpts |->
        IF Rejected(r) THEN "rejected"
        ELSE CASE Outcome(r, x) \in SubTypes -> "bounced" [] Outcome(r, x) = "Delayed" -> "delayed"
               [] Outcome(r, x) = "Complaint" -> "complained" [] OTHER -> "delivered"]

\* Mutant: who complains did not get the mail.
DeliveredWithout(r) == WithOutcome(r, {"Delivered", "OutOfOffice"})

\* A complaint is about a message that was delivered.
DeliveredTo(r) == WithOutcome(r, {"Delivered", "OutOfOffice", "Complaint"})

\* Its events in the order in which they are published: type and recipients.
Events(r) ==
    LET Event(type, rcpts) == IF rcpts = {} THEN <<>> ELSE <<[type |-> type, rcpts |-> rcpts]>>
        Bounce(sub) == Event("Bounce", WithOutcome(r, {sub}))
    IN  <<[type |-> "Send", rcpts |-> {}]>> \o
        IF Rejected(r) THEN <<[type |-> "Reject", rcpts |-> {}]>>
        ELSE Event("Delivery", DeliveredTo(r))
             \o Bounce("General") \o Bounce("OnAccountSuppressionList") \o Bounce("Suppressed")
             \o Event("Complaint", WithOutcome(r, {"Complaint"})) \o Event("DeliveryDelay", WithOutcome(r, {"Delayed"}))

DeliversAny(r) == ~Rejected(r) /\ \E x \in r.rcpts : Outcome(r, x) \notin SubTypes

\* store_message
StoreMessage(c) ==
    LET r == sesSend[c]
        m == Cardinality(DOMAIN sesMails) + 1 IN
    /\ r.at = "ask" /\ r.ask = {}
    /\ sesMails' = Put(sesMails, m, [status |-> RecipientStatus(r), log |-> <<>>, done |-> FALSE,
                                     cs |-> r.cs, feedback |-> r.feedback, steady |-> <<>>])
    /\ MailGo(c, [at |-> "capture", id |-> m, deliver |-> DeliversAny(r), events |-> Events(r),
                  replies |-> IF Rejected(r) THEN {} ELSE WithOutcome(r, {"OutOfOffice"}),
                  steady |-> r.steady, to |-> {}])
    /\ UNCHANGED <<sesIdVars, sesAccount, sesSuppressed, sesSet, sesDests, sesInbox, sesTopics, sesLost,
                   sesChanges, sesStray>>

\* The copy in the mailbox.
CaptureCopy(c) ==
    LET r == sesSend[c] IN
    /\ r.at = "capture"
    /\ sesInbox' = IF r.deliver THEN sesInbox \cup {<<"copy", r.id>>} ELSE sesInbox
    /\ MailGo(c, [r EXCEPT !.at = "record"])
    /\ UNCHANGED <<sesIdVars, sesAccount, sesSuppressed, sesSet, sesDests, sesMails, sesTopics, sesLost, sesChanges, sesStray>>

-----------------------------------------------------------------------------
(* publish_event *)

\* record_event; without a configuration set that is all.
RecordEvent(c) ==
    LET r == sesSend[c] IN
    /\ r.at = "record" /\ r.events # <<>>
    /\ sesMails' = [sesMails EXCEPT ![r.id].log = Append(@, Head(r.events))]
    /\ MailGo(c, [r EXCEPT !.at = IF sesMails[r.id].cs = None THEN "publish" ELSE "destinations"])
    /\ UNCHANGED <<sesIdVars, sesAccount, sesSuppressed, sesSet, sesDests, sesInbox, sesTopics, sesLost, sesChanges, sesStray>>

\* The destinations that publish_event serves, of those that ask for the event.
Wants(row, type) == row.enabled /\ type \in row.types /\ row.sns

\* Mutant: an event goes to the first destination that wants it.
MatchingOne(type) ==
    LET all == {d \in DOMAIN sesDests : Wants(sesDests[d], type)}
    IN  IF all = {} THEN {} ELSE {CHOOSE d \in all : TRUE}

Matching(type) == {d \in DOMAIN sesDests : Wants(sesDests[d], type)}

\* event_destinations
ReadDestinations(c) ==
    LET r == sesSend[c] IN
    /\ r.at = "destinations"
    /\ MailGo(c, [r EXCEPT !.at = "publish", !.to = Matching(Head(r.events).type)])
    /\ UNCHANGED <<sesIdVars, sesAccount, sesSuppressed, sesSet, sesDests, sesMails, sesInbox,
                   sesTopics, sesLost, sesChanges, sesStray>>

\* Mutant: a publish that fails ends publish_event.
GivesUp(to, d) == {}

\* A publish that fails is only warned about; the next destination has its turn.
AfterFailure(to, d) == to \ {d}

\* publish_internal of SNS, for one destination after the other; it fails when the topic is
\* gone, for one.
PublishTo(c, d) ==
    LET r == sesSend[c]
        publish == <<r.id, Len(sesMails[r.id].log), d>> IN
    /\ r.at = "publish" /\ d \in r.to
    /\ \/ /\ sesTopics' = sesTopics \cup {publish} /\ UNCHANGED sesLost
          /\ MailGo(c, [r EXCEPT !.to = @ \ {d}])
       \/ /\ Cardinality(sesLost) < MaxLost
          /\ sesLost' = sesLost \cup {publish} /\ UNCHANGED sesTopics
          /\ MailGo(c, [r EXCEPT !.to = AfterFailure(@, d)])
    /\ UNCHANGED <<sesIdVars, sesAccount, sesSuppressed, sesSet, sesDests, sesMails, sesInbox, sesChanges, sesStray>>

\* forward_feedback, after a bounce or a complaint.
EventPublished(c) ==
    LET r == sesSend[c] IN
    /\ r.at = "publish" /\ r.to = {}
    /\ sesInbox' = IF Head(r.events).type \in {"Bounce", "Complaint"} /\ sesMails[r.id].feedback
                   THEN sesInbox \cup {<<"feedback", r.id, Len(sesMails[r.id].log)>>} ELSE sesInbox
    /\ MailGo(c, [r EXCEPT !.at = "record", !.events = Tail(@)])
    /\ UNCHANGED <<sesIdVars, sesAccount, sesSuppressed, sesSet, sesDests, sesMails, sesTopics, sesLost, sesChanges, sesStray>>

\* send_auto_reply, and the answer to the client.
FinishSend(c) ==
    LET r == sesSend[c] IN
    /\ r.at = "record" /\ r.events = <<>>
    /\ sesInbox' = sesInbox \cup {<<"reply", r.id, x>> : x \in r.replies}
    /\ sesMails' = [sesMails EXCEPT ![r.id].done = TRUE, ![r.id].steady = Restrict(sesDests, r.steady)]
    /\ MailGo(c, SesIdle)
    /\ UNCHANGED <<sesIdVars, sesAccount, sesSuppressed, sesSet, sesDests, sesTopics, sesLost, sesChanges, sesStray>>

\* A crash ends the requests where they are.
CrashSending ==
    /\ \E c \in SesClients : sesSend[c] # SesIdle
    /\ sesSend' = [c \in SesClients |-> SesIdle]
    /\ sesReq' = [c \in SesClients |-> SesIdle]
    /\ UNCHANGED <<sesRule, sesIds, sesHour, sesMade, sesReads, sesForced, sesFree>>
    /\ UNCHANGED <<sesAccount, sesSuppressed, sesSet, sesDests, sesMails, sesInbox, sesTopics, sesLost, sesChanges, sesStray>>

SesSendingInit ==
    /\ sesAccount \in [sending : {TRUE}, production : BOOLEAN, strict : BOOLEAN]
    /\ sesSuppressed = {}
    /\ \/ sesSet = FALSE /\ sesDests = <<>>
       \/ sesSet = TRUE /\ \E used \in SUBSET Destinations : sesDests \in [used -> DestinationRows]
    /\ sesSend = [c \in SesClients |-> SesIdle]
    /\ sesChanges = 0 /\ sesMails = <<>> /\ sesInbox = {}
    /\ sesTopics = {} /\ sesLost = {} /\ sesStray = {}

Send(c) ==
    \/ TryCandidate(c) \/ CandidateLoaded(c) \/ NoCandidate(c) \/ RequireSet(c)
    \/ (sesReq[c].at = "refresh" /\ RefreshIdentity(c) /\ UNCHANGED sesSendVars)
    \/ \E x \in Plain : AskSuppressed(c, x)
    \/ StoreMessage(c) \/ CaptureCopy(c) \/ RecordEvent(c) \/ ReadDestinations(c)
    \/ \E d \in Destinations : PublishTo(c, d)
    \/ EventPublished(c) \/ FinishSend(c)
    \/ \E rcpts \in RecipientSets, cs \in {None, ConfigurationSet}, feedback \in BOOLEAN :
          SendEmail(c, rcpts, cs, feedback)

\* A destination counts as a change when it is written, whatever happened since it was
\* looked for.
Administer ==
    \/ /\ sesChanges < MaxChanges
       /\ sesChanges' = sesChanges + 1
       /\ \/ \E sending, production \in BOOLEAN : SetAccount(sending, production)
          \/ \E x \in Plain, put \in BOOLEAN : PutSuppressed(x, put)
          \/ CreateConfigurationSet \/ DeleteConfigurationSet \/ CrashInDeleteConfigurationSet
          \/ \E d \in Destinations : DeleteDestination(d)
    \/ /\ sesChanges < MaxChanges /\ UNCHANGED sesChanges
       /\ \E c \in SesClients, d \in Destinations, row \in DestinationRows :
              CheckDestination(c, d, row)
    \/ /\ sesChanges' = IF sesChanges < MaxChanges THEN sesChanges + 1 ELSE sesChanges
       /\ \E c \in SesClients : WriteDestination(c)

SesSendingNext == CrashSending \/ Administer \/ \E c \in SesClients : Send(c)

\* Identities and sending together.
SesNext == (SesIdentitiesNext /\ UNCHANGED sesSendVars) \/ SesSendingNext

SesSpec == SesIdentitiesInit /\ SesSendingInit /\ [][SesNext]_<<sesIdVars, sesSendVars>>

-----------------------------------------------------------------------------
(* Properties *)

Logged(m, type) == UNION {m.log[n].rcpts : n \in {k \in DOMAIN m.log : m.log[k].type = type}}
Having(m, statuses) == {x \in DOMAIN m.status : m.status[x] \in statuses}

\* What SendEmail stored of a message, the events it published and what it left in the
\* mailbox tell the same story: every recipient had exactly one of Delivery, Bounce and
\* DeliveryDelay, that of its stored status, a rejected message had none; there is a copy
\* unless all bounced, and feedback for each bounce and complaint.
SentConsistently ==
    \A i \in DOMAIN sesMails :
        LET m == sesMails[i] IN
        m.done =>
            /\ m.log[1].type = "Send"
            /\ Logged(m, "Delivery") = Having(m, {"delivered", "complained"})
            /\ Logged(m, "Complaint") = Having(m, {"complained"})
            /\ Logged(m, "Bounce") = Having(m, {"bounced"})
            /\ Logged(m, "DeliveryDelay") = Having(m, {"delayed"})
            /\ (\E n \in DOMAIN m.log : m.log[n].type = "Reject") = (Having(m, {"rejected"}) # {})
            /\ (<<"copy", i>> \in sesInbox) = (Having(m, {"delivered", "complained", "delayed"}) # {})
            /\ \A n \in DOMAIN m.log : (<<"feedback", i, n>> \in sesInbox) =
                  (m.feedback /\ m.log[n].type \in {"Bounce", "Complaint"})

\* What SES has tried to publish.
Tried == sesTopics \cup sesLost

\* An event destination that was there, unchanged, throughout a SendEmail was served with
\* every event of the message that it matches, and no other, whatever happened to the other
\* destinations, to the set and to the publishes before: it was published to, unless just
\* that publish failed.  One without an SNS topic is never served.
PublishedToMatching ==
    \A i \in DOMAIN sesMails :
        LET m == sesMails[i] IN
        m.done /\ m.cs # None => \A d \in DOMAIN m.steady, n \in DOMAIN m.log :
            (<<i, n, d>> \in Tried) =
                (m.steady[d].enabled /\ m.steady[d].sns /\ m.log[n].type \in m.steady[d].types)

\* An event destination without its configuration set was written by a request that
\* overlapped the deletion of the set, or left by a crash in the middle of that deletion.
DestinationsHaveSet == sesSet \/ DOMAIN sesDests \subseteq sesStray

\* The records of a send agree with one another and reached whom they concern.
SendsTraced == SentConsistently /\ PublishedToMatching /\ DestinationsHaveSet
=============================================================================
