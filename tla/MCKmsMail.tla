------------------------------ MODULE MCKmsMail ------------------------------
(***************************************************************************)
(* KMS, and the parts of SES with the SMTP listener.  Each behaviour of    *)
(* this model is one of theirs: part says whose, the others stand still.   *)
(***************************************************************************)
EXTENDS Kms, SesSending, ReceiptRules, Smtp, TLC

CONSTANTS k2, sender, plain, domain, e1, e2

VARIABLE part

sesVars == <<sesIdVars, sesSendVars>>
vars == <<part, kmsVars, sesVars, rrVars, smtpVars>>

\* The sender is verified by itself or by its domain, the recipient by its domain.
MCCandidates == (sender :> <<sender, domain>>) @@ (plain :> <<domain>>)

MCRecipientSets ==
    {{plain, "delay", "complaint"}, {"bounce", "suppressionlist", "reject"}, {"bounce", "ooto"}}

MCRuleBodies ==
    {[enabled |-> TRUE, rcpts |-> {"x"}, stop |-> FALSE],
     [enabled |-> FALSE, rcpts |-> {}, stop |-> FALSE],
     [enabled |-> TRUE, rcpts |-> {}, stop |-> TRUE]}

\* Lines that start with dots, one that is a dot, an empty one; the fourth text is too big.
MCTexts ==
    {<<<<".">>, <<"a">>>>, <<<<".", "a">>, <<".", ".">>>>, <<<<"a", "a">>, <<"a">>, <<>>>>,
     <<<<".", ".", "a">>, <<"a">>, <<>>>>, <<>>}

ClientSymmetry == Permutations(KmsClients)

\* One client that may create two keys, or two clients and one key, or two clients and
\* the seeded key, which may be removed and seeded again.
KmsBounded ==
    /\ kmsKeys = <<>> /\ kmsAliases = <<>> /\ kmsBlobs = {}
    /\ kmsDue = [k \in KeyIds |-> {}] /\ kmsLoose = {}
    /\ \/ /\ kmsCreated = 0 /\ kmsUsed = {}
          /\ \E c \in KmsClients : kmsReq = [d \in KmsClients |-> IF d = c THEN Idle ELSE [at |-> "gone"]]
       \/ kmsCreated = 1 /\ kmsUsed = {} /\ kmsReq = [c \in KmsClients |-> Idle]
       \/ kmsCreated = 0 /\ kmsUsed = {k2} /\ kmsReq = [c \in KmsClients |-> Idle]

\* A seeded domain whose verification is due, or must be confirmed by hand; two event
\* destinations with a topic, that want the same events when senders are strict and else different
\* ones, or no configuration set.
SendingSeeded ==
    /\ sesRule \in {r \in Rules : r.mode \in {"delay", "manual"}}
    /\ sesHour = MaxHours /\ sesMade = 1 /\ sesFree = {}
    /\ sesReq = [c \in SesClients |-> SesIdle]
    /\ sesReads = [i \in Identities |-> 0] /\ sesForced = [i \in Identities |-> None]
    /\ sesIds = (domain :> [verification |-> Start(sesRule, 0), created |-> 1])
    /\ SesSendingInit
    /\ sesAccount.strict = (sesRule.mode = "delay") /\ sesAccount.production = ~sesAccount.strict
    /\ sesSet => DOMAIN sesDests = Destinations /\ "Send" \in sesDests[e1].types
                 /\ ("Send" \in sesDests[e2].types) = sesAccount.strict
                 /\ \A e \in Destinations : sesDests[e].enabled /\ sesDests[e].sns

\* The parts that stand still.
NoKms == KmsInit
NoSending ==
    /\ sesAccount = [sending |-> TRUE, production |-> TRUE, strict |-> FALSE]
    /\ sesSuppressed = {} /\ sesSet = FALSE /\ sesDests = <<>>
    /\ sesSend = [c \in SesClients |-> SesIdle]
    /\ sesChanges = 0 /\ sesMails = <<>> /\ sesInbox = {} /\ sesTopics = {} /\ sesLost = {}
    /\ sesStray = {}
NoIdentities ==
    /\ sesRule = [mode |-> "auto", outcome |-> "SUCCESS"]
    /\ sesIds = <<>> /\ sesHour = 0 /\ sesMade = 0 /\ sesFree = {}
    /\ sesReq = [c \in SesClients |-> SesIdle]
    /\ sesReads = [i \in Identities |-> 0] /\ sesForced = [i \in Identities |-> None]
NoRules ==
    /\ rrSets = <<>> /\ rrRules = [t \in RuleSets |-> <<>>] /\ rrOwed = [t \in RuleSets |-> {}]
    /\ rrReq = [c \in RuleClients |-> RuleIdle]
    /\ rrCount = 0 /\ rrMails = {} /\ rrStray = {}

Init ==
    /\ SmtpInit
    /\ \/ part = "kms" /\ KmsBounded /\ NoIdentities /\ NoSending /\ NoRules
       \/ part = "identities" /\ NoKms /\ SesIdentitiesInit /\ NoSending /\ NoRules
       \/ part = "sending" /\ NoKms /\ SendingSeeded /\ NoRules
       \/ part = "rules" /\ NoKms /\ NoIdentities /\ NoSending /\ ReceiptRulesInit
       \/ part = "smtp" /\ NoKms /\ NoIdentities /\ NoSending /\ NoRules

Next ==
    \/ part = "kms" /\ KmsNext /\ UNCHANGED <<part, sesVars, rrVars, smtpVars>>
    \/ part = "identities" /\ SesIdentitiesNext
       /\ UNCHANGED <<part, kmsVars, sesSendVars, rrVars, smtpVars>>
    \/ part = "sending" /\ SesSendingNext /\ UNCHANGED <<part, kmsVars, rrVars, smtpVars>>
    \/ part = "sending" /\ DeleteIdentity(domain)
       /\ UNCHANGED <<part, kmsVars, sesSendVars, rrVars, smtpVars>>
    \/ part = "rules" /\ ReceiptRulesNext /\ UNCHANGED <<part, kmsVars, sesVars, smtpVars>>
    \/ part = "smtp" /\ SmtpNext /\ UNCHANGED <<part, kmsVars, sesVars, rrVars>>

Spec == Init /\ [][Next]_vars
==============================================================================
