-------------------------------- MODULE Smtp --------------------------------
(***************************************************************************)
(* The SMTP listener of the mailbox, src/src/mailbox/smtp.rs: a session    *)
(* reads commands, and after DATA the lines of a message, which it hands   *)
(* to the receipt rules of SES and to the inbox (module ReceiptRules).     *)
(*                                                                         *)
(* The client of the session is part of the model: it has a message in     *)
(* mind, doubles a leading dot on the wire as RFC 5321 asks, and may close *)
(* the connection anywhere.  A line is the sequence of its characters, and *)
(* takes one more for its end.  EHLO, NOOP, VRFY and what is not           *)
(* recognised are answered without an effect.                              *)
(***************************************************************************)
EXTENDS Integers, Sequences, FiniteSets, ServiceConstants

CONSTANTS
    Mailboxes,       \* addresses
    Texts,           \* bound: the messages that clients have in mind
    MAX_MESSAGE,     \* in characters
    MaxCommands      \* bound: commands of a session

ASSUME SmtpConstants ==
    /\ MAX_MESSAGE \in Nat /\ MaxCommands \in Nat
    /\ Texts \subseteq Seq(Seq({".", "a"}))

VARIABLES
    smtpAt,        \* what the session does: "command", "data", "deliver", "closed"
    smtpRcpts,     \* rcpts
    smtpData,      \* data and overflow of read_data; history: whether it was cut off
    smtpClient,    \* the client: the message it has in mind, what is left to send of it
    smtpLog,       \* history: the commands of the session, with their answers
    smtpMails      \* what was delivered, with the answer the client got

smtpVars == <<smtpAt, smtpRcpts, smtpData, smtpClient, smtpLog, smtpMails>>

Fresh == [lines |-> <<>>, size |-> 0, overflow |-> FALSE, cut |-> FALSE]

-----------------------------------------------------------------------------
(* handle_session *)

Command(name) ==
    /\ smtpAt = "command" /\ Len(smtpLog) < MaxCommands
    /\ smtpLog' = Append(smtpLog, name)

\* Mutant: a transaction that starts keeps the recipients of the one before.
KeptRcpts == smtpRcpts

NoRcpts == <<>>

MailFrom ==
    /\ Command(<<"MAIL">>) /\ smtpRcpts' = NoRcpts
    /\ UNCHANGED <<smtpAt, smtpData, smtpClient, smtpMails>>

RcptTo(x) ==
    /\ Command(<<"RCPT", x>>) /\ smtpRcpts' = Append(smtpRcpts, x)
    /\ UNCHANGED <<smtpAt, smtpData, smtpClient, smtpMails>>

Rset ==
    /\ Command(<<"RSET">>) /\ smtpRcpts' = NoRcpts
    /\ UNCHANGED <<smtpAt, smtpData, smtpClient, smtpMails>>

\* DATA without a recipient is refused: the client does not go on then.
DataRefused ==
    /\ Command(<<"REFUSED">>) /\ smtpRcpts = <<>>
    /\ UNCHANGED <<smtpAt, smtpRcpts, smtpData, smtpClient, smtpMails>>

Data(text) ==
    /\ Command(<<"DATA">>) /\ smtpRcpts # <<>>
    /\ smtpAt' = "data" /\ smtpData' = Fresh
    /\ smtpClient' = [text |-> text, left |-> text]
    /\ UNCHANGED <<smtpRcpts, smtpMails>>

\* QUIT, or the end of the connection between two commands.
Quit ==
    /\ smtpAt = "command" /\ smtpAt' = "closed"
    /\ UNCHANGED <<smtpRcpts, smtpData, smtpClient, smtpLog, smtpMails>>

-----------------------------------------------------------------------------
(* read_data *)

\* The client: a leading dot is doubled.
Stuffed(line) == IF line # <<>> /\ line[1] = "." THEN <<".">> \o line ELSE line

\* Of a doubled leading dot one is taken off.
Unstuffed(line) == IF Len(line) >= 2 /\ line[1] = "." /\ line[2] = "." THEN Tail(line) ELSE line

\* Mutant: the end is looked for after the dot is taken off.
EndsLate(line) == Unstuffed(line) = <<".">>

Ends(line) == line = <<".">>

\* data with one more line; once over the limit, nothing more is kept.
Extended(d, line) ==
    LET size == d.size + Len(line) + 1
    IN  IF d.overflow THEN d
        ELSE IF size > MAX_MESSAGE THEN [d EXCEPT !.overflow = TRUE]
        ELSE [d EXCEPT !.lines = Append(@, line), !.size = size]

\* The next line on the wire: one of the message, or the dot that ends it.
ReadLine ==
    LET ends == smtpClient.left = <<>>
        wire == IF ends THEN <<".">> ELSE Stuffed(Head(smtpClient.left))
    IN  /\ smtpAt = "data"
        /\ smtpClient' = IF ends THEN smtpClient ELSE [smtpClient EXCEPT !.left = Tail(@)]
        /\ smtpAt' = IF Ends(wire) THEN "deliver" ELSE "data"
        /\ smtpData' = IF Ends(wire) THEN smtpData ELSE Extended(smtpData, Unstuffed(wire))
        /\ UNCHANGED <<smtpRcpts, smtpLog, smtpMails>>

\* The connection ends: what was read is the message.
CutOff ==
    /\ smtpAt = "data"
    /\ smtpAt' = "deliver" /\ smtpData' = [smtpData EXCEPT !.cut = TRUE]
    /\ UNCHANGED <<smtpRcpts, smtpClient, smtpLog, smtpMails>>

\* The answer; the recipients go with the message, whatever came of it.
Answer(mails) ==
    /\ smtpAt = "deliver"
    /\ smtpMails' = mails
    /\ smtpRcpts' = NoRcpts /\ smtpData' = Fresh
    /\ smtpAt' = IF smtpData.cut THEN "closed" ELSE "command"
    /\ UNCHANGED <<smtpClient, smtpLog>>

Mail(answer) ==
    [rcpts |-> smtpRcpts, lines |-> smtpData.lines, answer |-> answer, cut |-> smtpData.cut,
     text |-> smtpClient.text, log |-> smtpLog]

\* read_data found the message too big.
TooBig == smtpData.overflow /\ Answer(smtpMails \cup {Mail(552)})

\* deliver: the receipt rules and the capture of what they do not handle,
Deliver == ~smtpData.overflow /\ Answer(smtpMails \cup {Mail(250)})

\* or an error, for instance of a rule set that is deleted meanwhile.
DeliveryFails == ~smtpData.overflow /\ Answer(smtpMails)

SmtpInit ==
    /\ smtpAt = "command" /\ smtpRcpts = <<>> /\ smtpData = Fresh
    /\ smtpClient = [text |-> <<>>, left |-> <<>>]
    /\ smtpLog = <<>> /\ smtpMails = {}

SmtpNext ==
    \/ MailFrom \/ Rset \/ DataRefused \/ Quit \/ ReadLine \/ CutOff
    \/ \E x \in Mailboxes : RcptTo(x)
    \/ \E text \in Texts : Data(text)
    \/ TooBig \/ Deliver \/ DeliveryFails

SmtpSpec == SmtpInit /\ [][SmtpNext]_smtpVars

-----------------------------------------------------------------------------
(* Properties *)

\* The commands before the last that named a recipient after the last MAIL, RSET or message.
Naming(log) ==
    {n \in 1..Len(log) - 1 : log[n][1] = "RCPT"
        /\ \A k \in n..Len(log) - 1 : log[k][1] \notin {"MAIL", "RSET", "DATA"}}

\* A message goes to the recipients that its own transaction named, each as often as it
\* was named and in that order, whatever transactions went before in the session,
\* completed, refused, failed or given up.
EnvelopesExact ==
    \A m \in smtpMails :
        LET naming == Naming(m.log) IN
        /\ Len(m.rcpts) = Cardinality(naming)
        /\ \A n \in naming : m.rcpts[Cardinality({k \in naming : k <= n})] = m.log[n][2]

\* The characters of a text, with the end of each line.
Characters(text) == UNION {{n} \X (0..Len(text[n])) : n \in DOMAIN text}

\* A message that the client sent to its end is refused as too big if and only if it is,
RefusedIfTooBig ==
    \A m \in smtpMails : ~m.cut =>
        (m.answer = 552) = (Cardinality(Characters(m.text)) > MAX_MESSAGE)

\* and otherwise stored as the client has it, whatever dots its lines start with: it is
\* never cut short, and never ends early.
StoredAsWritten == \A m \in smtpMails : ~m.cut /\ m.answer = 250 => m.lines = m.text

DeliveredWhole == RefusedIfTooBig /\ StoredAsWritten

\* A message reaches those it is for, as it was written.
MailExact == EnvelopesExact /\ DeliveredWhole
=============================================================================
