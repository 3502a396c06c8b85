----------------------------- MODULE ServiceBus -----------------------------
(***************************************************************************)
(* The Azure Service Bus emulation of CloudTwin:                           *)
(* src/src/azure/servicebus/service.rs and the handlers of handlers.rs     *)
(* over the tables asb_* of src/src/db.rs.                                 *)
(*                                                                         *)
(* Every operation is one closure on the connection's thread, hence one    *)
(* step, except receiving, whose handler first asks whether the queue or   *)
(* the subscription exists.                                                *)
(*                                                                         *)
(* A name is the sequence of its parts between colons, so that the name of *)
(* the virtual queue "topic:{topic}:sub:{subscription}" is a               *)
(* concatenation here as it is there.                                      *)
(***************************************************************************)
EXTENDS Integers, FiniteSets, Sequences, Functions

CONSTANTS
    Queues, Topics,                  \* names clients use
    Subscriptions,                   \* <<topic, name>> pairs of them
    Limits,                          \* values of ?limit=
    Receivers,                       \* concurrent receives
    None,                            \* no receive is being served
    MaxMessages, MaxReceives         \* bounds: messages sent, receives of each

VARIABLES
    queues,        \* table asb_queues
    topics,        \* table asb_topics
    subs,          \* table asb_subscriptions: <<topic, name>>
    messages,      \* table asb_messages: <<queue_name, message>> -> visible
    nextMessage,   \* the message ids drawn so far, numbered
    reqs,          \* the receives between their two calls
    known,         \* copies whose lock token some client was told
    made,          \* every copy ever inserted
    given,         \* how often each of them was received
    owed           \* copies nobody completed, with the queue or subscription
                   \* they were sent to

tables == <<queues, topics, subs, messages>>
vars == <<queues, topics, subs, messages, nextMessage, reqs, known, made, given, owed>>

ACTIVE == 1
LOCKED == 0
DEADLETTER == 2

ASSUME ServiceBusConstants ==
    /\ Queues \cup Topics \subseteq Seq(STRING) \ {<<>>}
    /\ Subscriptions \subseteq Topics \X (Seq(STRING) \ {<<>>})
    /\ None \notin Seq(STRING)
    /\ Limits \subseteq Nat \ {0}
    /\ MaxMessages \in Nat /\ MaxReceives \in Nat

-----------------------------------------------------------------------------
(* Names *)

\* Mutant: the prefix ends with the topic's name.
ShortPrefix(t) == <<"topic">> \o t

\* "topic:{topic}:sub:", what the virtual queues of a topic start with.
SubPrefix(t) == <<"topic">> \o t \o <<"sub">>

\* subscription_queue
SubscriptionQueue(t, s) == <<"topic">> \o t \o <<"sub">> \o s

\* substr(queue_name, 1, length(prefix)) = prefix, where prefix ends in a colon.
StartsWith(q, prefix) ==
    Len(q) > Len(prefix) /\ SubSeq(q, 1, Len(prefix)) = prefix

VirtualQueues == {SubscriptionQueue(p[1], p[2]) : p \in subs}

\* What a receive may name.
Existing == queues \cup VirtualQueues

-----------------------------------------------------------------------------
(* Queues, topics and subscriptions.  Creating what exists changes nothing. *)

CreateQueue(q) ==
    /\ q \notin queues
    /\ queues' = queues \cup {q}
    /\ UNCHANGED <<topics, subs, messages, nextMessage, reqs, known, made, given, owed>>

\* The messages go even when no such queue was there, and the answer is 404.
DeleteQueue(q) ==
    /\ queues' = queues \ {q}
    /\ messages' = Restrict(messages, {m \in DOMAIN messages : m[1] # q})
    /\ owed' = {o \in owed : o.home # <<q>>}
    /\ UNCHANGED <<topics, subs, nextMessage, reqs, known, made, given>>

CreateTopic(t) ==
    /\ t \notin topics
    /\ topics' = topics \cup {t}
    /\ UNCHANGED <<queues, subs, messages, nextMessage, reqs, known, made, given, owed>>

DeleteTopic(t) ==
    /\ topics' = topics \ {t}
    /\ subs' = {p \in subs : p[1] # t}
    /\ messages' = Restrict(messages,
          {m \in DOMAIN messages : ~StartsWith(m[1], SubPrefix(t))})
    /\ owed' = {o \in owed : ~(Len(o.home) = 2 /\ o.home[1] = t)}
    /\ UNCHANGED <<queues, nextMessage, reqs, known, made, given>>

CreateSubscription(t, s) ==
    /\ t \in topics
    /\ <<t, s>> \notin subs
    /\ subs' = subs \cup {<<t, s>>}
    /\ UNCHANGED <<queues, topics, messages, nextMessage, reqs, known, made, given, owed>>

\* Mutant: the messages stay.
DeleteSubscriptionAlone(t, s) ==
    /\ subs' = subs \ {<<t, s>>}
    /\ owed' = {o \in owed : o.home # <<t, s>>}
    /\ UNCHANGED <<queues, topics, messages, nextMessage, reqs, known, made, given>>

DeleteSubscription(t, s) ==
    /\ subs' = subs \ {<<t, s>>}
    /\ messages' = Restrict(messages,
          {m \in DOMAIN messages : m[1] # SubscriptionQueue(t, s)})
    /\ owed' = {o \in owed : o.home # <<t, s>>}
    /\ UNCHANGED <<queues, topics, nextMessage, reqs, known, made, given>>

-----------------------------------------------------------------------------
(* Messages.  The rows of one queue are ordered by id as their messages are *)
(* numbered.  insert_message draws a lock token that the row keeps for good: *)
(* naming the row stands for presenting its token.                          *)

\* insert_message of the next message into the queues of the homes in H: a
\* home is <<queue>> or <<topic, subscription>>.
HomeQueue(h) == IF Len(h) = 1 THEN h[1] ELSE SubscriptionQueue(h[1], h[2])

Insert(H) ==
    LET copies == {<<HomeQueue(h), nextMessage>> : h \in H} IN
    /\ nextMessage <= MaxMessages
    /\ messages' = [m \in DOMAIN messages \cup copies |->
                       IF m \in copies THEN ACTIVE ELSE messages[m]]
    /\ made' = made \cup copies
    /\ given' = [m \in made \cup copies |-> IF m \in copies THEN 0 ELSE given[m]]
    /\ owed' = owed \cup {[copy |-> <<HomeQueue(h), nextMessage>>, home |-> h] : h \in H}
    /\ nextMessage' = nextMessage + 1

\* The answer carries the lock token.
SendMessage(q) ==
    /\ q \in queues
    /\ Insert({<<q>>})
    /\ known' = known \cup {<<q, nextMessage>>}
    /\ UNCHANGED <<queues, topics, subs, reqs>>

SendTopicMessage(t) ==
    /\ t \in topics
    /\ Insert({p \in subs : p[1] = t})
    /\ UNCHANGED <<queues, topics, subs, reqs, known>>

\* First call of a receive: get_queue or subscription_exists.
StartReceive(c, q) ==
    /\ reqs[c] = None
    /\ q \in Existing
    /\ reqs' = [reqs EXCEPT ![c] = q]
    /\ UNCHANGED <<tables, nextMessage, known, made, given, owed>>

Active(q) == {m \in DOMAIN messages : m[1] = q /\ messages[m] = ACTIVE}

\* receive_messages: the first lim rows, in order of their ids.
ReceiveMessages(c, lim) ==
    /\ reqs[c] # None
    /\ LET got == {m \in Active(reqs[c]) :
                      Cardinality({k \in Active(reqs[c]) : k[2] < m[2]}) < lim}
       IN  /\ messages' = [m \in DOMAIN messages |->
                              IF m \in got THEN LOCKED ELSE messages[m]]
           /\ known' = known \cup got
           /\ given' = [m \in made |-> IF m \in got THEN given[m] + 1 ELSE given[m]]
           /\ \A m \in got : given[m] < MaxReceives
    /\ reqs' = [reqs EXCEPT ![c] = None]
    /\ UNCHANGED <<queues, topics, subs, nextMessage, made, owed>>

\* settle with None: any state will do, and whoever knows the token.
CompleteMessage(m) ==
    /\ m \in known
    /\ messages' = Restrict(messages, DOMAIN messages \ {m})
    /\ owed' = {o \in owed : o.copy # m}
    /\ UNCHANGED <<queues, topics, subs, nextMessage, reqs, known, made, given>>

\* Mutant: dead-lettered messages too.
SettleAny(m, state) ==
    /\ m \in known
    /\ m \in DOMAIN messages
    /\ messages' = [messages EXCEPT ![m] = state]
    /\ UNCHANGED <<queues, topics, subs, nextMessage, reqs, known, made, given, owed>>

\* settle with a state: the row must be locked, by whomever.
Settle(m, state) ==
    /\ m \in known
    /\ m \in DOMAIN messages
    /\ messages[m] = LOCKED
    /\ messages' = [messages EXCEPT ![m] = state]
    /\ UNCHANGED <<queues, topics, subs, nextMessage, reqs, known, made, given, owed>>

AbandonMessage(m) == Settle(m, ACTIVE)
DeadletterMessage(m) == Settle(m, DEADLETTER)

\* The process stops and starts again.
Restart ==
    /\ reqs' = [c \in Receivers |-> None]
    /\ UNCHANGED <<tables, nextMessage, known, made, given, owed>>

Init ==
    /\ queues = {} /\ topics = {} /\ subs = {}
    /\ messages = [m \in {} |-> m]
    /\ nextMessage = 1
    /\ reqs = [c \in Receivers |-> None]
    /\ known = {} /\ made = {} /\ owed = {}
    /\ given = [m \in {} |-> 0]

Next ==
    \/ \E q \in Queues : CreateQueue(q) \/ DeleteQueue(q) \/ SendMessage(q)
    \/ \E t \in Topics : CreateTopic(t) \/ DeleteTopic(t) \/ SendTopicMessage(t)
    \/ \E p \in Subscriptions :
          CreateSubscription(p[1], p[2]) \/ DeleteSubscription(p[1], p[2])
    \/ \E c \in Receivers :
          \/ \E q \in Existing : StartReceive(c, q)
          \/ \E lim \in Limits : ReceiveMessages(c, lim)
    \/ \E m \in known : CompleteMessage(m) \/ AbandonMessage(m) \/ DeadletterMessage(m)
    \/ Restart

Spec == Init /\ [][Next]_vars

-----------------------------------------------------------------------------
(* Properties *)

Waiting == {m \in DOMAIN messages : messages[m] = ACTIVE}
Held == {m \in DOMAIN messages : messages[m] = LOCKED}

D == INSTANCE Delivery WITH
        waiting <- Waiting, out <- Held,
        attempts <- [m \in Waiting \cup Held |-> given[m]]

\* Peek-lock (receive_messages, settle): the table implements Delivery.  A locked
\* message is not handed out until it is abandoned, a completed or dead-lettered one
\* ("it is never received again") does not come back, whatever settlements are
\* repeated or late, and a message re-sent after its queue was deleted is a new one.
PeekLock == D!Spec

\* A message sent to a queue, and the copy of a published message for every
\* subscription the topic had (send_topic_message), stays until it is
\* completed or that very queue, subscription or topic is deleted: deleting
\* another topic, even one whose name this one continues, does not touch it.
KeptUntilCompleted == \A o \in owed : o.copy \in DOMAIN messages

\* No message outlives the queue or subscription it is in, whatever is sent or
\* received while it is deleted.
MessagesHaveQueue == \A m \in DOMAIN messages : m[1] \in Existing

=============================================================================
