------------------------------- MODULE PubSub -------------------------------
(***************************************************************************)
(* The GCP Pub/Sub emulation of CloudTwin:                                 *)
(* src/src/gcp/pubsub/service.rs and handlers.rs over the tables pubsub_*  *)
(* of src/src/db.rs.  Every operation is one closure on the connection's   *)
(* thread, hence one step; the closure of delete_subscription is two       *)
(* transactions, which a crash can separate.                               *)
(***************************************************************************)
EXTENDS Integers, FiniteSets, Functions

CONSTANTS
    Topics, Subscriptions,   \* their names
    None,                    \* no ackDeadlineSeconds given
    DeadlineInputs,          \* values of ackDeadlineSeconds in a request
    DEFAULT_ACK_DEADLINE,    \* 10 seconds
    MAX_ACK_DEADLINE,        \* 600 seconds
    Limits,                  \* values of maxMessages, capped at 1000
    Batches,                 \* how many messages one :publish carries
    MaxMessages, MaxAttempts \* bounds: messages published, pulls of each copy

VARIABLES
    topics,        \* table pubsub_topics
    subs,          \* table pubsub_subscriptions: name -> row
    ackables,      \* table pubsub_ackables: <<subscription, message>> -> row
    nextMessage,   \* the id the next row of pubsub_messages gets
    known,         \* copies whose ack_id some client was told
    made,          \* every copy ever inserted
    owed,          \* copies nobody acknowledged, of subscriptions that remain
    torn           \* subscriptions whose deletion a crash cut short

vars == <<topics, subs, ackables, nextMessage, known, made, owed, torn>>

\* since is history: the first message published after the creation.
SubRows == [topic : Topics, ack_deadline_seconds : Nat \ {0}, since : Nat \ {0}]

\* lease is lease_until less the current time, 0 when that has passed or the
\* column is NULL.  An ack_id is drawn when the row is inserted and kept for
\* good: naming the row stands for presenting it.
AckRows == [acked : BOOLEAN, lease : Nat, delivery_attempt : Nat]

ASSUME PubSubConstants ==
    /\ None \notin Int
    /\ DeadlineInputs \subseteq Int \cup {None}
    /\ DEFAULT_ACK_DEADLINE \in Nat \ {0}
    /\ MAX_ACK_DEADLINE \in Nat /\ DEFAULT_ACK_DEADLINE <= MAX_ACK_DEADLINE
    /\ Limits \subseteq Nat \ {0} /\ Batches \subseteq Nat \ {0}
    /\ MaxMessages \in Nat /\ MaxAttempts \in Nat

-----------------------------------------------------------------------------
(* Topics and subscriptions *)

CreateTopic(t) ==
    /\ t \notin topics
    /\ topics' = topics \cup {t}
    /\ UNCHANGED <<subs, ackables, nextMessage, known, made, owed, torn>>

\* The subscriptions keep the topic's name, and get what is published to a topic
\* created under it later.
DeleteTopic(t) ==
    /\ t \in topics
    /\ topics' = topics \ {t}
    /\ UNCHANGED <<subs, ackables, nextMessage, known, made, owed, torn>>

\* The clamp of create_subscription: the default is also the least.
AckDeadline(d) ==
    IF d = None \/ d < DEFAULT_ACK_DEADLINE THEN DEFAULT_ACK_DEADLINE
    ELSE IF d > MAX_ACK_DEADLINE THEN MAX_ACK_DEADLINE ELSE d

CreateSubscription(s, t, d) ==
    /\ t \in topics
    /\ s \notin DOMAIN subs
    /\ subs' = [x \in DOMAIN subs \cup {s} |->
          IF x = s
          THEN [topic |-> t, ack_deadline_seconds |-> AckDeadline(d), since |-> nextMessage]
          ELSE subs[x]]
    /\ UNCHANGED <<topics, ackables, nextMessage, known, made, owed, torn>>

\* Mutant: copies that were pulled stay.
WithoutUnpulled(s) ==
    Restrict(ackables, {a \in DOMAIN ackables :
                           a[1] # s \/ ackables[a].delivery_attempt > 0})

Without(s) == Restrict(ackables, {a \in DOMAIN ackables : a[1] # s})

\* The first DELETE of delete_subscription, and the history that goes with it.
DropSubscription(s) ==
    /\ s \in DOMAIN subs
    /\ subs' = Restrict(subs, DOMAIN subs \ {s})
    /\ owed' = {a \in owed : a[1] # s}
    /\ UNCHANGED <<topics, nextMessage, known, made>>

DeleteSubscription(s) ==
    /\ DropSubscription(s)
    /\ ackables' = Without(s)
    /\ torn' = torn \ {s}

\* The process stops between the two DELETEs.
CrashInDelete(s) ==
    /\ DropSubscription(s)
    /\ torn' = torn \cup {s}
    /\ UNCHANGED ackables

-----------------------------------------------------------------------------
(* Messages *)

\* Messages that are empty, or none at all, are refused before.
Publish(t, n) ==
    LET new == nextMessage .. (nextMessage + n - 1)
        to == {s \in DOMAIN subs : subs[s].topic = t}
    IN
    /\ t \in topics
    /\ nextMessage + n - 1 <= MaxMessages
    /\ ackables' = [a \in DOMAIN ackables \cup (to \X new) |->
          IF a \in to \X new THEN [acked |-> FALSE, lease |-> 0, delivery_attempt |-> 0]
          ELSE ackables[a]]
    /\ nextMessage' = nextMessage + n
    /\ made' = made \cup (to \X new)
    /\ owed' = owed \cup (to \X new)
    /\ UNCHANGED <<topics, subs, known, torn>>

\* Mutant: the lease is not looked at.
DeliverableLeased(s) == {a \in DOMAIN ackables : a[1] = s /\ ~ackables[a].acked}

Deliverable(s) ==
    {a \in DOMAIN ackables : a[1] = s /\ ~ackables[a].acked /\ ackables[a].lease = 0}

\* The first max rows in order of their messages' ids.
Pull(s, max) ==
    /\ s \in DOMAIN subs
    /\ LET got == {a \in Deliverable(s) :
                      Cardinality({b \in Deliverable(s) : b[2] < a[2]}) < max}
       IN  /\ \A a \in got : ackables[a].delivery_attempt < MaxAttempts
           /\ ackables' = [a \in DOMAIN ackables |->
                 IF a \in got
                 THEN [acked |-> ackables[a].acked,
                       lease |-> subs[s].ack_deadline_seconds,
                       delivery_attempt |-> ackables[a].delivery_attempt + 1]
                 ELSE ackables[a]]
           /\ known' = known \cup got
    /\ UNCHANGED <<topics, subs, nextMessage, made, owed, torn>>

\* Mutant: an acknowledgement covers the message.
AckedByMessage(s, a) == \E k \in known : k[1] = s /\ k[2] = a[2]

\* ack_id=?1 AND subscription=?2, for an ack_id some client was told.
Named(s, a) == a[1] = s /\ a \in known

\* Each ack_id is updated by a statement of its own, whoever pulled last.
\* A crash in the loop leaves what an acknowledgement of some of them leaves.
Acknowledge(s, m) ==
    /\ s \in DOMAIN subs
    /\ LET hit == {a \in DOMAIN ackables : Named(s, a) /\ a[2] = m} IN
          /\ hit # {}
          /\ ackables' = [a \in DOMAIN ackables |->
                IF a \in hit THEN [ackables[a] EXCEPT !.acked = TRUE] ELSE ackables[a]]
    /\ owed' = owed \ {<<s, m>>}
    /\ UNCHANGED <<topics, subs, nextMessage, known, made, torn>>

ModifyAckDeadline(s, m, seconds) ==
    /\ s \in DOMAIN subs
    /\ seconds \in 0 .. MAX_ACK_DEADLINE
    /\ LET hit == {a \in DOMAIN ackables : Named(s, a) /\ a[2] = m /\ ~ackables[a].acked}
       IN  ackables' = [a \in DOMAIN ackables |->
                IF a \in hit THEN [ackables[a] EXCEPT !.lease = seconds] ELSE ackables[a]]
    /\ UNCHANGED <<topics, subs, nextMessage, known, made, owed, torn>>

\* Time passes.
Tick ==
    /\ \E a \in DOMAIN ackables : ackables[a].lease > 0
    /\ ackables' = [a \in DOMAIN ackables |->
          IF ackables[a].lease > 0 THEN [ackables[a] EXCEPT !.lease = @ - 1]
                                   ELSE ackables[a]]
    /\ UNCHANGED <<topics, subs, nextMessage, known, made, owed, torn>>

Init ==
    /\ topics = {}
    /\ subs = [s \in {} |-> s]
    /\ ackables = [a \in {} |-> a]
    /\ nextMessage = 1
    /\ known = {} /\ made = {} /\ owed = {} /\ torn = {}

Next ==
    \/ \E t \in Topics : CreateTopic(t) \/ DeleteTopic(t)
    \/ \E t \in Topics, n \in Batches : Publish(t, n)
    \/ \E s \in Subscriptions :
          \/ \E t \in Topics, d \in DeadlineInputs : CreateSubscription(s, t, d)
          \/ DeleteSubscription(s)
          \/ CrashInDelete(s)
          \/ \E max \in Limits : Pull(s, max)
          \/ \E m \in 1 .. (nextMessage - 1) :
                \/ Acknowledge(s, m)
                \/ \E seconds \in DeadlineInputs \ {None} : ModifyAckDeadline(s, m, seconds)
    \/ Tick

Spec == Init /\ [][Next]_vars

-----------------------------------------------------------------------------
(* Properties *)

Waiting == {a \in DOMAIN ackables : ~ackables[a].acked /\ ackables[a].lease = 0}
Leased == {a \in DOMAIN ackables : ~ackables[a].acked /\ ackables[a].lease > 0}

D == INSTANCE Delivery WITH
        waiting <- Waiting, out <- Leased,
        attempts <- [a \in Waiting \cup Leased |-> ackables[a].delivery_attempt]

\* Leases (pull, acknowledge, modify_ack_deadline): the table implements
\* Delivery.  A leased message is not pulled again before its lease ends, by time
\* or by a deadline of 0; an acknowledged one never is, also when the
\* acknowledgement comes after the lease or a deadline is modified after it.
AtLeastOnce == D!Spec

\* Fan-out (publish): each subscription its topic has gets a copy of its own, which
\* stays deliverable until that subscription acknowledges it or is deleted,
\* whatever the other subscriptions do and whether or not the topic is deleted.
KeptUntilAcknowledged ==
    \A a \in owed : a \in DOMAIN ackables /\ ~ackables[a].acked

\* A subscription has only messages published since it was created, to its
\* topic's name, unless it has the name of one whose deletion a crash cut short.
OnlySinceCreated ==
    \A a \in DOMAIN ackables :
        \/ a[1] \in torn
        \/ a[1] \in DOMAIN subs /\ subs[a[1]].since <= a[2]

\* A subscription holds what was published since its creation and it has not
\* acknowledged: all of that, and nothing from before.
SubscriptionHolds == KeptUntilAcknowledged /\ OnlySinceCreated
=============================================================================
