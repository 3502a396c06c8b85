-------------------------------- MODULE Sns --------------------------------
(***************************************************************************)
(* The SNS emulation: src/src/aws/sns/service.rs and delivery.rs.  Every   *)
(* database call is a step: a publish reads the topic, takes a sequence    *)
(* number, lists the subscriptions, delivers to one after the other and    *)
(* records the message, while topics and subscriptions come and go.        *)
(*                                                                         *)
(* The queues are those of SQS (module Sqs): here a queue is what arrived, *)
(* in order.  A subscription to anything else has endpoint None: its       *)
(* delivery always succeeds as far as publish can see (an HTTP post runs   *)
(* in a task of its own, a mail goes to the mailbox).                      *)
(***************************************************************************)
EXTENDS Integers, Sequences, FiniteSets, Functions, ServiceConstants

CONSTANTS
    SnsClients,
    Topics, FifoTopics,   \* names; those that end in .fifo
    Queues,               \* names of queues
    Endpoints, Redrives,  \* of subscriptions: queues, or None
    SnsAttrs,             \* names of attributes and tags of topics
    MaxTopics, MaxSubs, MaxMessages   \* bounds: how many are ever made

ASSUME SnsConstants ==
    /\ FifoTopics \subseteq Topics
    /\ Endpoints \cup Redrives \subseteq Queues \cup {None}
    /\ {MaxTopics, MaxSubs, MaxMessages} \subseteq Nat
    /\ None \notin SnsClients

VARIABLES
    snsTopics,     \* table sns_topics: name -> row
    snsSubs,       \* table sns_subscriptions: arn -> row
    snsMessages,   \* table sns_messages: message id -> delivered
    sqsQueues,     \* the queues there are: name -> ids of messages
    snsReq,        \* what the request of each client holds between two calls
    snsMade,       \* how many topics, subscriptions, messages were made
    snsInfo,       \* history: message id -> what has to be known of it
    snsLoose,      \* history: subscriptions inserted after their topic was deleted
    snsTwin        \* history: subscriptions inserted after an equal one

snsVars == <<snsTopics, snsSubs, snsMessages, sqsQueues, snsReq, snsMade, snsInfo, snsLoose, snsTwin>>
snsTables == <<snsTopics, snsSubs, snsMessages, sqsQueues, snsMade, snsInfo, snsLoose, snsTwin>>

\* attrs stands for the columns attributes and tags; born is history.
TopicRows == [attrs : SUBSET SnsAttrs, fifo_seq : Nat, born : Nat]

\* filter: a FilterPolicy that only some messages pass; redrive: a RedrivePolicy.
SubRows == [topic : Topics, born : Nat, endpoint : Endpoints,
            filter : BOOLEAN, redrive : Redrives]

SnsIdle == [at |-> "idle"]
SnsGo(c, r) == snsReq' = [snsReq EXCEPT ![c] = r]
Record(f, x, v) == [y \in DOMAIN f \cup {x} |-> IF y = x THEN v ELSE f[y]]
Counted(what) == [snsMade EXCEPT ![what] = @ + 1]

\* Requests on topic t that have read it and not written it.
Overtake(c, t) ==
    [d \in SnsClients |->
        IF d = c THEN SnsIdle
        ELSE IF snsReq[d].at = "attribute" /\ snsReq[d].topic = t
             THEN [snsReq[d] EXCEPT !.overtaken = TRUE] ELSE snsReq[d]]

-----------------------------------------------------------------------------
(* Topics *)

\* create_topic answers with the topic when there is one.
CreateTopic(c, t) ==
    /\ snsReq[c] = SnsIdle
    /\ t \notin DOMAIN snsTopics
    /\ SnsGo(c, [at |-> "create", topic |-> t])
    /\ UNCHANGED snsTables

\* ON CONFLICT(name) DO NOTHING
TopicFree(t) == t \notin DOMAIN snsTopics

InsertTopic(c) ==
    LET name == snsReq[c].topic IN
    /\ snsReq[c].at = "create"
    /\ IF TopicFree(name)
       THEN /\ snsMade.topics < MaxTopics
            /\ snsMade' = Counted("topics")
            /\ snsTopics' = Record(snsTopics, name,
                  [attrs |-> {}, fifo_seq |-> 0, born |-> snsMade.topics])
       ELSE UNCHANGED <<snsTopics, snsMade>>
    /\ SnsGo(c, SnsIdle)
    /\ UNCHANGED <<snsSubs, snsMessages, sqsQueues, snsInfo, snsLoose, snsTwin>>

\* Mutant: the subscriptions stay.
AllSubs(t) == DOMAIN snsSubs

SubsKept(t) == {s \in DOMAIN snsSubs : snsSubs[s].topic # t}

\* A message need not get to the subscriptions that are removed or changed meanwhile.
NoLongerDue(gone) ==
    snsInfo' = [m \in DOMAIN snsInfo |-> [snsInfo[m] EXCEPT !.due = @ \ gone]]

DeleteTopic(t) ==
    /\ t \in DOMAIN snsTopics \/ \E s \in DOMAIN snsSubs : snsSubs[s].topic = t
    /\ snsTopics' = Restrict(snsTopics, DOMAIN snsTopics \ {t})
    /\ snsSubs' = Restrict(snsSubs, SubsKept(t))
    /\ NoLongerDue({s \in DOMAIN snsSubs : snsSubs[s].topic = t})
    /\ snsReq' = Overtake(None, t)
    /\ UNCHANGED <<snsMessages, sqsQueues, snsMade, snsLoose, snsTwin>>

\* set_topic_attribute, TagResource and UntagResource: the row is read,
SetTopicAttribute(c, t, a, on) ==
    /\ snsReq[c] = SnsIdle
    /\ t \in DOMAIN snsTopics
    /\ SnsGo(c, [at |-> "attribute", topic |-> t, name |-> a, overtaken |-> FALSE,
                 attrs |-> IF on THEN snsTopics[t].attrs \cup {a} ELSE snsTopics[t].attrs \ {a}])
    /\ UNCHANGED snsTables

\* Mutant: only the one attribute is stored.
OnlyThat(r) == r.attrs \cap {r.name}

AttributesStored(r) == r.attrs

\* and the whole map is written.
WriteTopicAttributes(c) ==
    LET r == snsReq[c] IN
    /\ r.at = "attribute"
    /\ snsTopics' = [t \in DOMAIN snsTopics |->
          IF t = r.topic THEN [snsTopics[t] EXCEPT !.attrs = AttributesStored(r)] ELSE snsTopics[t]]
    /\ snsReq' = Overtake(c, r.topic)
    /\ UNCHANGED <<snsSubs, snsMessages, sqsQueues, snsMade, snsInfo, snsLoose, snsTwin>>

-----------------------------------------------------------------------------
(* Subscriptions *)

\* subscribe: the topic is read,
Subscribe(c, t, q) ==
    /\ snsReq[c] = SnsIdle
    /\ t \in DOMAIN snsTopics
    /\ SnsGo(c, [at |-> "look", topic |-> t, born |-> snsTopics[t].born, endpoint |-> q])
    /\ UNCHANGED snsTables

EqualSubs(t, q) == {s \in DOMAIN snsSubs : snsSubs[s].topic = t /\ snsSubs[s].endpoint = q}

\* Mutant: an equal subscription is not looked for.
NoneFound(t, q) == {}

Existing(t, q) == EqualSubs(t, q)

\* then an equal subscription is looked for,
LookForSubscription(c) ==
    LET r == snsReq[c] IN
    /\ r.at = "look"
    /\ SnsGo(c, IF Existing(r.topic, r.endpoint) # {} THEN SnsIdle
                ELSE [at |-> "insert", topic |-> r.topic, born |-> r.born,
                      endpoint |-> r.endpoint, made |-> snsMade.subs])
    /\ UNCHANGED snsTables

\* and the new one inserted.  Any equal one was inserted since.
InsertSubscription(c, filter, redrive) ==
    LET r == snsReq[c]
        s == snsMade.subs + 1 IN
    /\ r.at = "insert"
    /\ s <= MaxSubs
    /\ snsMade' = Counted("subs")
    /\ snsSubs' = Record(snsSubs, s, [topic |-> r.topic, born |-> r.born,
          endpoint |-> r.endpoint, filter |-> filter, redrive |-> redrive])
    /\ snsLoose' = IF r.topic \in DOMAIN snsTopics /\ snsTopics[r.topic].born = r.born
                   THEN snsLoose ELSE snsLoose \cup {s}
    /\ snsTwin' = IF \E e \in EqualSubs(r.topic, r.endpoint) : e > r.made
                  THEN snsTwin \cup {s} ELSE snsTwin
    /\ SnsGo(c, SnsIdle)
    /\ UNCHANGED <<snsTopics, snsMessages, sqsQueues, snsInfo>>

Unsubscribe(s) ==
    /\ s \in DOMAIN snsSubs
    /\ snsSubs' = Restrict(snsSubs, DOMAIN snsSubs \ {s})
    /\ NoLongerDue({s})
    /\ UNCHANGED <<snsTopics, snsMessages, sqsQueues, snsReq, snsMade, snsLoose, snsTwin>>

\* set_subscription_attribute, read and written in one step: the two calls only differ
\* for two requests on one subscription, as for topics.
SetSubscriptionAttribute(s, filter, redrive) ==
    /\ s \in DOMAIN snsSubs
    /\ snsSubs' = [snsSubs EXCEPT ![s].filter = filter, ![s].redrive = redrive]
    /\ NoLongerDue({s})
    /\ UNCHANGED <<snsTopics, snsMessages, sqsQueues, snsReq, snsMade, snsLoose, snsTwin>>

-----------------------------------------------------------------------------
(* Publishing *)

Open == {snsReq[c].id : c \in {d \in SnsClients : snsReq[d].at \in {"sequence", "list", "fan", "redrive"}}}

\* publish from get_topic on, for message m; earlier: those answered for before it.
\* passes: whether the message passes filter policies.
StartPublish(c, t, m, passes, earlier) ==
    /\ SnsGo(c, [at |-> IF t \in FifoTopics THEN "sequence" ELSE "list",
                 id |-> m, topic |-> t, passes |-> passes])
    /\ snsInfo' = Record(snsInfo, m,
          [topic |-> t, born |-> snsTopics[t].born, seq |-> 0, passes |-> passes,
           earlier |-> earlier, tried |-> {},
           due |-> {s \in DOMAIN snsSubs : snsSubs[s].topic = t}])

PublishAfter(c, t, passes, earlier) ==
    LET m == snsMade.messages + 1 IN
    /\ snsReq[c] = SnsIdle
    /\ t \in DOMAIN snsTopics
    /\ m <= MaxMessages
    /\ snsMade' = Counted("messages")
    /\ StartPublish(c, t, m, passes, earlier)
    /\ UNCHANGED <<snsTopics, snsSubs, snsMessages, sqsQueues, snsLoose, snsTwin>>

Publish(c, t, passes) == PublishAfter(c, t, passes, DOMAIN snsInfo \ Open)

\* Mutant: the number is only read.
SameSequence(row) == [row EXCEPT !.fifo_seq = IF @ = 0 THEN 1 ELSE @]

Increased(row) == [row EXCEPT !.fifo_seq = @ + 1]

\* The publish fails when the topic is gone.
NextSequence(c) ==
    LET r == snsReq[c]
        name == r.topic IN
    /\ r.at = "sequence"
    /\ IF name \in DOMAIN snsTopics
       THEN /\ snsTopics' = [snsTopics EXCEPT ![name] = Increased(@)]
            /\ snsInfo' = [snsInfo EXCEPT ![r.id].seq = snsTopics'[name].fifo_seq,
                                          ![r.id].born = snsTopics[name].born]
            /\ SnsGo(c, [r EXCEPT !.at = "list"])
       ELSE SnsGo(c, SnsIdle) /\ UNCHANGED <<snsTopics, snsInfo>>
    /\ UNCHANGED <<snsSubs, snsMessages, sqsQueues, snsMade, snsLoose, snsTwin>>

\* Mutant: one subscription is found.
FirstSub(t) == {s \in DOMAIN snsSubs : snsSubs[s].topic = t
                                        /\ \A e \in DOMAIN snsSubs : snsSubs[e].topic = t => s <= e}

SubsOf(t) == {s \in DOMAIN snsSubs : snsSubs[s].topic = t}

\* The rows as they are now are those that fan_out works through.
ListSubscriptions(c) ==
    LET r == snsReq[c] IN
    /\ r.at = "list"
    /\ SnsGo(c, [at |-> "fan", id |-> r.id, topic |-> r.topic, passes |-> r.passes,
                 rest |-> Restrict(snsSubs, SubsOf(r.topic)), delivered |-> 0, to |-> None])
    /\ UNCHANGED snsTables

\* Mutant: the newest message is the first to be received.
ArriveFirst(q, m) == sqsQueues' = [sqsQueues EXCEPT ![q] = <<m>> \o @]

Arrive(q, m) == sqsQueues' = [sqsQueues EXCEPT ![q] = Append(@, m)]

Tried(m, s) == snsInfo' = [snsInfo EXCEPT ![m].tried = @ \cup {s}]

PassesFilter(sub, passes) == sub.filter => passes

\* deliver: the next subscription in the order of the random arns.
Deliver(c, s) ==
    LET r == snsReq[c]
        sub == r.rest[s]
        left == [r EXCEPT !.rest = Restrict(r.rest, DOMAIN r.rest \ {s})]
    IN  /\ r.at = "fan"
        /\ s \in DOMAIN r.rest
        /\ IF ~PassesFilter(sub, r.passes)
           THEN SnsGo(c, left) /\ UNCHANGED <<sqsQueues, snsInfo>>
           ELSE /\ Tried(r.id, s)
                /\ IF sub.endpoint \in DOMAIN sqsQueues \cup {None}
                   THEN /\ SnsGo(c, [left EXCEPT !.delivered = @ + 1])
                        /\ IF sub.endpoint = None THEN UNCHANGED sqsQueues
                           ELSE Arrive(sub.endpoint, r.id)
                   ELSE /\ SnsGo(c, IF sub.redrive = None THEN left
                                    ELSE [left EXCEPT !.at = "redrive", !.to = sub.redrive])
                        /\ UNCHANGED sqsQueues
        /\ UNCHANGED <<snsTopics, snsSubs, snsMessages, snsMade, snsLoose, snsTwin>>

\* The message that could not be delivered goes to the RedrivePolicy's queue.
SendToRedrive(c) ==
    LET r == snsReq[c] IN
    /\ r.at = "redrive"
    /\ SnsGo(c, [r EXCEPT !.at = "fan", !.to = None])
    /\ IF r.to \in DOMAIN sqsQueues THEN Arrive(r.to, r.id) ELSE UNCHANGED sqsQueues
    /\ UNCHANGED <<snsTopics, snsSubs, snsMessages, snsMade, snsInfo, snsLoose, snsTwin>>

\* record_message, and the answer.
RecordMessage(c) ==
    LET r == snsReq[c] IN
    /\ r.at = "fan"
    /\ r.rest = <<>>
    /\ snsMessages' = Record(snsMessages, r.id, r.delivered)
    /\ SnsGo(c, SnsIdle)
    /\ UNCHANGED <<snsTopics, snsSubs, sqsQueues, snsMade, snsInfo, snsLoose, snsTwin>>

\* The process stops: the requests are lost.
CrashSns ==
    /\ \E c \in SnsClients : snsReq[c] # SnsIdle
    /\ snsReq' = [c \in SnsClients |-> SnsIdle]
    /\ UNCHANGED snsTables

-----------------------------------------------------------------------------
(* SQS, as far as SNS meets it *)

CreateQueue(q) ==
    /\ q \notin DOMAIN sqsQueues
    /\ sqsQueues' = Record(sqsQueues, q, <<>>)
    /\ UNCHANGED <<snsTopics, snsSubs, snsMessages, snsReq, snsMade, snsInfo, snsLoose, snsTwin>>

DeleteQueue(q) ==
    /\ q \in DOMAIN sqsQueues
    /\ sqsQueues' = Restrict(sqsQueues, DOMAIN sqsQueues \ {q})
    /\ UNCHANGED <<snsTopics, snsSubs, snsMessages, snsReq, snsMade, snsInfo, snsLoose, snsTwin>>

SnsInit ==
    /\ snsTopics = <<>> /\ snsSubs = <<>> /\ snsMessages = <<>>
    /\ sqsQueues = [q \in Queues |-> <<>>]
    /\ snsReq = [c \in SnsClients |-> SnsIdle]
    /\ snsMade = [topics |-> 0, subs |-> 0, messages |-> 0]
    /\ snsInfo = <<>> /\ snsLoose = {} /\ snsTwin = {}

TopicRequest ==
    \/ \E t \in Topics : DeleteTopic(t)
    \/ \E c \in SnsClients :
          \/ InsertTopic(c) \/ WriteTopicAttributes(c)
          \/ \E t \in Topics :
                \/ CreateTopic(c, t)
                \/ \E a \in SnsAttrs, on \in BOOLEAN : SetTopicAttribute(c, t, a, on)

SubscriptionRequest ==
    \/ \E s \in DOMAIN snsSubs :
          \/ Unsubscribe(s)
          \/ \E filter \in BOOLEAN, redrive \in Redrives :
                SetSubscriptionAttribute(s, filter, redrive)
    \/ \E c \in SnsClients :
          \/ LookForSubscription(c)
          \/ \E t \in Topics, q \in Endpoints : Subscribe(c, t, q)
          \/ \E filter \in BOOLEAN, redrive \in Redrives :
                InsertSubscription(c, filter, redrive)

\* A publish goes on.
FanOut(c) ==
    \/ NextSequence(c) \/ ListSubscriptions(c) \/ SendToRedrive(c) \/ RecordMessage(c)
    \/ \E s \in 1..MaxSubs : Deliver(c, s)

PublishRequest ==
    \E c \in SnsClients :
        FanOut(c) \/ \E t \in Topics, passes \in BOOLEAN : Publish(c, t, passes)

QueueRequest == \E q \in Queues : CreateQueue(q) \/ DeleteQueue(q)

SnsNext == TopicRequest \/ SubscriptionRequest \/ PublishRequest \/ QueueRequest \/ CrashSns

SnsSpec == SnsInit /\ [][SnsNext]_snsVars

-----------------------------------------------------------------------------
(* Properties *)

\* A message that publish answered for was offered to every subscription that was
\* there from its beginning to its end, unchanged, and whose filter it passes; it is
\* offered to no subscription whose filter it does not pass.
OfferedToAll ==
    \A m \in DOMAIN snsMessages :
        \A s \in snsInfo[m].due \cap DOMAIN snsSubs :
            (s \in snsInfo[m].tried) = (snsSubs[s].filter => snsInfo[m].passes)

\* A FIFO topic numbers its messages: all differently, and in the order in which they
\* were published when one was answered before the other began.
SequencesIncrease ==
    \A m, n \in DOMAIN snsInfo :
        /\ m # n /\ snsInfo[m].seq # 0 /\ snsInfo[n].seq # 0
        /\ snsInfo[m].topic = snsInfo[n].topic /\ snsInfo[m].born = snsInfo[n].born
        => /\ snsInfo[m].seq # snsInfo[n].seq
           /\ m \in snsInfo[n].earlier => snsInfo[m].seq < snsInfo[n].seq

\* A queue receives messages in the order in which they were published, as far as
\* one was answered before the other began.
ArrivedInOrder ==
    \A q \in DOMAIN sqsQueues : \A i, j \in DOMAIN sqsQueues[q] :
        sqsQueues[q][i] \in snsInfo[sqsQueues[q][j]].earlier => i < j

\* Two equal subscriptions, through which a queue gets everything twice, come from
\* requests that overlapped.
EqualByOverlap ==
    \A s, e \in DOMAIN snsSubs \ snsTwin : s # e =>
        <<snsSubs[s].topic, snsSubs[s].endpoint>> # <<snsSubs[e].topic, snsSubs[e].endpoint>>

\* A subscription belongs to the topic it was made for: the one of a deleted topic
\* remains, or gets the messages of its successor, only when Subscribe and DeleteTopic
\* overlapped.
SubscribedToTheirTopic ==
    \A s \in DOMAIN snsSubs \ snsLoose :
        /\ snsSubs[s].topic \in DOMAIN snsTopics
        /\ snsTopics[snsSubs[s].topic].born = snsSubs[s].born

\* An attribute of a topic disappears by a request to remove it, or one that overlapped
\* with another request on the topic.
LostByOverlap ==
    \A name \in DOMAIN snsTopics \cap DOMAIN snsTopics' :
        \A a \in snsTopics[name].attrs \ snsTopics'[name].attrs :
            \E c \in SnsClients :
                /\ snsReq[c].at = "attribute" /\ snsReq'[c] = SnsIdle
                /\ snsReq[c].overtaken \/ snsReq[c].name = a

\* Messages are numbered, and arrive, in the order of their publishes.
PublishedInOrder == SequencesIncrease /\ ArrivedInOrder

\* What topics and subscriptions lose, keep twice or keep too long is due to requests
\* that overlapped, and to nothing else.
TopicsKept == [][EqualByOverlap' /\ SubscribedToTheirTopic' /\ LostByOverlap]_snsVars
=============================================================================
