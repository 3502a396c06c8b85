------------------------------- MODULE Notify -------------------------------
(***************************************************************************)
(* S3 event notifications, src/src/aws/s3/notify.rs, and the handlers that *)
(* fire them: a write is committed in one call (module S3), then the       *)
(* notification configuration is read and the event delivered to one       *)
(* target after the other, to a queue or through SNS, and only then is the *)
(* write answered.  DeleteObjects does all that for one key after the      *)
(* other.  A message id stands for the event it carries.                   *)
(***************************************************************************)
EXTENDS Sns

CONSTANTS
    EventQueue,   \* the queue among the targets
    EventTopic    \* the topic among them

ASSUME NotifyConstants == EventQueue \in Queues /\ EventTopic \in Topics

VARIABLES
    evConfig,   \* the stored configuration: a subset of Targets
    evReq,      \* what the request of each client holds between two calls
    evSeq,      \* s3_counters, the sequencer of the last write
    evInfo      \* history: event -> its sequencer and targets

evVars == <<evConfig, evReq, evSeq, evInfo>>

Targets == {"queue", "topic"}

EvIdle == [at |-> "idle"]
EvGo(c, r) == evReq' = [evReq EXCEPT ![c] = r]
Free(c) == evReq[c] = EvIdle /\ snsReq[c] = SnsIdle

\* Events, and messages, whose request was not answered yet.
EvOpen == {evReq[c].id : c \in {d \in SnsClients : evReq[d] # EvIdle}}
Unanswered == Open \cup EvOpen

\* A message without a topic: nothing is due at subscriptions.
Plain(earlier) ==
    [topic |-> None, born |-> 0, seq |-> 0, passes |-> TRUE, earlier |-> earlier,
     tried |-> {}, due |-> {}]

-----------------------------------------------------------------------------
(* The writes *)

\* Mutant: the counter is read and not increased.
SameSequencer == evSeq

NextSequencer == evSeq + 1

\* The commit of a write, which gives the event its sequencer.
Commit(c, more) ==
    LET m == snsMade.messages + 1 IN
    /\ m <= MaxMessages
    /\ snsMade' = Counted("messages")
    /\ evSeq' = NextSequencer
    /\ evInfo' = Record(evInfo, m, [seq |-> NextSequencer, due |-> evConfig, tried |-> {}])
    /\ EvGo(c, [at |-> "fire", id |-> m, rest |-> {}, more |-> more])
    /\ UNCHANGED <<snsTopics, snsSubs, snsMessages, sqsQueues, snsReq, snsLoose, snsTwin, evConfig>>

\* put_object, copy_object, complete_multipart_upload, post_object, delete_object,
\* and the first key of delete_objects, which has more of them.
WriteObject(c, more) ==
    /\ Free(c)
    /\ Commit(c, more)
    /\ snsInfo' = Record(snsInfo, snsMade.messages + 1, Plain(DOMAIN snsInfo \ Unanswered))

\* delete_objects, the next key.
DeleteNext(c) ==
    /\ evReq[c].at = "fired" /\ evReq[c].more > 0
    /\ Commit(c, evReq[c].more - 1)
    /\ snsInfo' = Record(snsInfo, snsMade.messages + 1,
          Plain((DOMAIN snsInfo \ Unanswered) \cup {evReq[c].id}))

Answer(c) ==
    /\ evReq[c].at = "fired" /\ evReq[c].more = 0
    /\ EvGo(c, EvIdle)
    /\ UNCHANGED <<snsVars, evConfig, evSeq, evInfo>>

-----------------------------------------------------------------------------
(* fire *)

\* Mutant: the event goes to the first target only.
FirstTarget == IF "topic" \in evConfig THEN {"topic"} ELSE evConfig

Matching == evConfig

ReadConfig(c) ==
    /\ evReq[c].at = "fire"
    /\ EvGo(c, [evReq[c] EXCEPT !.at = "deliver", !.rest = Matching])
    /\ UNCHANGED <<snsVars, evConfig, evSeq, evInfo>>

Reached(c, target) ==
    evInfo' = IF evReq[c].id \in DOMAIN evInfo
              THEN [evInfo EXCEPT ![evReq[c].id].tried = @ \cup {target}] ELSE evInfo

\* A delivery that fails is logged by fire, and refuses a configuration in put.
Undelivered(c, target) ==
    EvGo(c, IF evReq[c].more = -1 THEN EvIdle
            ELSE [evReq[c] EXCEPT !.rest = @ \ {target}])

Delivered(c, target) == EvGo(c, [evReq[c] EXCEPT !.rest = @ \ {target}])

\* to_xml puts topics first.  publish refuses a topic that is gone, and a FIFO
\* topic, as publish_internal gives no message group.
DeliverToTopic(c) ==
    LET r == evReq[c] IN
    /\ r.at = "deliver" /\ "topic" \in r.rest
    /\ Reached(c, "topic")
    /\ IF EventTopic \in DOMAIN snsTopics \ FifoTopics
       THEN /\ StartPublish(c, EventTopic, r.id, TRUE, snsInfo[r.id].earlier)
            /\ Delivered(c, "topic")
       ELSE Undelivered(c, "topic") /\ UNCHANGED <<snsReq, snsInfo>>
    /\ UNCHANGED <<snsTopics, snsSubs, snsMessages, sqsQueues, snsMade, snsLoose, snsTwin,
                   evConfig, evSeq>>

DeliverToQueue(c) ==
    LET r == evReq[c] IN
    /\ r.at = "deliver" /\ r.rest = {"queue"} /\ snsReq[c] = SnsIdle
    /\ Reached(c, "queue")
    /\ IF EventQueue \in DOMAIN sqsQueues
       THEN Arrive(EventQueue, r.id) /\ Delivered(c, "queue")
       ELSE Undelivered(c, "queue") /\ UNCHANGED sqsQueues
    /\ UNCHANGED <<snsTopics, snsSubs, snsMessages, snsReq, snsMade, snsInfo, snsLoose, snsTwin,
                   evConfig, evSeq>>

\* Mutant: the write is answered while SNS is still at work.
NotWaiting(c) == evReq[c].at = "deliver" /\ evReq[c].rest = {}

Through(c) == evReq[c].at = "deliver" /\ evReq[c].rest = {} /\ snsReq[c] = SnsIdle

Fired(c) ==
    /\ Through(c) /\ evReq[c].more >= 0
    /\ EvGo(c, [evReq[c] EXCEPT !.at = "fired"])
    /\ UNCHANGED <<snsVars, evConfig, evSeq, evInfo>>

-----------------------------------------------------------------------------
(* PutBucketNotificationConfiguration *)

\* put sends a test event to each target; more = -1 marks it.
PutNotification(c, cfg) ==
    LET m == snsMade.messages + 1 IN
    /\ Free(c)
    /\ m <= MaxMessages
    /\ snsMade' = Counted("messages")
    /\ snsInfo' = Record(snsInfo, m, Plain(DOMAIN snsInfo \ Unanswered))
    /\ EvGo(c, [at |-> "deliver", id |-> m, rest |-> cfg, more |-> -1, cfg |-> cfg])
    /\ UNCHANGED <<snsTopics, snsSubs, snsMessages, sqsQueues, snsReq, snsLoose, snsTwin,
                   evConfig, evSeq, evInfo>>

StoreNotification(c) ==
    /\ Through(c) /\ evReq[c].more = -1
    /\ evConfig' = evReq[c].cfg
    /\ EvGo(c, EvIdle)
    /\ evInfo' = [m \in DOMAIN evInfo |-> [evInfo[m] EXCEPT !.due = @ \cap evReq[c].cfg]]
    /\ UNCHANGED <<snsVars, evSeq>>

CrashNotify ==
    /\ \E c \in SnsClients : evReq[c] # EvIdle
    /\ evReq' = [c \in SnsClients |-> EvIdle]
    /\ snsReq' = [c \in SnsClients |-> SnsIdle]
    /\ evInfo' = <<>>
    /\ UNCHANGED <<snsTables, evConfig, evSeq>>

\* from_seed stores the configuration of a seeded bucket.
NotifyInit(seeded) ==
    /\ evConfig = seeded /\ evSeq = 0 /\ evInfo = <<>>
    /\ evReq = [c \in SnsClients |-> EvIdle]

NotifyStep ==
    \/ CrashNotify
    \/ \E c \in SnsClients :
          \/ DeleteNext(c) \/ Answer(c) \/ ReadConfig(c)
          \/ DeliverToTopic(c) \/ DeliverToQueue(c) \/ Fired(c) \/ StoreNotification(c)
          \/ \E more \in 0..1 : WriteObject(c, more)
          \/ \E cfg \in SUBSET Targets : PutNotification(c, cfg)

\* What else goes on in SNS and SQS; a client that is busy with a write asks for
\* nothing else.
BesideWrites ==
    /\ \/ TopicRequest \/ SubscriptionRequest \/ QueueRequest
       \/ \E c \in SnsClients :
             \/ FanOut(c)
             \/ \E t \in Topics, passes \in BOOLEAN :
                   PublishAfter(c, t, passes, DOMAIN snsInfo \ Unanswered)
    /\ \A c \in SnsClients : evReq[c] # EvIdle /\ snsReq[c] = SnsIdle => snsReq'[c] = SnsIdle
    /\ UNCHANGED evVars

NotifySpec ==
    /\ SnsInit /\ \E seeded \in SUBSET Targets : NotifyInit(seeded)
    /\ [][NotifyStep \/ BesideWrites]_<<snsVars, evVars>>

-----------------------------------------------------------------------------
(* Properties *)

\* Events arrive at the event queue in the order of the sequencers, which is that of
\* the commits, unless their writes overlapped.
EventsInOrder ==
    EventQueue \in DOMAIN sqsQueues =>
    LET got == sqsQueues[EventQueue] IN
    \A i, j \in DOMAIN got :
        got[i] \in DOMAIN evInfo /\ got[j] \in DOMAIN evInfo
        /\ got[i] \in snsInfo[got[j]].earlier
        => i < j /\ evInfo[got[i]].seq < evInfo[got[j]].seq

\* The event of a write that was answered went to every target that was configured
\* from the commit on.
EventsToAllTargets ==
    \A m \in DOMAIN evInfo : m \notin Unanswered =>
        evInfo[m].due \subseteq evInfo[m].tried

\* A write waits for SNS: when it is answered, the publish of its event has gone
\* through all subscriptions and is recorded.
PublishedThrough ==
    \A m \in DOMAIN evInfo :
        m \notin EvOpen /\ snsInfo[m].topic # None => m \in DOMAIN snsMessages

\* Events of the writes that were answered went to every target, in the order of the
\* writes, and through SNS to its subscribers.
EventsDelivered == EventsInOrder /\ EventsToAllTargets /\ PublishedThrough
=============================================================================
