------------------------------- MODULE MCSns -------------------------------
(***************************************************************************)
(* SNS and S3 notifications, in three parts, each with the requests that   *)
(* matter to its properties: part "admin" makes and removes topics and     *)
(* subscriptions; "publish" begins with a topic and two subscriptions and  *)
(* publishes while they change and go; "events" begins with a subscribed   *)
(* topic and writes to a bucket.                                           *)
(***************************************************************************)
EXTENDS Notify, TLC

CONSTANTS t, u, q, dlq   \* two topics, two queues

VARIABLE part

vars == <<part, snsVars, evVars>>

Clients == Permutations(SnsClients)

Sub(topic, endpoint, redrive, filter) ==
    [topic |-> topic, born |-> 0, endpoint |-> endpoint, filter |-> filter, redrive |-> redrive]

Subscribed(subs) ==
    /\ snsTopics = [x \in {subs[1].topic} |-> [attrs |-> {}, fifo_seq |-> 0, born |-> 0]]
    /\ snsSubs = subs
    /\ snsMade = [topics |-> 1, subs |-> Len(subs), messages |-> 0]
    /\ sqsQueues = [x \in Queues |-> <<>>]
    /\ snsReq = [c \in SnsClients |-> SnsIdle]
    /\ snsMessages = <<>> /\ snsInfo = <<>> /\ snsLoose = {} /\ snsTwin = {}

Init ==
    /\ part \in {"admin", "publish", "events"}
    /\ \/ part = "admin" /\ SnsInit
       \/ part = "publish" /\ \E filter \in BOOLEAN :
             Subscribed(<<Sub(t, q, dlq, filter), Sub(t, None, None, FALSE)>>)
       \/ part = "events" /\ Subscribed(<<Sub(u, q, None, FALSE)>>)
    /\ \E seeded \in IF part = "events" THEN SUBSET Targets ELSE {{}} : NotifyInit(seeded)

Removal == DeleteTopic(t) \/ \E s \in DOMAIN snsSubs : Unsubscribe(s)

Next ==
    /\ \/ part = "admin" /\ (TopicRequest \/ SubscriptionRequest) /\ UNCHANGED evVars
       \/ /\ part = "publish"
          /\ PublishRequest \/ Removal \/ QueueRequest \/ CrashSns
          /\ UNCHANGED evVars
       \/ part = "events" /\ NotifyStep
       \/ part = "events" /\ UNCHANGED evVars /\
             (\/ \E c \in SnsClients :
                   ListSubscriptions(c) \/ RecordMessage(c) \/ Deliver(c, 1)
              \/ DeleteTopic(u) \/ DeleteQueue(dlq))
    /\ UNCHANGED part

Spec == Init /\ [][Next]_vars
=============================================================================
