# CloudTwin in TLA+

CloudTwin is a local emulator of AWS, Azure and GCP services: one Rust process,
one SQLite database, HTTP handlers for each service. These modules model the
parts of it that keep state under concurrency, check them with TLC on small
instances, and prove their main safety properties with TLAPS.

- [How CloudTwin executes](#how-cloudtwin-executes)
- [Inventory](#inventory)
- [Modules](#modules)
- [Runs](#runs)
- [Where the code and its documents disagree](#where-the-code-and-its-documents-disagree)
- [Bounds](#bounds), [Fairness](#fairness), [Proofs](#proofs)
- [What is not modelled](#what-is-not-modelled)
- [Plan](#plan)

## How CloudTwin executes

`src/src/db.rs` opens **one** connection (`tokio_rusqlite`). Its thread runs the
closures that the services hand to `Database::call`, one at a time. An axum
handler is a tokio task; tasks of different requests interleave wherever one of
them awaits. This gives the grain of atomicity of all modules:

- a closure is one step: no other request sees its middle;
- an operation made of two closures (`get_queue` and then the work, `object_info`
  and then `read_content`) is two steps, and anything may come between them,
  also the deletion and re-creation of what the first one read;
- inside a closure, statements that do not share a transaction can be separated
  by a crash, and only by a crash;
- a restart keeps what was committed and forgets the requests being served.

Time is `now_ms()`; the models count it in seconds.

## Inventory

| Component | State | Operations | What is hard about it | What makes it correct |
|---|---|---|---|---|
| SQS (`aws/sqs`) | queues with attributes and tags, messages, FIFO deduplication rows | queue CRUD, purge, attributes, tags, send, long-polling receive, delete, change visibility | receive works against a copy of the queue read earlier; visibility, retention, delay and deduplication run out while requests are in flight; redrive in the middle of a receive | one holder at a time, deleted is gone, FIFO order, deduplication, nothing lost without a reason, every poll answers |
| S3 (`aws/s3`) | buckets with versioning, current objects, archived versions and markers, uploads and parts, a counter | bucket CRUD, versioning, put, copy, get, delete, tags, multipart uploads | the current version and the older ones live in two tables that every write and delete has to keep consistent; reads and conditional writes take two calls; the clean-up of an upload is not a transaction | the two tables are one history, a read's content belongs to its headers, no orphans |
| S3 notifications (`aws/s3/notify.rs`) | configuration per bucket | events after a write, a copy, a delete or DeleteObjects | delivered after the commit, from a configuration read after it, through SQS and SNS, failures swallowed | an answered write's event went to every target, in the order of the writes |
| SNS (`aws/sns`) | topics with attributes and a sequence number, subscriptions, recorded messages | topic and subscription CRUD, attributes, publish, fan-out | find-then-insert and read-modify-write over two calls; fan-out is one send per subscription, with dead-letter delivery, while subscriptions change | every subscription that was there is offered the message; numbers and arrivals follow the publishes |
| Service Bus (`azure/servicebus`) | queues, topics, subscriptions, messages with locks | send, peek-lock receive, complete, abandon, dead-letter | settlement late or twice | a settled message is never received again |
| Pub/Sub (`gcp/pubsub`) | topics, subscriptions, messages with deadlines | publish, pull, acknowledge, modify deadline | leases run out, late acknowledgements | at-least-once, acknowledged is gone |
| KMS (`aws/kms`) | keys, aliases | create, enable, schedule and cancel deletion, rotate, tag, alias, encrypt, decrypt | a key is read in one call and saved whole in another; deletion at a deadline, by the next request; seeding and reset | a key goes when it is due and not before; what overlaps is the only thing lost; seeded ciphertexts open |
| Cognito (`aws/cognito`) | pools, domains, clients, users, challenges, codes, sessions, origins, refresh tokens, the signing key | sign-up, confirmation, authentication, challenges, hosted UI, code exchange, refresh, revocation, sign-out | single use, rows kept by name while users are deleted and made again, a hosted-UI login of several calls, a key made at first use by whoever comes first | single use, nothing accepted after its end, names lead where they should |
| SES (`aws/ses`) | identities with their verification, account, suppression list, configuration sets, destinations, messages, events | verification, send, event publishing | every read of an identity may write it back; a send is a dozen calls | a forced status stays, the records of a send agree |
| SES receiving, SMTP, mailbox | rule sets, rules, stored mail | rule editing, receiving, SMTP dialogue | whole lists written back; the active set may change under a message | each recipient handled or captured, each message as it was written |
| DynamoDB (`aws/dynamodb`) | tables, items | table and item CRUD, update, query, batches | the table is read in one call and the item written in another; rows are keyed by the text of a key, queries compare its value | items under the key of their table and found by it, updates kept |
| Blob, Cloud Storage, Secrets Manager | containers, blobs; buckets, objects, upload sessions; secrets | CRUD, conditional writes, resumable uploads, ranges | create-if-absent under races; repeated and late chunks | one creator, whole objects |
| Listings of all stores | none: a marker in the client's hands | paged listing | rows come and go between pages | nothing missed, nothing twice, an end |
| Bedrock (`aws/bedrock`) | a counter per model | scripted answers, injected errors, streams | overlapping requests draw from one counter | answers in their shares, streams whole |
| Control plane (`control.rs`) | none | reset, seed | empties tables under running requests; seeding is not atomic | after a reset nothing of before is visible |
| Database, application, configuration, telemetry, dashboard | connection, counters | start-up, migrations, pages | one thread for all closures | |

Components call one another: SNS and S3 notifications call the internal send of
SQS, SES receiving writes S3 objects and publishes to SNS, the control plane
deletes the tables of all, and every handler emits telemetry once it is done.
`PROJECT.json` lists the components with their status and the hazards at their
lines.

## Modules

| Module | What it is |
|---|---|
| `Sqs` | SQS queues, messages, deduplication, long polling: `aws/sqs/service.rs` over `aws/sqs/schema.rs` |
| `S3` | S3 buckets, versions, reads in two calls, multipart uploads, reset: `aws/s3/service.rs`, `object.rs`, `multipart.rs`, `bucket.rs`, `control.rs` |
| `S3History` | what the version tables promise: one ordered set of versions per key, the newest visible unless it is a delete marker |
| `ServiceBus` | Service Bus queues, topics, subscriptions and peek-lock: `azure/servicebus/service.rs`, `handlers.rs` |
| `PubSub` | Pub/Sub topics, subscriptions and leases: `gcp/pubsub/service.rs`, `handlers.rs` |
| `Delivery` | what both brokers promise of a copy of a message: it waits, is out with a consumer, or is over |
| `Sns` | SNS topics, subscriptions, publishing and fan-out into queues: `aws/sns/service.rs`, `delivery.rs`, `handlers.rs` |
| `Notify` | S3 event notifications, composed with `Sns` (EXTENDS): `aws/s3/notify.rs` and the handlers that fire events |
| `Kms` | KMS keys, aliases, ciphertexts, seeding: `aws/kms` |
| `SignIn`, `UserPools`, `Oauth`, `SigningKeys` | Cognito: who is signed in; the directory of pools, clients and names; what clients may ask for; the key that signs: `aws/cognito` |
| `SesIdentities`, `SesSending` | SES identities, and the pipeline of a send composed with them (EXTENDS): `aws/ses/service.rs`, `models.rs`, `sending.rs` |
| `ReceiptRules` | SES receiving: `aws/ses/receiving.rs` |
| `Smtp` | the SMTP session: `mailbox/smtp.rs` |
| `Gcs`, `Blob`, `Dynamo` | Cloud Storage with resumable uploads; Azure Blob and Secrets Manager; DynamoDB |
| `Listing` | the paged listings of Blob, Cloud Storage, S3 objects, versions, uploads, parts, and KMS |
| `Bedrock` | the Bedrock simulation: counters, scripts, streams |
| `ServiceConstants` | `None`, and a table with one more row, for the modules above |
| `MCSqs`, `MCS3`, `MCServiceBus`, `MCPubSub` | constants and symmetry for TLC |
| `MCStores`, `MCSns`, `MCCognito`, `MCKmsMail` | several components in one model: a variable says which of them a behaviour belongs to, the others stand still |
| `SqsProofs`, `S3Proofs`, `ServiceBusProofs`, `PubSubProofs` | theorems about the module of that name |
| `StoresProofs` | theorems about `Blob`, `Gcs`, `Dynamo`, `Listing` and `Bedrock` |
| `SnsProofs` | theorems about `Sns` and `Notify` |
| `CognitoProofs` | theorems about `SignIn`, `SigningKeys`, `Oauth` and `UserPools` |
| `KmsMailProofs` | theorems about `Kms`, `SesIdentities`, `SesSending`, `ReceiptRules` and `Smtp` |

Operators that the comments call mutants are plausible bugs in the definition that
follows them. `PROJECT.json` lists them; with each in its place TLC finds the property
it is listed with violated.

### Sqs

`queues`, `messages` and `dedup` are the three tables; `nextQueue` and
`nextMessage` their AUTOINCREMENT counters. `reqs` holds, for each client, the
request being served: `got` (the queue row that `get_queue` copied), `handle` (the
same, with the receipt handle the client gave), `poll` (inside the loop of
`receive`). Nothing reads the kind of operation before its second closure, so the
second step chooses it. `issued`, `acked` and `accepted` are history
variables: what clients were told. They restrict no step, except that a client can
only present a handle it was given.

| Code | Action |
|---|---|
| `create_queue` | `CreateQueue` (an existing name is answered from its row: no step) |
| `get_queue` | `GetQueue` |
| `delete_queue`, `purge_queue` | `DeleteQueue`, `PurgeQueue` |
| `queue_attributes` with `refresh` | `GetQueueAttributes` |
| `set_queue_attributes` | `SetQueueAttributes`, with `ValidAttributes` and `Merged` |
| `tag_queue`, `untag_queue`, `write_tags` | `TagQueue` |
| `send_tx` | `SendStored`; its early returns are `SendUnstored` |
| `receive` | `StartReceive`, then one `Poll` (or `PollMissing`) per turn of the loop |
| `receive_tx` | `ReceiveTx`: `Candidates`, `BlockedGroups`, `Skipped`, `Exhausted`, `Reached` say which rows the loop passes over, moves and hands out |
| `delete_message_tx`, `change_visibility_tx` | `DeleteMessage`, `ChangeVisibility` |
| stop and start of the process | `Restart` |

The loop of `receive_tx` is written as sets: a row's fate depends on the rows before
it in id order, which `Skipped` and `Reached` quantify over. A receipt handle is
the message's id with the number of handles written to its row so far, standing for
the fresh UUID.

### S3

`objects` and `versions` are the sets of rows of `s3_objects` and
`s3_object_versions`; `seq` is the counter in `s3_counters`. Version id 0 is the
string `"null"`; random ids are numbered in the order they are drawn. Content is a
function from part numbers to bytes, so an object put together from parts differs
from one put in one piece; an ETag is the content it is a hash of.

| Code | Definition |
|---|---|
| `create_bucket`, `delete_bucket`, `set_versioning` | `CreateBucket`, `DeleteBucket`, `PutVersioning` |
| `write_object_tx` | `WriteObject` with `Superseded`, used by PUT, copy and completion |
| `put_object` with `if-match` or `if-none-match` | `CheckCondition`, then `CreateObject` |
| `delete_object` | `DeleteCurrent` without, `DeleteVersion` with a version id; `Restored` is `restore_latest` |
| `set_object_tags` | `SetObjectTags` |
| `object_info`, `read_content` and the loop of three turns | `ObjectInfo`, `ReadContent`, `Return` |
| `copy_object`, `upload_part_copy` | `CopyObject`, `UploadPartCopy`, after the same read |
| multipart uploads | `CreateUpload`, `UploadPart`, `CompleteUpload`, `AbortUpload`; `CrashInComplete` and `CrashInAbort` stop between the statements of the clean-up |
| `POST /_cloudtwin/reset`, for S3 | `Reset` |

`S3History` has two variables, the set of all versions and the set of the visible
ones, and steps that add a version newer than the rest of its key, remove one,
replace the tags of one, or forget all. `S3` implements it under the mapping
`history <- objects \cup versions`, `visible <- objects`: a version that moves
between the tables is a stutter of the history, and whatever the tables do, the
visible ones must be the newest.

### Delivery, ServiceBus and PubSub

`Delivery` has the copies that wait, those that are out, all copies ever made, and
how often each was handed out. Copies are published, handed out, come back, and
end; `Retake` lets a consumer keep a copy whose lease had ended and that nobody else
took. What it forbids is the handing out of a copy that is out, the return of one
that is over, and a count that does not follow the deliveries.

`ServiceBus` maps the rows in state 1 to waiting and those in state 0 to out; a
dead-lettered row is over. A subscription is a virtual queue named
`topic:{topic}:sub:{subscription}`, and `delete_topic` deletes by prefix, so names
are sequences of their parts between colons and the virtual name is a
concatenation. `known`, `made`, `given` and `owed` are history: whose lock tokens
clients were told, the copies inserted, how often each was received, and what nobody
has completed yet, by the queue or subscription it was sent to. The lock token is drawn
when the row is inserted and never changes, so presenting it is naming the row.

| Code | Action |
|---|---|
| `create_queue`, `delete_queue`, `create_topic`, `delete_topic`, `create_subscription`, `delete_subscription` | the actions of those names |
| `send_message`, `send_topic_message` | `SendMessage`, `SendTopicMessage`, both through `Insert` |
| the receive handlers | `StartReceive` (does the queue exist?), then `ReceiveMessages` |
| `settle` | `CompleteMessage` in any state; `AbandonMessage` and `DeadletterMessage` of a locked row |

`PubSub` keeps a lease as the seconds it still has, so that no clock is needed: `Tick`
takes one from each. A copy that is not acknowledged waits when its lease is 0 and is
out otherwise. The closure of `delete_subscription` is two statements without a
transaction; `CrashInDelete` stops between them and remembers the name in `torn`.

| Code | Action |
|---|---|
| `create_topic`, `delete_topic`, `create_subscription`, `delete_subscription` | the actions of those names |
| `publish` | `Publish`, a batch of messages to all subscriptions of the topic |
| `pull` | `Pull`: the first `maxMessages` deliverable copies, leased |
| `acknowledge`, `modify_ack_deadline` | `Acknowledge`, `ModifyAckDeadline`, one `ack_id` at a time as in their loops |

### Requests of several calls

The modules below share a form. A variable (`snsReq`, `kmsReq`, `dynReq` and so on)
maps each client to what its request holds between two calls of the connection's
thread: `at` names the call that comes next, the other fields are the copies it made.
A read of a row and the write of the changed copy are two steps, and where the code
saves the whole row the second step writes all of it. History variables
with names like `Loose`, `Stray`, `Twin`, and fields `overtaken`, mark what was written
by a request that another one overtook; the properties then say that *only* such
overlaps lose or leave something, which is what the code does, and what a change of
it may not make worse.

### Sns and Notify

`snsTopics`, `snsSubs`, `snsMessages` are the tables, `sqsQueues` what arrived in each
queue, in order (module `Sqs` has the queues in full; `send_internal` is `Arrive`).

| Code | Action |
|---|---|
| `create_topic` | `CreateTopic`, `InsertTopic` |
| `delete_topic` | `DeleteTopic` |
| `set_topic_attribute`, `set_tags` | `SetTopicAttribute`, `WriteTopicAttributes` |
| `subscribe` | `Subscribe`, `LookForSubscription`, `InsertSubscription` |
| `unsubscribe`, `set_subscription_attribute` | `Unsubscribe`, `SetSubscriptionAttribute` (its two calls concern one row only and are one step) |
| `publish`, `next_sequence`, `fan_out`, `deliver`, `record_message` | `Publish` (`PublishAfter` says which messages were answered before), then `FanOut`: `NextSequence`, `ListSubscriptions`, `Deliver` and `SendToRedrive` per subscription, `RecordMessage` |
| a write with its `fire`, `delete_objects` | `WriteObject`, `DeleteNext`, then `ReadConfig`, `DeliverToQueue`, `DeliverToTopic` (a publish of `Sns`), `Fired`, `Answer` |
| `PutBucketNotificationConfiguration` | `PutNotification`, `StoreNotification` |

### Kms

Every request first takes the step `PurgeExpired`, then one step for each look-up: two
for an alias. `Configure` stands for the operations that change a key (`Changed` has
what each does to the copy), `Save` for the whole-row write. A ciphertext is the record
of the key, its material and the context; seeded keys have the material that follows
from their id. `CrashInPurge` stops between the two statements of the purge. `Day` is
the clock, in the unit of the waiting window.

### Cognito

`SignIn` keeps origins (a sign-in with its refresh token), hosted-UI sessions and proofs
(mailed codes, challenge sessions, authorization codes), each with the user it was made
for. Requests of the API are one transaction, so that one that fails changes nothing
(`PresentInVain`: the proof is good for another try); those of the hosted UI are `PrepareRequest`,
then `LoginPost`, `LoginNewPassword` or `AuthorizeWithSession`, then `FinishLogin` and
`Complete`. `UserPools` is sequential: its question is whether the several comparisons
of names and addresses agree. `Oauth` has the conditions of `prepare` and `token`
as functions of a request and a client's settings, and codes that outlive a change of
the settings. `SigningKeys` is the race of the first requests for a key.

### SES and mail

In `SesIdentities` reading is writing: `LoadIdentity` decides whether the verification
advances, and `RefreshIdentity` saves the row as it was read. `SesSending` walks through
`send_email`: the account, the sender's identities one by one, the configuration set,
the suppression list, `StoreMessage`, `CaptureCopy`, and then for each event
`RecordEvent`, `ReadDestinations`, `PublishTo` for each match, which may fail and lets the
next have its turn, `EventPublished`; a crash may end it anywhere.
`CrashInDeleteConfigurationSet` and `CrashInDeleteSet` stop between the two statements of a
deletion: destinations stay without their set, a rule set without its rules. `ReceiptRules`
reads lists and writes them back whole (`ReadRules`, `WriteRules`), and receives mail in the steps `Receive`, `ReceiveSet`,
`ReceiveList`, `RunRule`, `AcceptMail`. `Smtp` includes the client, which doubles leading
dots and may hang up.

### Stores

`Gcs` keeps upload sessions in memory: `PutChunk` takes any chunk of the upload that the
network may still hold, so chunks are repeated, late and out of order; `PutWhole`,
`PutStatus` and `ResumableCancel` are the other requests on a session. Storing is a step
after the removal of the session. `Blob` and `Dynamo` follow the form above; the sort keys
of `Dynamo` are texts with a type and a rank, of which the rows have the first and
`Compares` the rest, and an update may set key attributes (`PutKey`). In
`Listing` a name is its position in byte order and a client follows the markers it was
given while `PutListed` and `DeleteListed` change the rows; `Beyond` is the comparison
of each of the listings. In `Bedrock` a request takes its number and its answer in one step
(`Invoke`) and is answered after its latency (`Answer`); the splitting of streams is a pure
operator on a text, which is the byte offsets of its characters.

## Runs

| Run | Question | Answer |
|---|---|---|
| `SqsRedrive` | two clients on a standard queue with a dead-letter queue: can two hold one message, can a deleted one return, can a poison message escape its limit? | no: `InFlightExclusive`, `AckedIsGone`, `DeadLetterLimit`, `LossExplained` hold |
| `SqsAdmin` | standard and FIFO queues against queue deletion and re-creation, purge, attribute changes, retention, the edges of the deduplication window and restarts, with stale copies of the row | `LossExplained`, `DedupWindow` and `TablesSound` hold |
| `SqsFifo` | is a group of a FIFO queue delivered in order and held by one receive at a time, with expiring and extended visibility, and does a message that is dead-lettered let a later one of its group overtake it in the same receive? | `GroupOrder` and `GroupHeldByOneReceive` hold when the queue's delay does not change |
| `SqsPoll` | does a long poll always end? | yes, under fairness: `PollReturns` |
| `S3Versions` | do the two tables remain one history under every mix of operations? | yes: `TablesSound`, and the refinement `History` |
| `S3Requests` | does content read in the second call belong to the headers read in the first; does a part outlive its upload, also after a crash? | it does, as long as no reset happens (`ReadMatchesInfo`); no (`NoOrphanParts`) |
| `ServiceBus` | can a locked message be received twice or a settled one return, does every subscription keep its copy, does a deletion take too much or leave something behind? | the table implements `Delivery` (`PeekLock`); `KeptUntilCompleted` and `MessagesHaveQueue` hold |
| `PubSub` | the same of leases, late acknowledgements, modified deadlines and deletions cut short by a crash | the table implements `Delivery` (`AtLeastOnce`); `SubscriptionHolds` |
| `Stores` | can a chunk that comes late or twice spoil an upload; can two create what must be absent; can an item be lost to its table or an update to another; what does a listing miss, repeat, and does it end; do overlapping invocations follow the script, and do the chunks of a stream make the text? | `UploadsExact`, `CreatedIfAbsent`, `ItemsKept`, `PagesExact`, `ListingEnds` (under fairness), `ScriptFollowed` hold |
| `Sns` | is a message offered to every subscription that stays, in which order, what do overlapping requests lose or leave, and do S3 events reach all their targets? | `OfferedToAll`, `PublishedInOrder`, `TopicsKept`, `EventsDelivered` hold |
| `Cognito` | can anything that has ended be used, a proof twice (or not at all after a try in vain), a right by another user of the name; can logins, domains and pool ids go astray, a redirect leave the registered addresses, a token not verify? | no: `TokensHonoured`, `ProofsOnce`, `RightsOfUser`, `DirectorySound`, `GrantedAsAsked` hold |
| `KmsMail` | can a key go early or stay by anything but an overlap; do forced verifications stay, do the records of a send agree, are rules lost, recipients forgotten, messages cut or sent to the wrong ones? | `KeysKept`, `StatusEarned`, `SendsTraced`, `RulesKept`, `RecipientsAccountedFor`, `MailExact` hold |

A property of the last four runs, and some of the others, is a conjunction of parts that
are named and explained one by one in the module; most parts have a mutant of their own.

`GroupHeldByOneReceive` excuses a message brought back in flight by
`ChangeMessageVisibility` after its time had run out, because
`change_visibility_tx` asks for the current handle and not for a message still in
flight. `PerGroupOrdering` speaks of messages in the queue they were sent to: a row
that moves to a dead-letter queue keeps its id there, and rows are taken in id order.

`KeptUntilCompleted` holds for queues and topics whose names have no part `sub` (those of
subscriptions are free): the prefix by which `delete_topic` deletes is also a prefix of the virtual queues of a topic named
`t:sub:u`. `ServiceBus.cfg` has the topics `t` and `t:u`, which the prefix tells
apart. `PeekLock` and `AtLeastOnce` speak of a message, not of who settles it: lock
tokens and ack ids stay the same over redeliveries, so an earlier consumer can settle
or release what a later one holds. A Service Bus lock never runs out.
`OnlySinceCreated` excuses the names in `torn`: a subscription created under the name
of one whose deletion a crash cut short does find its messages.

No configuration checks deadlock: clients may stop calling, and the bounds on time,
ids and handles end every behaviour of the instances.

## Where the code and its documents disagree

The model has these behaviours because the code has them; no property promises
their absence, and several properties say exactly which overlap they need.

Statements of documents and comments that the code does not keep in every interleaving:

1. `aws/sqs/service.rs:4` says each public operation runs in a single transaction.
   `set_queue_attributes` writes back all the attributes it read in an earlier call, so
   one of two acknowledged updates can be lost. (`send` is two calls as well: a standard
   message sent while its queue is deleted is stored under an id that no queue has; a
   FIFO send fails, `FifoRowsHaveQueue`.)
2. `docs/developer-guide.md:337` promises per-group ordering. Only received messages
   block their group, so a message that is still delayed is overtaken once
   `DelaySeconds` has been lowered. `SqsFifo` keeps the delay constant.
3. `aws/s3/service.rs:726` says that `read_content` returns `None` when the version
   changed. A version is recognised by its id and `seq`; a reset (`control.rs:101`)
   restarts `seq`, so a null version written after the reset can pass for one from
   before. `S3Requests` has no reset.
4. A conditional PUT (`aws/s3/tests.rs:273` expects 412 for `if-none-match: *` on an
   existing object) checks in one call and writes in another; of two that overlap
   both succeed. The property of Blob Storage, whose check and write
   are one call, is `CreatedIfAbsent`.
5. `docs/developer-guide.md:677` names the chunk mode `fixed_chars` and line 695 says
   that booleans are true on odd request counts; `aws/bedrock` does neither so.

Behaviour that no document rules out, and a reader may not expect:

- SNS and SES receipt rules, KMS keys and SES identities are read in one call and written
  whole in a later one: what overlaps is lost. `TopicsKept`, `KeysKept`, `StatusEarned` and
  `RulesKept` say that nothing else is.
- A receipt rule's failed S3 or SNS action is only logged, and a stop action drops the
  recipients that only later rules would have matched.
- An SMTP session keeps its sender over `RSET` and after a message, and the end of the
  connection inside `DATA` delivers what came so far. `MailExact` speaks of messages
  whose end arrived.
- Cognito writes `tokens_valid_after` and never reads it; authorization codes outlive a
  global sign-out, access tokens their client's deletion; a challenge that was left open
  sets the password of a user confirmed meanwhile.
- An identity keeps naming a configuration set that was deleted. A crash in the deletion of
  the set, or a request on a destination that overlaps it, leaves destinations with which
  the next set of that name starts.
- A DynamoDB item is stored under the text of its key, and Query compares numbers: `1` and
  `1.0` are two items that one query finds, while a key of a type without an order
  is found by GetItem only. An UpdateItem that sets a key attribute leaves the item it has
  read and writes over the one that has the new key.
- The counters of Bedrock survive a reset. Its text generator subtracts `min_words` from
  `max_words` (`aws/bedrock/generator.rs:79`), which no configuration check orders.
- The continuation marker of a KMS listing is an offset, and that of S3 versions names a
  version: a row that goes away between two pages makes the listing skip, repeat or end
  early. `PagesExact` excuses exactly these.

## Bounds

Each bound is a constant named in its module and tested in a guard.

- `MaxQueues`, `MaxMessages`: one or two. Two messages are enough for an order or a
  group to be broken; two queues for a source and its dead-letter queue, or for
  a queue that is deleted and created again under its name. `SqsRedrive` needs one message only, since
  its properties speak of one message and its handles.
- `MaxReceipts`: up to four handles per message, which passes `maxReceiveCount = 2` in
  the source queue and again in the dead-letter queue.
- `MaxTime`: three or four units, with timeouts of 0, 1 and 2 and a deduplication
  window of 1, so that every timer can run out before, at and after any step.
- `Clients`: two where a request's stale copy of a queue matters; interchangeable,
  hence the symmetry. `SqsPoll` uses none, as symmetry is unsound for liveness. One
  in `SqsFifo`, where no attribute changes and a receive is one closure, so
  that two receives of one client interleave like those of two, and in the S3 runs,
  where writers are single steps and need no client.
- `MaxSeq` and `MaxVersions`: six writes and four version ids for one key, enough for
  a null version, versions before and after it, a marker, and the deletion of
  each. `S3Requests` has four writes, one version id, one upload and two part
  numbers: a read needs one version replaced by another with its id. Bytes are
  interchangeable; keys and buckets are independent of one another in all S3 code.
- `ServiceBus.cfg`: two messages and two receives of each, one queue, a topic with two
  subscriptions and one whose name continues it. One receiver: the first call of a
  receive only looks, so that receives that overlap can be reordered into receives
  that do not. `PubSub.cfg`: two subscriptions, two
  messages, two pulls of each, leases of one second. Longer leases only add
  steps of `Tick`, and the theorems hold for all of them.
- `MaxTries = 3` is the code's own limit.
- `Stores` (1.44 million states): two uploads of length three, so that there is a first, a
  middle and a last chunk and a chunk of another upload; listings of four names, three of
  them with up to two versions (`ListSeqs`), in pages of one and two; two clients for Blob Storage,
  Secrets Manager, DynamoDB and Bedrock; a table that is created twice, items whose sort key
  is one of two texts of a number, has no order or is missing (`Sent`), and updates of an
  attribute or of one and the sort key (`Sets`); four invocations,
  more than the script's cycle (`MaxEvery`, `MaxResponses`: two); texts of up to
  three characters of up to three bytes, streamed in chunks of one to four. No symmetry, because `ListingEnds` is a liveness property.
- `Sns` (828 thousand): two clients, a FIFO and a standard topic, one of them made again
  after its deletion, two subscriptions, two messages, one queue and its dead-letter
  queue, an event queue and an event topic.
- `Cognito` (621 thousand): two births of one username, so that every right can meet the
  next user of the name; two origins, two proofs, one hosted session in one browser; two
  first requests for a signing key; clients of two redirect addresses whose settings change
  once after a code.
- `KmsMail` (1.62 million): two clients on two keys (one seeded) and one alias, a waiting
  window of one day; two checks of a verification; one send, to two or three
  recipients, with two event destinations, one change (`MaxChanges`) and one publish that
  fails (`MaxLost`); two rule sets, lists of up to two rules (`MaxRules`) and two rule requests;
  SMTP sessions of five commands with messages around `MAX_MESSAGE`.
- Clients are interchangeable in `Sns`, `Cognito` and `KmsMail`, hence the symmetry. The
  components of one of these runs share no state beyond what the modules compose, so
  that a behaviour of one of them at a time loses nothing.
- `Operations` says which operations the clients of a run call. Every action
  fires in some passing run.

## Fairness

Two runs use fairness.

`SqsPoll`: weak fairness of the clock, and of each client's next
turn of its poll. The loop in `receive` sleeps and asks again without condition until
its deadline; tokio runs a woken task, and the connection's thread serves closures
in order, so neither step can be put off for ever while it is enabled. Other
requests get none: a client may stop calling at any time. `StartReceive` only starts
polls whose deadline lies inside `MaxTime`, so the bound on time does not
keep a poll from its end.

`Stores`: weak fairness of `Page`, the request for the next page. It is a request
of a client: `ListingEnds` says that a client that keeps asking reaches a last page,
while rows are put and deleted for as long as others like.

## Proofs

`tlapm` checks every theorem for all values of the constants that satisfy the named
assumption of the module that declares them (`SqsConstants`, `S3Constants`, `KmsConstants`
and so on): sets of names and inputs of the right kind, times and bounds that are
naturals, markers such as `None` that are no other value. TLC evaluates these assumptions
on every run. Three theorems have one more hypothesis on the constants, which their
statements spell out: `DelaysFixed`, `PoliciesStay` and `PlainNames`. A fourth leaves out an
operation (`"reset" \notin Operations`). The configurations of the runs that check these
properties satisfy them, and without them the code does not have the property.

Most properties are not inductive: they speak of what clients were told, while a step looks
only at rows and copies of rows. The invariants named below add what ties the
two together.

### SqsProofs

- `TypeCorrect`: `Spec => []TypeOK`.
- `Exclusive`: `Spec => []InFlightExclusive`. A receive chooses rows by `visible_at` and
  never looks at what clients were promised. `Inv` adds that copies and rows name ids already
  drawn (`CopiesInv`), that the handles issued for a message are not ahead of its row's
  (`ReceiptInv`), and that the latest handle's promise is what the row's `visible_at`
  says while the others' have run out (`HolderInv`).
- `AckedGone`: `Spec => []AckedIsGone`. `AckInv` adds that a handle is acknowledged
  only if it was issued; the delete removes the row that carries it, a later
  handle is a larger number, and ids are never drawn twice.
- `Deduplication`: `Spec => []DedupWindow`. `DedupInv` says that as long as the window of
  an accepted message runs and its queue exists, its deduplication row is there.
- `Sound`: `Spec => []TablesSound`. `FifoInv` adds that a row with a sequence number has a group and sits
  in a FIFO queue that exists, and that a redrive policy names a queue of its own type: otherwise a
  dead-letter move could break what sends keep.
- `NoSilentLoss`: `Spec => LossExplained`, an action property, action by action from `Inv`.
- `OneHolder`: `Spec => []GroupHeldByOneReceive`, with `ReceivedInv`: a row that counts as
  received carries a handle that was issued.
- `RedriveHolds` and `InOrder`: the two parts of `GroupOrder`. `RedriveHolds` is a property of
  one receive. `InOrder` is `DelaysFixed => (Spec => GroupOrder)`; `OrderInv` says
  that copies of a queue have its delay (`DelayInv`), that a message in the queue it was sent
  to, and never handed out, becomes visible when that delay is over (`HomeInv`), and that
  sequence numbers, ids and send times agree (`SequenceInv`). The lemma `EarlierReached` does the work: a receive that reaches the later
  of two messages of a group, neither handed out before, reaches the earlier one.
- `DeadLettersEarned`: a message is dead-lettered after as many handles from the queue it
  left as some policy asks for. `CountInv` says that a row's last `receive_count` handles come
  from the queue it is in, `MovedInv` the same of the queue it left.
- `RedriveLimit`: `PoliciesStay => (Spec => []DeadLetterLimit)`. `PoisonInv` has three parts:
  a dead-letter queue is older than the queues that name it (`StandInv`), so a message that was
  moved does not come back; the handles its queue issued for a row are the last
  `receive_count` ones, and within the limit (`LimitInv`); and all handles of a message from
  one queue lie among `max` in a row, also once it has left (`SpentInv`).

### S3Proofs

- `TypeCorrect`, `NoOrphanRows` (`RowsHaveBucket`), `Current` (`CurrentInObjects`) and
  `Sound` (`TablesSound`, all of them), from `Inv`, their conjunction. `CurrentInObjects` is
  inductive with its parts: unique version ids and sequence numbers per key, counters ahead of
  every row, and no archived rows in a bucket that never had versioning, without which a plain
  delete would uncover an old version.
- `Implements`: `Spec => History`, the refinement. Lemmas about sets of versions
  (`AddCurrent`, `RemoveCurrent`, `RemoveHidden`, `RetagCurrent`) say what the newest
  versions are after one of the steps of the history; one lemma per operation
  shows that its rows are such sets.
- `PartsHaveUpload`: `Spec => []NoOrphanParts`, inductive with the types, also over the crashes in
  the middle of a completion.
- `ReadsMatch`: without a reset, `Spec => []ReadMatchesInfo`. `InfoInv` says that what
  `object_info` returned is the content of any row that has that version id and sequence
  number, whichever table it is in by now; every write draws a new number.

### ServiceBusProofs

- `Implements`: `Spec => PeekLock`, the refinement. It needs `RowsOK`: rows are copies that
  were made, in one of three states, and no copy belongs to a message id yet to be
  drawn, so that what is inserted is new to `Delivery`. Lemmas treat the steps by what
  they do to the table: `Removing`, `Inserting`, `Receiving`, `Settling`, `Standing`.
- `NoOrphans`: `Spec => []MessagesHaveQueue`. Inductive as it stands, with the type of
  `subs`; the lemma `PrefixFound` says that the prefix finds the virtual queue of
  every subscription of the topic, whatever the names.
- `Keeps`: `PlainNames => (Spec => []KeptUntilCompleted)`. Lemmas about prefixes of
  sequences say that virtual queues of different subscriptions have different names, and
  that the prefix finds those of no other topic. `OwedInv` says that the copy that is owed is in
  the table under the name of the queue or subscription it is owed to.

### PubSubProofs

- `Implements`: `Spec => AtLeastOnce`, from a `RowsOK` with positive ack deadlines (the
  clamp of `create_subscription`): a pull really takes a copy out. The lemma `Leasing`
  covers time and modified deadlines: leases that only shrink are a `ComeBack`, leases
  that stay positive a `Retake`.
- `FanOut`: `Spec => []SubscriptionHolds`, that is `KeptUntilAcknowledged` and
  `OnlySinceCreated`, together inductive with `RowsOK`, which knows that copies are pairs of a
  subscription and an id and that a subscription's `since` is not ahead of the next id.

### StoresProofs

- `OneWinner`: `BlobSpec => CreatedIfAbsent`. `BlobInv` says that the history follows the
  tables and that a secret was created by one request; that the first writer's data stays is
  a property of each step.
- `UploadsStored`: `GcsSpec => []UploadsExact`. `GcsInv` says that the data of a session is the
  beginning of its upload, and that an upload waiting to be stored is whole, has left its
  session and was not stored before, so no chunk that comes late can store it again.
- `ItemsAreKept`: `DynSpec => []ItemsKept`. A request reads the table in one call and writes
  the item in another; `HeldItems` says that the key it holds follows the schema of the
  table of that birth, which the second call looks for. What Query finds by an item's key
  follows from where the items are (`QueryFinds`), for any texts, types and ranks of sort
  keys in which only numbers have more than one text.
- `PagesAreExact`: `ListSpec => []PagesExact`. `ListInv` says where the marker stands:
  what was shown lies before it in the order of that listing, and what lies before it and was
  there throughout was shown; of a KMS list exactly as many rows as the offset says. A page is what `First` chooses of a finite set, so the proof begins
  with the existence of first elements (a minimal counterexample, by `WFMin` on the
  naturals), and then has one lemma per comparison: names, versions, common prefixes,
  offsets.
- `ScriptIsFollowed`: `BedSpec => []ScriptFollowed`. The property compares the shares of
  the answers with one another; `BedInv` says how often each was given after n invocations
  (`Share`). Each step from n to n + 1 is arithmetic of quotient and remainder
  (`DivModStep`). The chunks of a stream need no invariant: `ChunksCarry` says that chunks in
  order which are together the text carry it, or a beginning when the stream fails, and
  `FixedCarry` that those of `split_chunks` are so.

### SnsProofs

- `TopicsAreKept`: `SnsSpec => TopicsKept`, from `ShapeInv` (types, and ids and numbers already
  drawn) and `TopicsInv`: a request that will write attributes holds those the topic has, unless
  it was overtaken, and a subscription equal to the one about to be inserted is younger
  than the look for it.
- `OffersToAll`: `SnsSpec => []OfferedToAll`. `OfferInv` says of a publish under way that what
  it was offered to, and what its list has left, are together all it owes.
- `PublishesInOrder`: `SnsSpec => []PublishedInOrder`. `OrderInv` says that the numbers of a topic are
  those it has given (`NumberInv`), and that queues are in order while the publishes under way
  are in nobody's past (`Arrivals`).
- `EventsAreDelivered`: `NotifySpec => []EventsDelivered`. `NotifyInv` has the same of events,
  under way until their write is answered: what was tried and what the configuration
  that was read has left are together all targets that are due.
  `NotifySpec` allows more than the part `events` of the run: all requests of SNS go on
  beside the events.

### CognitoProofs

- `HonouredOnce`, `RowsOfTheirUser`: `SignInSpec` implies `[]ProofsOnce` and `[]RightsOfUser`.
  The first has two sides: a proof is honoured once at most, and it is there until it is
  honoured, replaced or expires, or its user goes (`ProofsStay`), whatever fails meanwhile; an
  authorization code is spent by a failed exchange too. `SignInInv` adds that rows are younger than their user (`BornBefore`), that void proofs were
  spent, that ended origins are revoked, and that codes belong to confirmed users. The
  argument has two layers: every action has one of a few effects on the rows, and each effect
  keeps the invariant. The late insertions of the hosted UI (`siLoose`) are excused,
  by name, where the code lets an overtaken request insert a session or a sign-in.
- `TokensAreHonoured`: `SignInSpec /\ SigningKeysSpec => []TokensHonoured`; `SigningKeysInv`
  says that whoever holds a key holds the stored one.
- `GrantsAsAsked`: `OauthSpec => []GrantedAsAsked`; `OauthInv` numbers codes as they
  are made and ties a grant to its code, so that changed settings do not matter.
- `DirectoryIsSound`: `UserPoolsSpec => DirectorySound`, from `UserPoolsInv`.

### KmsMailProofs

- `KeysAreKept`: `KmsSpec => KeysKept`. `KmsInv` says that a row's date is the end of
  a window that was asked for, that only a schedule saves a key as waiting for its deletion, that another save
  has read a key that does not wait or was overtaken, and that seeded keys have their one
  material while other ids are never drawn again.
- `StatusIsEarned`: `SesSpec => []StatusEarned`. `SesIdsInv` relates the row, and each copy of
  it, to the reads counted (`IdentityOk`, `CopyOk`).
- `SendsAreTraced`: `SesSpec => []SendsTraced`. `SendInv` says of every point of a send what the
  event log, the mailbox and the topics have been told (`ToldLog`, `ToldInbox`,
  `ToldTopics`), so that an answer, or a crash, finds them agreeing. Publishes that fail count
  as tried (`Tried`): each destination that was there throughout is tried for exactly the events
  it wants, whichever of the others fail.
- `RulesAreKept` and `RecipientsAreAccountedFor`: `ReceiptRulesSpec` implies `[]RulesKept` and
  `[]RecipientsAccountedFor`. `RulesInv` says of a request that has read a list, and was not
  overtaken, that it holds what it makes of the list that is stored (`HoldOk`), and of a message
  being received that the rules before the next one have acted, each on those it is for, up to
  the first that stops (`ReceiptOk`). Lemmas say what inserting, removing, moving and
  reordering do to the names of a list; that a reordering which names each rule once
  names them all is a counting argument (`ReorderFacts`).
- `MailIsExact`: `SmtpSpec => []MailExact`, for sessions and mails of any length. `SmtpInv` says that
  the lines kept and the lines still to be sent are the message, that the size is the number of
  characters kept, and that the recipients are those the last commands of the log have
  named, with nothing before them that is still in force (`Envelope`).

### Checked by TLC only

`PollReturns` and `ListingEnds` are liveness, outside TLAPS. Every other property of the
runs is stated by a theorem.

Two properties have a theorem under a hypothesis, because the code does not
have them without it: `GroupOrder` while delays change (a later message with a shorter
delay overtakes), and `DeadLetterLimit` while policies change or queues are deleted
(`DeadLettersEarned` holds in any case). The same is true of `ReadMatchesInfo` with resets and
of `KeptUntilCompleted` with names that have a part `sub`.

## What is not modelled

- Bodies, MD5 sums, size limits and attribute syntax of SQS: a send is valid or not.
  Batch APIs are loops over the single operations.
- Bodies, message attributes, listings and JSON of Service Bus and Pub/Sub; the
  namespace, by which every statement of Service Bus filters.
- ACLs, CORS, POST policies, ranges and the XML of S3: they read, or compare strings,
  and change no state.
- How SNS filter policies match (`aws/sns/filter.rs`): recursion over JSON that decides for
  one subscription and one message; a subscription of the model wants a message or not.
- MIME and templates of SES; how mail is stored and shown in the mailbox.
- Cognito's password policies, the claims in its tokens, and pools with case-sensitive
  names.
- Phone numbers, preferred user names and the sub as names by which Cognito finds a user;
  clients from a seed file, whose settings `seed_client` stores unchecked.
- The time that a verification of an SES identity takes in the mode `delay`: the hours
  of `SesIdentities` end it, and no property measures them.
- What is lost in a mail that is not UTF-8: `MailExact` is about the lines that `read_data` hands
  on, which the mailbox stores as lossy text.
- Failing statements of the database. Failures that do occur without one (a publish
  of SNS, an insert that meets its key) are modelled where they have an effect.
- What Bedrock's generators make up: hashes of the model id, a path and the counter.
- Key conditions, filters and update expressions of DynamoDB as languages: a query compares
  the sort key by one operator, an update sets attributes and key attributes at once.
  `begins_with`, and the order and limit of a query's answer, are left out.
- The cryptography of KMS and Cognito: a ciphertext is what it was made from.
- Parsing, routing, configuration, dashboard pages and telemetry.

## Plan

1. `Sqs`; `S3` with `S3History`; their first proofs. Done.
2. `ServiceBus` and `PubSub` against `Delivery`, with their proofs. Done.
3. SNS fan-out into queues; S3 notifications composed with it. Done.
4. KMS, Cognito, SES, receipt rules and SMTP. Done.
5. Blob Storage, Cloud Storage, DynamoDB, Secrets Manager, Bedrock, listings. Done.
6. Proofs: the tables, the order and the dead letters of `Sqs`, the parts and reads of `S3`,
   `KeptUntilCompleted`, and the properties of the runs `Stores`, `Sns`, `Cognito` and
   `KmsMail` that need no induction over data. Done.
7. The remaining invariants, restated where a fold or a filter stood in the way of a proof:
   pages of listings, Bedrock's scripts, receipt rules and the SMTP session. Done.
