-------------------------------- MODULE Sqs --------------------------------
(***************************************************************************)
(* The SQS emulation of CloudTwin: src/src/aws/sqs/service.rs over the     *)
(* tables of src/src/aws/sqs/schema.rs.                                    *)
(*                                                                         *)
(* Every request runs in a task of its own.  All tasks share one SQLite    *)
(* connection whose thread runs their closures one at a time, so a closure *)
(* is one step here.  Nearly every operation of SqsService is TWO          *)
(* closures: get_queue reads the queue's row, and a second closure works   *)
(* with that copy.  Steps of other requests may come between the two.      *)
(*                                                                         *)
(* A request that has done get_queue is a record with pc = "got" that      *)
(* carries the copy; which operation it goes on with, and that operation's *)
(* arguments, are chosen by the second step, because nothing reads them    *)
(* before.  A request that names a receipt handle has pc = "handle" and    *)
(* carries it from the start: its client must have been given it.          *)
(***************************************************************************)
EXTENDS Integers, FiniteSets, Functions

CONSTANTS
    QueueNames,       \* names queues are created under
    FifoNames,        \* those that end in ".fifo"
    Clients,          \* concurrent requests
    None,             \* an absent optional value
    Keep,             \* an attribute a request does not name
    DefaultAttrs,     \* attributes of a queue created with none
    CreateRequests,   \* [name, attrs] pairs CreateQueue is called with
    Updates,          \* attribute maps SetQueueAttributes is called with
    Tags,             \* tags of TagQueue and UntagQueue
    SendInputs,       \* inputs of SendMessage
    ReceiveOptions,   \* options of ReceiveMessage
    Timeouts,         \* timeouts of ChangeMessageVisibility
    DEDUP_WINDOW,     \* length of the deduplication window
    MaxTags,          \* 50 in write_tags
    Operations,       \* the operations clients call
    MaxQueues, MaxMessages, MaxReceipts, MaxTime   \* bounds of the state space

VARIABLES
    queues,       \* table sqs_queues: id -> row
    messages,     \* table sqs_messages: id -> row
    dedup,        \* table sqs_fifo_dedup: <<queue_id, dedup_id>> -> expires_at
    nextQueue,    \* AUTOINCREMENT of sqs_queues
    nextMessage,  \* AUTOINCREMENT of sqs_messages
    now,          \* now_ms(), in units of one second
    reqs,         \* the requests being served
    issued,       \* what clients know of the receipt handles given to them
    acked,        \* the handles deleted through the queue that issued them
    accepted      \* every message SendMessage stored, with its queue and time

db == <<queues, messages, dedup, nextQueue, nextMessage>>
ghosts == <<issued, acked, accepted>>
vars == <<queues, messages, dedup, nextQueue, nextMessage, now, reqs,
          issued, acked, accepted>>

-----------------------------------------------------------------------------
(* Values *)

Redrives == [target : QueueNames, max : Nat \ {0}]

Attributes == [VisibilityTimeout : Nat, DelaySeconds : Nat,
               MessageRetentionPeriod : Nat, WaitTimeSeconds : Nat,
               RedrivePolicy : Redrives \cup {None},
               ContentBasedDeduplication : BOOLEAN]

AttributeUpdates == [VisibilityTimeout : Nat \cup {Keep},
                     DelaySeconds : Nat \cup {Keep},
                     MessageRetentionPeriod : Nat \cup {Keep},
                     WaitTimeSeconds : Nat \cup {Keep},
                     RedrivePolicy : Redrives \cup {None, Keep},
                     ContentBasedDeduplication : BOOLEAN \cup {Keep}]

QueueRows == [name : QueueNames, attrs : Attributes, tags : SUBSET Tags,
              fifo_seq : Nat]

\* A queue row as get_queue copies it out of the table.
Snapshots == [id : Nat \ {0}, name : QueueNames, attrs : Attributes,
              tags : SUBSET Tags]

GroupIds == {i.group : i \in SendInputs}

\* valid: the body, size and attribute checks that open send_tx succeed.
Inputs == [valid : BOOLEAN, body : {i.body : i \in SendInputs},
           group : GroupIds,
           dedup : {i.dedup : i \in SendInputs},
           delay : Nat \cup {None}]

Options == [max : Nat \ {0}, vt : Nat \cup {None}, wait : Nat \cup {None}]

\* A message's receipt is the number of handles written to its row so far: the
\* fresh UUIDs of new_receipt_handle, counted per message.  0 is the "pending"
\* value of insert_message.
MessageRows == [queue_id : Nat \ {0}, receipt : Nat, receive_count : Nat,
                visible_at : Nat, sent_at : Nat, group : GroupIds,
                sequence : Nat, dlq_source : QueueNames \cup {None}]

\* A handle is base64 of "queue|message_id|uuid|uuid".
Handles == (Nat \ {0}) \X Nat

\* What its client knows of a handle: the queue it came from, the time it is
\* good for, the handles that came with it, and whether that time was ever
\* extended after it had run out.
Grants == [queue : QueueNames, until : Nat, batch : SUBSET Handles, late : BOOLEAN]

Requests == [pc : {"idle"}]
            \cup [pc : {"got"}, q : Snapshots]
            \cup [pc : {"handle"}, q : Snapshots, h : Handles]
            \cup [pc : {"poll"}, name : QueueNames, opts : Options, deadline : Nat]

Idle == [pc |-> "idle"]

AllOperations == {"create", "delete", "purge", "getattrs", "setattrs", "tag",
                  "send", "receive", "ack", "change", "restart"}

ASSUME SqsConstants ==
    /\ FifoNames \subseteq QueueNames
    /\ None \notin QueueNames /\ None \notin Nat /\ None \notin Redrives
    /\ Keep \notin Nat /\ Keep # None
    /\ DefaultAttrs \in Attributes /\ DefaultAttrs.RedrivePolicy = None
    /\ CreateRequests \subseteq [name : QueueNames, attrs : AttributeUpdates]
    /\ Updates \subseteq AttributeUpdates
    /\ SendInputs \subseteq Inputs
    /\ ReceiveOptions \subseteq Options
    /\ Timeouts \subseteq Nat
    /\ DEDUP_WINDOW \in Nat
    /\ MaxTags \in Nat /\ MaxQueues \in Nat /\ MaxMessages \in Nat
    /\ MaxReceipts \in Nat /\ MaxTime \in Nat
    /\ Operations \subseteq AllOperations

-----------------------------------------------------------------------------
(* Queues *)

\* The row find_queue and require_queue select: names are UNIQUE.
Named(n) == {i \in DOMAIN queues : queues[i].name = n}

\* queue_from_row
Row(i) == [id |-> i, name |-> queues[i].name, attrs |-> queues[i].attrs,
           tags |-> queues[i].tags]

IsFifo(n) == n \in FifoNames

Put(f, k, v) == [x \in DOMAIN f \cup {k} |-> IF x = k THEN v ELSE f[x]]

\* What validate_attributes and normalize_redrive decide by looking at the
\* tables: the dead-letter target exists and is of the queue's own type, and a
\* FIFO attribute names a FIFO queue.
ValidAttributes(n, u) ==
    /\ u.RedrivePolicy \notin {None, Keep} =>
          /\ Named(u.RedrivePolicy.target) # {}
          /\ IsFifo(u.RedrivePolicy.target) = IsFifo(n)
    /\ u.ContentBasedDeduplication # Keep => IsFifo(n)

\* Mutant: the given attributes replace the stored ones.
ReplacedAttributes(a, u) == u

Merged(a, u) ==
    [VisibilityTimeout |->
        IF u.VisibilityTimeout = Keep THEN a.VisibilityTimeout ELSE u.VisibilityTimeout,
     DelaySeconds |->
        IF u.DelaySeconds = Keep THEN a.DelaySeconds ELSE u.DelaySeconds,
     MessageRetentionPeriod |->
        IF u.MessageRetentionPeriod = Keep THEN a.MessageRetentionPeriod
                                           ELSE u.MessageRetentionPeriod,
     WaitTimeSeconds |->
        IF u.WaitTimeSeconds = Keep THEN a.WaitTimeSeconds ELSE u.WaitTimeSeconds,
     RedrivePolicy |->
        IF u.RedrivePolicy = Keep THEN a.RedrivePolicy ELSE u.RedrivePolicy,
     ContentBasedDeduplication |->
        IF u.ContentBasedDeduplication = Keep THEN a.ContentBasedDeduplication
                                              ELSE u.ContentBasedDeduplication]

\* CreateQueue of a name that exists answers from the row it finds and changes
\* nothing, so only the insertion is a step.
CreateQueue(r) ==
    /\ "create" \in Operations
    /\ nextQueue <= MaxQueues
    /\ ValidAttributes(r.name, r.attrs)
    /\ Named(r.name) = {}
    /\ queues' = Put(queues, nextQueue,
                     [name |-> r.name, attrs |-> Merged(DefaultAttrs, r.attrs),
                      tags |-> {}, fifo_seq |-> 0])
    /\ nextQueue' = nextQueue + 1
    /\ UNCHANGED <<messages, dedup, nextMessage, now, reqs, ghosts>>

\* First closure of every other operation.  The operation ends here, with
\* QueueDoesNotExist, when no row has the name.
GetQueue(c, n) ==
    /\ reqs[c].pc = "idle"
    /\ \E i \in Named(n) :
          \/ reqs' = [reqs EXCEPT ![c] = [pc |-> "got", q |-> Row(i)]]
          \/ \E h \in DOMAIN issued :
                reqs' = [reqs EXCEPT ![c] = [pc |-> "handle", q |-> Row(i), h |-> h]]
    /\ UNCHANGED <<db, now, ghosts>>

Answer(c) == reqs' = [reqs EXCEPT ![c] = Idle]

\* Mutant: the deduplication rows stay behind.
DeleteQueueKeepingDedup(c) ==
    /\ "delete" \in Operations
    /\ reqs[c].pc = "got"
    /\ LET id == reqs[c].q.id IN
          /\ messages' = Restrict(messages,
                {m \in DOMAIN messages : messages[m].queue_id # id})
          /\ queues' = Restrict(queues, DOMAIN queues \ {id})
    /\ Answer(c)
    /\ UNCHANGED <<dedup, nextQueue, nextMessage, now, ghosts>>

DeleteQueue(c) ==
    /\ "delete" \in Operations
    /\ reqs[c].pc = "got"
    /\ LET id == reqs[c].q.id IN
          /\ messages' = Restrict(messages,
                {m \in DOMAIN messages : messages[m].queue_id # id})
          /\ dedup' = Restrict(dedup, {k \in DOMAIN dedup : k[1] # id})
          /\ queues' = Restrict(queues, DOMAIN queues \ {id})
    /\ Answer(c)
    /\ UNCHANGED <<nextQueue, nextMessage, now, ghosts>>

PurgeQueue(c) ==
    /\ "purge" \in Operations
    /\ reqs[c].pc = "got"
    /\ messages' = Restrict(messages,
          {m \in DOMAIN messages : messages[m].queue_id # reqs[c].q.id})
    /\ Answer(c)
    /\ UNCHANGED <<queues, dedup, nextQueue, nextMessage, now, ghosts>>

\* The UPDATE writes the copy's attributes, merged, over whatever the row holds
\* now, and matches no row when the queue is gone.
SetQueueAttributes(c) ==
    /\ "setattrs" \in Operations
    /\ reqs[c].pc = "got"
    /\ \E u \in Updates :
          LET q == reqs[c].q IN
          queues' = [i \in DOMAIN queues |->
                IF i = q.id /\ ValidAttributes(q.name, u)
                THEN [queues[i] EXCEPT !.attrs = Merged(q.attrs, u)]
                ELSE queues[i]]
    /\ Answer(c)
    /\ UNCHANGED <<messages, dedup, nextQueue, nextMessage, now, ghosts>>

WriteTags(c, tags) ==
    queues' = [i \in DOMAIN queues |->
        IF i = reqs[c].q.id /\ Cardinality(tags) <= MaxTags
        THEN [queues[i] EXCEPT !.tags = tags] ELSE queues[i]]

TagQueue(c) ==
    /\ "tag" \in Operations
    /\ reqs[c].pc = "got"
    /\ \E t \in Tags : \/ WriteTags(c, reqs[c].q.tags \cup {t})
                       \/ WriteTags(c, reqs[c].q.tags \ {t})
    /\ Answer(c)
    /\ UNCHANGED <<messages, dedup, nextQueue, nextMessage, now, ghosts>>

-----------------------------------------------------------------------------
(* Messages *)

\* Mutant: a message goes in the last instant of its retention period.
RetainedTooShort(q) ==
    Restrict(messages, {m \in DOMAIN messages :
        ~ /\ messages[m].queue_id = q.id
          /\ messages[m].sent_at > 0
          /\ messages[m].sent_at + q.attrs.MessageRetentionPeriod <= now})

\* refresh: rows of the queue past the retention period the copy names go.
Retained(q) ==
    Restrict(messages, {m \in DOMAIN messages :
        ~ /\ messages[m].queue_id = q.id
          /\ messages[m].sent_at > 0
          /\ messages[m].sent_at + q.attrs.MessageRetentionPeriod < now})

\* Mutant: the window is open at its end.
LiveDedupExclusive == Restrict(dedup, {k \in DOMAIN dedup : dedup[k] > now})

\* refresh: the expired deduplication rows of every queue go.
LiveDedup == Restrict(dedup, {k \in DOMAIN dedup : dedup[k] >= now})

GetQueueAttributes(c) ==
    /\ "getattrs" \in Operations
    /\ reqs[c].pc = "got"
    /\ messages' = Retained(reqs[c].q)
    /\ dedup' = LiveDedup
    /\ Answer(c)
    /\ UNCHANGED <<queues, nextQueue, nextMessage, now, ghosts>>

\* The deduplication id of a FIFO send: the given one or, when the queue asks
\* for it, the hash of the body, which stands for itself.
DedupId(q, in) ==
    IF in.dedup # None THEN in.dedup
    ELSE IF q.attrs.ContentBasedDeduplication THEN in.body ELSE None

\* The early returns of send_tx that are errors.  A FIFO send to a row that is
\* gone fails on reading its fifo_seq; a standard send does not look.
SendFails(q, in) ==
    \/ ~in.valid
    \/ IsFifo(q.name) /\ \/ in.delay # None
                         \/ in.group = None
                         \/ DedupId(q, in) = None
                         \/ q.id \notin DOMAIN queues

\* A live row in sqs_fifo_dedup answers for the message that made it.
Duplicate(q, in) ==
    /\ IsFifo(q.name)
    /\ <<q.id, DedupId(q, in)>> \in DOMAIN LiveDedup

Delay(q, in) == IF in.delay = None THEN q.attrs.DelaySeconds ELSE in.delay

\* Both kinds of early return drop the transaction, refresh included.
SendUnstored(c) ==
    /\ "send" \in Operations
    /\ reqs[c].pc = "got"
    /\ \E in \in SendInputs : SendFails(reqs[c].q, in) \/ Duplicate(reqs[c].q, in)
    /\ Answer(c)
    /\ UNCHANGED <<db, now, ghosts>>

SendStored(c) ==
    /\ "send" \in Operations
    /\ reqs[c].pc = "got"
    /\ nextMessage <= MaxMessages
    /\ \E in \in SendInputs :
          LET q == reqs[c].q
              fifo == IsFifo(q.name)
              seq == IF fifo THEN queues[q.id].fifo_seq + 1 ELSE 0
          IN
          /\ ~SendFails(q, in) /\ ~Duplicate(q, in)
          /\ queues' = IF fifo THEN [queues EXCEPT ![q.id].fifo_seq = seq] ELSE queues
          /\ messages' = Put(Retained(q), nextMessage,
                [queue_id |-> q.id, receipt |-> 0, receive_count |-> 0,
                 visible_at |-> now + Delay(q, in), sent_at |-> now,
                 group |-> in.group, sequence |-> seq, dlq_source |-> None])
          /\ dedup' = IF fifo
                      THEN Put(LiveDedup, <<q.id, DedupId(q, in)>>, now + DEDUP_WINDOW)
                      ELSE LiveDedup
          /\ accepted' = Put(accepted, nextMessage,
                [queue_id |-> q.id, at |-> now,
                 dedup |-> IF fifo THEN DedupId(q, in) ELSE None])
    /\ nextMessage' = nextMessage + 1
    /\ Answer(c)
    /\ UNCHANGED <<nextQueue, now, issued, acked>>

-----------------------------------------------------------------------------
(* Receiving: ms is the message table after refresh, q the queue's row *)

\* Mutant: a message counts as visible one instant early.
CandidatesEarly(ms, q) ==
    {m \in DOMAIN ms : ms[m].queue_id = q.id /\ ms[m].visible_at <= now + 1}

Candidates(ms, q) ==
    {m \in DOMAIN ms : ms[m].queue_id = q.id /\ ms[m].visible_at <= now}

\* The queue the redrive policy names, looked up by name; none when it is gone.
DeadLetterQueues(q) ==
    IF q.attrs.RedrivePolicy = None THEN {} ELSE Named(q.attrs.RedrivePolicy.target)

\* Mutant: one receive too early.
ExhaustedEarly(ms, q, m) ==
    /\ DeadLetterQueues(q) # {}
    /\ ms[m].receive_count >= q.attrs.RedrivePolicy.max - 1

\* Mutant: one receive too late.
ExhaustedLate(ms, q, m) ==
    /\ DeadLetterQueues(q) # {}
    /\ ms[m].receive_count > q.attrs.RedrivePolicy.max

Exhausted(ms, q, m) ==
    /\ DeadLetterQueues(q) # {}
    /\ ms[m].receive_count >= q.attrs.RedrivePolicy.max

\* Mutant: a message in flight does not hold back its group.
NoBlockedGroups(ms, q) == {}

\* Groups with a received message that is not visible again yet.
BlockedGroups(ms, q) ==
    {ms[m].group : m \in {k \in DOMAIN ms : /\ ms[k].queue_id = q.id
                                            /\ ms[k].visible_at > now
                                            /\ ms[k].receive_count > 0}}

\* Mutant: a group that just lost a message to the dead-letter queue goes on.
SkippedInFlightOnly(ms, q, m) ==
    /\ IsFifo(q.name)
    /\ ms[m].group # None
    /\ ms[m].group \in BlockedGroups(ms, q)

\* The loop skips a group that is blocked, or that lost an earlier message to
\* the dead-letter queue in this very call.
Skipped(ms, q, m) ==
    /\ IsFifo(q.name)
    /\ ms[m].group # None
    /\ \/ ms[m].group \in BlockedGroups(ms, q)
       \/ \E k \in Candidates(ms, q) : /\ k < m
                                       /\ ms[k].group = ms[m].group
                                       /\ Exhausted(ms, q, k)

Ready(ms, q) ==
    {m \in Candidates(ms, q) : ~Skipped(ms, q, m) /\ ~Exhausted(ms, q, m)}

\* Mutant: newest first.
ReachedNewestFirst(ms, q, opts, m) ==
    Cardinality({k \in Ready(ms, q) : k > m}) < opts.max

\* The loop, in row order, stops when opts.max messages are out.
Reached(ms, q, opts, m) == Cardinality({k \in Ready(ms, q) : k < m}) < opts.max

Delivered(ms, q, opts) == {m \in Ready(ms, q) : Reached(ms, q, opts, m)}

DeadLettered(ms, q, opts) ==
    {m \in Candidates(ms, q) : /\ ~Skipped(ms, q, m)
                               /\ Exhausted(ms, q, m)
                               /\ Reached(ms, q, opts, m)}

VisibilityTimeout(q, opts) ==
    IF opts.vt = None THEN q.attrs.VisibilityTimeout ELSE opts.vt

ReceivedRow(r, vt) ==
    [r EXCEPT !.receipt = r.receipt + 1, !.receive_count = r.receive_count + 1,
              !.visible_at = now + vt]

\* A moved row keeps its id, so it may sort before rows the target already has.
MovedRow(r, q, target) ==
    [r EXCEPT !.queue_id = target, !.receipt = r.receipt + 1, !.receive_count = 0,
              !.visible_at = now, !.dlq_source = q.name]

\* Past the checks of receive: the long poll begins.
StartReceive(c) ==
    /\ "receive" \in Operations
    /\ reqs[c].pc = "got"
    /\ \E opts \in ReceiveOptions :
          LET wait == IF opts.wait = None THEN reqs[c].q.attrs.WaitTimeSeconds
                                          ELSE opts.wait
          IN
          /\ now + wait <= MaxTime   \* bound: the deadline is reached
          /\ reqs' = [reqs EXCEPT ![c] =
                [pc |-> "poll", name |-> reqs[c].q.name, opts |-> opts,
                 deadline |-> now + wait]]
    /\ UNCHANGED <<db, now, ghosts>>

\* Mutant: a poll of a queue that is gone keeps asking.
PollMissingForever(c) ==
    /\ reqs[c].pc = "poll"
    /\ Named(reqs[c].name) = {}
    /\ UNCHANGED vars

\* One turn of the poll finds the queue gone.
PollMissing(c) ==
    /\ reqs[c].pc = "poll"
    /\ Named(reqs[c].name) = {}
    /\ Answer(c)
    /\ UNCHANGED <<db, now, ghosts>>

\* Rows exhausted by their receives go to the target; it is q itself when no
\* row can be.
Targets(q) == IF DeadLetterQueues(q) = {} THEN {q.id} ELSE DeadLetterQueues(q)

NewHandles(ms, out) == {<<m, ms[m].receipt + 1>> : m \in out}

ReceiveTx(q, opts, target) ==
    LET ms == Retained(q)
        out == Delivered(ms, q, opts)
        dead == DeadLettered(ms, q, opts)
        vt == VisibilityTimeout(q, opts)
        handles == NewHandles(ms, out)
    IN
    /\ \A h \in handles : h[2] <= MaxReceipts   \* bound
    /\ messages' = [m \in DOMAIN ms |->
          IF m \in out THEN ReceivedRow(ms[m], vt)
          ELSE IF m \in dead THEN MovedRow(ms[m], q, target)
          ELSE ms[m]]
    /\ dedup' = LiveDedup
    /\ issued' = [h \in DOMAIN issued \cup handles |->
          IF h \in handles
          THEN [queue |-> q.name, until |-> now + vt, batch |-> handles, late |-> FALSE]
          ELSE issued[h]]

\* One turn of the poll: require_queue and receive_tx in one closure.  It is the
\* last when it handed something out or the deadline has come.
Poll(c) ==
    /\ reqs[c].pc = "poll"
    /\ \E i \in Named(reqs[c].name), target \in DOMAIN queues :
          /\ target \in Targets(Row(i))
          /\ ReceiveTx(Row(i), reqs[c].opts, target)
          /\ \/ /\ \/ Delivered(Retained(Row(i)), Row(i), reqs[c].opts) # {}
                   \/ now >= reqs[c].deadline
                /\ Answer(c)
             \/ /\ Delivered(Retained(Row(i)), Row(i), reqs[c].opts) = {}
                /\ now < reqs[c].deadline
                /\ UNCHANGED reqs
    /\ UNCHANGED <<queues, nextQueue, nextMessage, now, acked, accepted>>

\* Mutant: any handle ever issued for the message will do.
HoldsAnyReceipt(m, h, id) ==
    /\ m = h[1]
    /\ messages[m].queue_id = id

\* Mutant: only a message in flight can be named.
HoldsInFlight(m, h, id) ==
    /\ m = h[1]
    /\ messages[m].queue_id = id
    /\ messages[m].receipt = h[2]
    /\ messages[m].visible_at > now

\* The row a handle still names: the last handle written wins.
Holds(m, h, id) ==
    /\ m = h[1]
    /\ messages[m].queue_id = id
    /\ messages[m].receipt = h[2]

\* A handle that is well formed is answered Ok whether or not a row matched.
DeleteMessage(c) ==
    /\ "ack" \in Operations
    /\ reqs[c].pc = "handle"
    /\ LET h == reqs[c].h IN
          /\ messages' = Restrict(messages,
                {m \in DOMAIN messages : ~Holds(m, h, reqs[c].q.id)})
          /\ acked' = IF issued[h].queue = reqs[c].q.name THEN acked \cup {h} ELSE acked
    /\ Answer(c)
    /\ UNCHANGED <<queues, dedup, nextQueue, nextMessage, now, issued, accepted>>

\* The UPDATE asks for the current handle, not for a message still in flight.
\* When it matches no row the answer is an error and nothing changes.
ChangeVisibility(c) ==
    /\ "change" \in Operations
    /\ reqs[c].pc = "handle"
    /\ \E timeout \in Timeouts :
          LET h == reqs[c].h
              hit == {m \in DOMAIN messages : Holds(m, h, reqs[c].q.id)}
          IN
          /\ messages' = [m \in DOMAIN messages |->
                IF m \in hit THEN [messages[m] EXCEPT !.visible_at = now + timeout]
                             ELSE messages[m]]
          /\ issued' = IF hit = {} THEN issued
                       ELSE [issued EXCEPT ![h].until = now + timeout,
                                ![h].late = @ \/ \E m \in hit :
                                                    messages[m].visible_at <= now]
    /\ Answer(c)
    /\ UNCHANGED <<queues, dedup, nextQueue, nextMessage, now, acked, accepted>>

-----------------------------------------------------------------------------
(* The environment *)

Tick ==
    /\ now < MaxTime
    /\ now' = now + 1
    /\ UNCHANGED <<db, reqs, ghosts>>

\* The process stops and starts again on the same database file: the requests
\* it was serving are lost, every committed transaction stays.
Restart ==
    /\ "restart" \in Operations
    /\ reqs' = [c \in Clients |-> Idle]
    /\ UNCHANGED <<db, now, ghosts>>

Init ==
    /\ queues = [i \in {} |-> {}]
    /\ messages = [m \in {} |-> {}]
    /\ dedup = [k \in {} |-> {}]
    /\ nextQueue = 1
    /\ nextMessage = 1
    /\ now = 1
    /\ reqs = [c \in Clients |-> Idle]
    /\ issued = [h \in {} |-> {}]
    /\ acked = {}
    /\ accepted = [m \in {} |-> {}]

ClientStep(c) ==
    \/ \E n \in QueueNames : GetQueue(c, n)
    \/ DeleteQueue(c)
    \/ PurgeQueue(c)
    \/ GetQueueAttributes(c)
    \/ SetQueueAttributes(c)
    \/ TagQueue(c)
    \/ SendUnstored(c)
    \/ SendStored(c)
    \/ StartReceive(c)
    \/ PollMissing(c)
    \/ Poll(c)
    \/ DeleteMessage(c)
    \/ ChangeVisibility(c)

Next ==
    \/ \E r \in CreateRequests : CreateQueue(r)
    \/ \E c \in Clients : ClientStep(c)
    \/ Tick
    \/ Restart

Spec == Init /\ [][Next]_vars

\* tokio runs a woken task again, the poll loop always asks again after its
\* sleep, and the clock advances.
FairSpec ==
    /\ Spec
    /\ WF_vars(Tick)
    /\ \A c \in Clients : WF_vars(Poll(c) \/ PollMissing(c))

-----------------------------------------------------------------------------
(* Properties *)

\* Every table, request and client-side record has the shape the code gives it:
\* ids stay below their AUTOINCREMENT counters, a message's receipt, count and
\* times are naturals, a request's copy is a whole queue row.
TypeOK ==
    /\ nextQueue \in Nat \ {0} /\ nextMessage \in Nat \ {0} /\ now \in Nat
    /\ DOMAIN queues \subseteq 1 .. (nextQueue - 1)
    /\ \A i \in DOMAIN queues : queues[i] \in QueueRows
    /\ DOMAIN messages \subseteq 1 .. (nextMessage - 1)
    /\ \A m \in DOMAIN messages : messages[m] \in MessageRows
    /\ \A k \in DOMAIN dedup : dedup[k] \in Nat
    /\ reqs \in [Clients -> Requests]
    /\ DOMAIN issued \subseteq Handles
    /\ \A h \in DOMAIN issued : issued[h] \in Grants
    /\ DOMAIN accepted = 1 .. (nextMessage - 1)

\* Visibility timeouts (receive_tx, change_visibility_tx): until the time a
\* client was promised for the handle it got, no other handle of that message
\* is given out, the message is not moved, and no stale handle can shorten or
\* extend the promise.
InFlightExclusive ==
    \A h \in DOMAIN issued :
        now < issued[h].until /\ h[1] \in DOMAIN messages
            => /\ messages[h[1]].receipt = h[2]
               /\ messages[h[1]].visible_at = issued[h].until

\* DeleteMessage (delete_message_tx): a message whose latest handle was
\* deleted through the queue that issued it is never in a table again, however
\* late the delete came; in particular it is never delivered again.
AckedIsGone ==
    \A m \in DOMAIN messages : <<m, messages[m].receipt>> \notin acked

\* The row of a queue and the copies of it that requests hold.
Versions(id) ==
    {queues[i] : i \in DOMAIN queues \cap {id}}
    \cup {reqs[c].q : c \in {d \in Clients : reqs[d].pc = "got" /\ reqs[d].q.id = id}}

\* A stored message leaves the table only because its queue is deleted or
\* purged, because it is older than a retention period that its queue has or
\* had when a request in flight copied it, or because the client that holds its
\* latest handle deleted it.  A stale handle deletes nothing.
LossExplained ==
    [][\A m \in DOMAIN messages \ DOMAIN messages' :
          LET r == messages[m] IN
          \/ r.queue_id \notin DOMAIN queues'
          \/ /\ acked' = acked
             /\ \A k \in DOMAIN messages' : messages'[k].queue_id # r.queue_id
          \/ \E q \in Versions(r.queue_id) :
                r.sent_at + q.attrs.MessageRetentionPeriod < now
          \/ <<m, r.receipt>> \in acked']_vars

\* The handles a client was given for message m by the queue named n.
HandlesFrom(m, n) == {h \in DOMAIN issued : h[1] = m /\ issued[h].queue = n}

\* Smallest and largest maxReceiveCount any request names.
ReceiveLimits ==
    {u.RedrivePolicy.max : u \in {v \in Updates \cup {r.attrs : r \in CreateRequests} :
                                    v.RedrivePolicy \notin {None, Keep}}}

\* Dead-letter redrive (receive_tx): a message carries a source queue's mark only
\* after that queue handed it out maxReceiveCount times; a lost policy race or
\* a receive that returned nothing never costs a message its attempts.
DeadLetterEarned ==
    \A m \in DOMAIN messages :
        messages[m].dlq_source # None =>
            \E max \in ReceiveLimits :
                Cardinality(HandlesFrom(m, messages[m].dlq_source)) >= max

\* While every queue that names a dead-letter queue has named it since it was
\* created, and that queue stays, no queue hands a message out more than
\* maxReceiveCount times.
PoisonBounded ==
    \A m \in DOMAIN accepted, i \in DOMAIN queues :
        queues[i].attrs.RedrivePolicy # None =>
            Cardinality(HandlesFrom(m, queues[i].name)) <= queues[i].attrs.RedrivePolicy.max

\* FIFO deduplication (send_tx): two messages stored in one queue under one
\* deduplication id are more than the window apart, whatever happened to the
\* first in between: received, deleted, purged or dead-lettered.
DedupWindow ==
    \A a, b \in DOMAIN accepted :
        /\ a < b
        /\ accepted[a].dedup # None
        /\ accepted[a].dedup = accepted[b].dedup
        /\ accepted[a].queue_id = accepted[b].queue_id
        => accepted[b].at > accepted[a].at + DEDUP_WINDOW

\* A FIFO message and the row it was sent to live together: no send racing
\* with DeleteQueue leaves a FIFO message or a deduplication row of a queue
\* that is gone.
FifoRowsHaveQueue ==
    /\ \A k \in DOMAIN dedup : k[1] \in DOMAIN queues
    /\ \A m \in DOMAIN messages :
          messages[m].sequence > 0 => messages[m].queue_id \in DOMAIN queues

\* Per-group ordering of a FIFO queue: of two messages of a group that sit in
\* the queue they were sent to, the later is not handed out before the earlier.
PerGroupOrdering ==
    \A a, b \in DOMAIN messages :
        /\ messages[a].queue_id = messages[b].queue_id
        /\ messages[a].group = messages[b].group
        /\ 0 < messages[a].sequence /\ messages[a].sequence < messages[b].sequence
        /\ messages[a].dlq_source = None /\ messages[b].dlq_source = None
        /\ messages[b].receive_count > 0
        => messages[a].receive_count > 0

\* Dead-lettering in a FIFO queue (receive_tx: "Later messages of this group
\* wait until the next receive"): no receive call moves a message out and hands
\* out one of the same group that was sent after it.
RedriveHoldsGroup ==
    [][\A a, b \in DOMAIN messages \cap DOMAIN messages' :
          /\ messages'[a].dlq_source # messages[a].dlq_source
          /\ messages'[b].receive_count > messages[b].receive_count
          /\ messages[a].queue_id = messages[b].queue_id
          /\ messages[a].group = messages[b].group /\ messages[a].sequence > 0
          => b < a]_vars

InFlight(m) == messages[m].visible_at > now /\ messages[m].receive_count > 0

\* A FIFO group is worked on by one consumer: messages of it that are in flight
\* together were handed out by one receive call, unless a client brought one
\* back in flight with ChangeMessageVisibility after its time had run out.
GroupHeldByOneReceive ==
    \A a, b \in DOMAIN messages :
        LET ha == <<a, messages[a].receipt>>
            hb == <<b, messages[b].receipt>>
        IN
        /\ messages[a].queue_id = messages[b].queue_id
        /\ messages[a].sequence > 0 /\ messages[b].sequence > 0
        /\ messages[a].group = messages[b].group
        /\ InFlight(a) /\ InFlight(b)
        => issued[ha].late \/ issued[hb].late \/ ha \in issued[hb].batch

\* Long polling (receive): every ReceiveMessage returns: at its deadline, when
\* it finds a message, or because its queue is gone.
PollReturns ==
    \A c \in Clients : reqs[c].pc = "poll" ~> reqs[c].pc = "idle"

\* The tables and requests have their shape, and no FIFO row is without its queue.
TablesSound == TypeOK /\ FifoRowsHaveQueue

\* Dead-letter redrive, from both sides: never early, and never late.
DeadLetterLimit == DeadLetterEarned /\ PoisonBounded

\* The order within a group, over time and within one receive that dead-letters.
GroupOrder == []PerGroupOrdering /\ RedriveHoldsGroup
=============================================================================
