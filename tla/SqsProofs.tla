----------------------------- MODULE SqsProofs -----------------------------
(***************************************************************************)
(* Theorems about the SQS emulation, for every number of queues, messages, *)
(* clients and seconds.                                                    *)
(***************************************************************************)
EXTENDS Sqs, FiniteSetTheorems, TLAPS

-----------------------------------------------------------------------------
(* The inductive invariant *)

\* Requests hold copies of rows that were in the table, and names never change.
CopiesInv ==
    /\ \A i, j \in DOMAIN queues : queues[i].name = queues[j].name => i = j
    /\ \A c \in Clients :
          reqs[c].pc \in {"got", "handle"} =>
             /\ reqs[c].q.id < nextQueue
             /\ reqs[c].q.id \in DOMAIN queues =>
                   queues[reqs[c].q.id].name = reqs[c].q.name
    /\ \A c \in Clients : reqs[c].pc = "handle" => reqs[c].h \in DOMAIN issued

\* Of the handles issued for a message only the one in its row can have time
\* left, and then as much as the row says.
ReceiptInv ==
    \A h \in DOMAIN issued :
        /\ h[1] < nextMessage
        /\ h[1] \in DOMAIN messages =>
              /\ h[2] <= messages[h[1]].receipt
              /\ h[2] = messages[h[1]].receipt =>
                    issued[h].until = messages[h[1]].visible_at
              /\ h[2] < messages[h[1]].receipt => issued[h].until <= now

\* A message whose row holds an issued handle sits in the queue that issued it,
\* and a request that names that handle and that queue found the same row.
HolderInv ==
    /\ \A h \in DOMAIN issued :
          h[1] \in DOMAIN messages /\ h[2] = messages[h[1]].receipt =>
             /\ messages[h[1]].queue_id \in DOMAIN queues
             /\ queues[messages[h[1]].queue_id].name = issued[h].queue
    /\ \A c \in Clients :
          LET h == reqs[c].h IN
          /\ reqs[c].pc = "handle"
          /\ h[1] \in DOMAIN messages
          /\ h[2] = messages[h[1]].receipt
          /\ reqs[c].q.name = issued[h].queue
          => messages[h[1]].queue_id = reqs[c].q.id

\* A handle that was deleted through its queue is not in any row.
AckInv ==
    /\ acked \subseteq DOMAIN issued
    /\ \A h \in acked : h[1] \in DOMAIN messages => h[2] < messages[h[1]].receipt

\* Inside the window of a message the queue's deduplication row is there.
DedupInv ==
    \A a \in DOMAIN accepted :
        LET key == <<accepted[a].queue_id, accepted[a].dedup>> IN
        /\ accepted[a].queue_id \in Nat /\ accepted[a].queue_id < nextQueue
        /\ accepted[a].at \in Nat
        /\ /\ accepted[a].dedup # None
           /\ accepted[a].queue_id \in DOMAIN queues
           /\ now <= accepted[a].at + DEDUP_WINDOW
           => key \in DOMAIN dedup /\ accepted[a].at + DEDUP_WINDOW <= dedup[key]

Inv == TypeOK /\ CopiesInv /\ ReceiptInv /\ HolderInv /\ AckInv

-----------------------------------------------------------------------------
(* What the helpers return *)

LEMMA RetainedFacts ==
    ASSUME NEW q
    PROVE  /\ DOMAIN Retained(q) \subseteq DOMAIN messages
           /\ \A m \in DOMAIN Retained(q) : Retained(q)[m] = messages[m]
BY DEF Retained, Restrict

LEMMA LiveDedupFacts ==
    /\ DOMAIN LiveDedup = {k \in DOMAIN dedup : dedup[k] >= now}
    /\ \A k \in DOMAIN LiveDedup : LiveDedup[k] = dedup[k]
BY DEF LiveDedup, Restrict

LEMMA MergedType ==
    ASSUME NEW a \in Attributes, NEW u \in AttributeUpdates
    PROVE  Merged(a, u) \in Attributes
BY SqsConstants DEF Merged, Attributes, AttributeUpdates

\* Rows that a receive hands out or moves were visible.
LEMMA ReceiveFacts ==
    ASSUME NEW ms, NEW q, NEW opts
    PROVE  /\ Delivered(ms, q, opts) \subseteq Candidates(ms, q)
           /\ DeadLettered(ms, q, opts) \subseteq Candidates(ms, q)
           /\ \A m \in Candidates(ms, q) :
                 m \in DOMAIN ms /\ ms[m].queue_id = q.id /\ ms[m].visible_at <= now
BY DEF Delivered, DeadLettered, Ready, Candidates

LEMMA ReceivedRowFacts ==
    ASSUME NEW r \in MessageRows, NEW vt \in Nat, now \in Nat
    PROVE  /\ ReceivedRow(r, vt) \in MessageRows
           /\ ReceivedRow(r, vt).receipt = r.receipt + 1
           /\ ReceivedRow(r, vt).visible_at = now + vt
           /\ ReceivedRow(r, vt).queue_id = r.queue_id
<1> DEFINE r1 == [r EXCEPT !.receipt = r.receipt + 1]
           r2 == [r1 EXCEPT !.receive_count = r.receive_count + 1]
<1>1. r1 \in MessageRows /\ r.receive_count + 1 \in Nat
  BY DEF MessageRows
<1> HIDE DEF r1
<1>2. r2 \in MessageRows
  BY <1>1 DEF MessageRows
<1> HIDE DEF r2
<1>3. [r2 EXCEPT !.visible_at = now + vt] \in MessageRows
  BY <1>2 DEF MessageRows
<1>4. ReceivedRow(r, vt) = [r2 EXCEPT !.visible_at = now + vt]
  BY DEF ReceivedRow, r1, r2
<1>5. /\ ReceivedRow(r, vt).receipt = r.receipt + 1
      /\ ReceivedRow(r, vt).visible_at = now + vt
      /\ ReceivedRow(r, vt).queue_id = r.queue_id
  BY DEF ReceivedRow, MessageRows
<1> QED
  BY <1>3, <1>4, <1>5

LEMMA MovedRowFacts ==
    ASSUME NEW r \in MessageRows, NEW q, q.name \in QueueNames, NEW target \in Nat \ {0},
           now \in Nat
    PROVE  /\ MovedRow(r, q, target) \in MessageRows
           /\ MovedRow(r, q, target).queue_id = target
           /\ MovedRow(r, q, target).receipt = r.receipt + 1
           /\ MovedRow(r, q, target).receive_count = 0
           /\ MovedRow(r, q, target).sent_at = r.sent_at
           /\ MovedRow(r, q, target).group = r.group
           /\ MovedRow(r, q, target).sequence = r.sequence
           /\ MovedRow(r, q, target).dlq_source = q.name
<1> DEFINE r1 == [r EXCEPT !.queue_id = target]
           r2 == [r1 EXCEPT !.receipt = r.receipt + 1]
           r3 == [r2 EXCEPT !.receive_count = 0]
           r4 == [r3 EXCEPT !.visible_at = now]
           r5 == [r4 EXCEPT !.dlq_source = q.name]
           kept(x) == x.sent_at = r.sent_at /\ x.group = r.group /\ x.sequence = r.sequence
<1>0. MovedRow(r, q, target) = r5
  BY DEF MovedRow
<1>1. r1 \in MessageRows /\ r.receipt + 1 \in Nat /\ kept(r1) /\ r1.queue_id = target
  BY DEF MessageRows
<1> HIDE DEF r1
<1>2. r2 \in MessageRows /\ kept(r2) /\ r2.queue_id = target /\ r2.receipt = r.receipt + 1
  BY <1>1 DEF MessageRows
<1> HIDE DEF r2
<1>3. /\ r3 \in MessageRows /\ kept(r3) /\ r3.queue_id = target /\ r3.receipt = r.receipt + 1
      /\ r3.receive_count = 0
  BY <1>2 DEF MessageRows
<1> HIDE DEF r3
<1>4. /\ r4 \in MessageRows /\ kept(r4) /\ r4.queue_id = target /\ r4.receipt = r.receipt + 1
      /\ r4.receive_count = 0
  BY <1>3 DEF MessageRows
<1> HIDE DEF r4
<1>5. /\ r5 \in MessageRows /\ kept(r5) /\ r5.queue_id = target /\ r5.receipt = r.receipt + 1
      /\ r5.receive_count = 0 /\ r5.dlq_source = q.name
  BY <1>4 DEF MessageRows
<1> HIDE DEF r5
<1> QED
  BY <1>0, <1>5

-----------------------------------------------------------------------------
(* Type correctness *)

\* The records requests turn into are requests.
LEMMA AnswerType ==
    ASSUME TypeOK, NEW c \in Clients, Answer(c)
    PROVE  reqs' \in [Clients -> Requests]
BY DEF TypeOK, Answer, Idle, Requests

\* A request past get_queue carries a copy of a queue row.
LEMMA CopyType ==
    ASSUME TypeOK, NEW c \in Clients
    PROVE  /\ reqs[c].pc \in {"got", "handle"} => reqs[c].q \in Snapshots
           /\ reqs[c].pc = "handle" => reqs[c].h \in Handles
           /\ reqs[c].pc = "poll" => /\ reqs[c].name \in QueueNames
                                     /\ reqs[c].opts \in Options
                                     /\ reqs[c].deadline \in Nat
BY DEF TypeOK, Requests

LEMMA TypeInit == Init => TypeOK
BY SqsConstants DEF Init, TypeOK, Idle, Requests

LEMMA TypeCreateQueue ==
    ASSUME TypeOK, NEW r \in CreateRequests, CreateQueue(r)
    PROVE  TypeOK'
<1>1. Merged(DefaultAttrs, r.attrs) \in Attributes
  BY MergedType, SqsConstants
<1>2. r.name \in QueueNames
  BY SqsConstants
<1> QED
  BY <1>1, <1>2 DEF TypeOK, CreateQueue, Put, QueueRows, ghosts

LEMMA TypeGetQueue ==
    ASSUME TypeOK, NEW c \in Clients, NEW n \in QueueNames, GetQueue(c, n)
    PROVE  TypeOK'
<1>1. PICK i \in Named(n) :
         \/ reqs' = [reqs EXCEPT ![c] = [pc |-> "got", q |-> Row(i)]]
         \/ \E h \in DOMAIN issued :
               reqs' = [reqs EXCEPT ![c] = [pc |-> "handle", q |-> Row(i), h |-> h]]
  BY DEF GetQueue
<1>2. Row(i) \in Snapshots
  BY DEF TypeOK, Named, Snapshots, QueueRows, Row
<1>3. reqs' \in [Clients -> Requests]
  BY <1>1, <1>2 DEF TypeOK, Requests
<1> QED
  BY <1>3 DEF TypeOK, GetQueue, db, ghosts

LEMMA TypeQueueSteps ==
    ASSUME TypeOK, NEW c \in Clients,
           DeleteQueue(c) \/ PurgeQueue(c) \/ GetQueueAttributes(c)
    PROVE  TypeOK'
<1>1. reqs' \in [Clients -> Requests]
  BY AnswerType DEF DeleteQueue, PurgeQueue, GetQueueAttributes
<1>2. CASE DeleteQueue(c)
  BY <1>1, <1>2 DEF TypeOK, DeleteQueue, Restrict, ghosts
<1>3. CASE PurgeQueue(c)
  BY <1>1, <1>3 DEF TypeOK, PurgeQueue, Restrict, ghosts
<1>4. CASE GetQueueAttributes(c)
  BY <1>1, <1>4 DEF TypeOK, GetQueueAttributes, Retained, LiveDedup, Restrict, ghosts
<1> QED
  BY <1>2, <1>3, <1>4

LEMMA TypeSetQueueAttributes ==
    ASSUME TypeOK, NEW c \in Clients, SetQueueAttributes(c)
    PROVE  TypeOK'
<1>1. reqs' \in [Clients -> Requests]
  BY AnswerType DEF SetQueueAttributes
<1>2. PICK u \in Updates :
         queues' = [i \in DOMAIN queues |->
            IF i = reqs[c].q.id /\ ValidAttributes(reqs[c].q.name, u)
            THEN [queues[i] EXCEPT !.attrs = Merged(reqs[c].q.attrs, u)]
            ELSE queues[i]]
  BY DEF SetQueueAttributes
<1>3. Merged(reqs[c].q.attrs, u) \in Attributes
  BY MergedType, SqsConstants, CopyType DEF SetQueueAttributes, Snapshots
<1>4. \A i \in DOMAIN queues' : queues'[i] \in QueueRows
  BY <1>2, <1>3 DEF TypeOK, QueueRows
<1> QED
  BY <1>1, <1>2, <1>4 DEF TypeOK, SetQueueAttributes, ghosts

LEMMA TypeTagQueue ==
    ASSUME TypeOK, NEW c \in Clients, TagQueue(c)
    PROVE  TypeOK'
<1>1. reqs' \in [Clients -> Requests]
  BY AnswerType DEF TagQueue
<1>2. PICK tags \in SUBSET Tags : WriteTags(c, tags)
  BY CopyType DEF TagQueue, Snapshots
<1>3. /\ DOMAIN queues' = DOMAIN queues
      /\ \A i \in DOMAIN queues' : queues'[i] \in QueueRows
  BY <1>2 DEF TypeOK, WriteTags, QueueRows
<1> QED
  BY <1>1, <1>3 DEF TypeOK, TagQueue, ghosts

LEMMA TypeSendStored ==
    ASSUME TypeOK, NEW c \in Clients, SendStored(c)
    PROVE  TypeOK'
<1> DEFINE q == reqs[c].q
<1>1. reqs' \in [Clients -> Requests]
  BY AnswerType DEF SendStored
<1>2. q \in Snapshots
  BY CopyType DEF SendStored
<1>3. PICK in \in SendInputs :
         LET fifo == IsFifo(q.name)
             seq == IF fifo THEN queues[q.id].fifo_seq + 1 ELSE 0
         IN
         /\ ~SendFails(q, in)
         /\ queues' = IF fifo THEN [queues EXCEPT ![q.id].fifo_seq = seq] ELSE queues
         /\ messages' = Put(Retained(q), nextMessage,
               [queue_id |-> q.id, receipt |-> 0, receive_count |-> 0,
                visible_at |-> now + Delay(q, in), sent_at |-> now,
                group |-> in.group, sequence |-> seq, dlq_source |-> None])
         /\ dedup' = IF fifo
                     THEN Put(LiveDedup, <<q.id, DedupId(q, in)>>, now + DEDUP_WINDOW)
                     ELSE LiveDedup
         /\ accepted' = Put(accepted, nextMessage,
               [queue_id |-> q.id, at |-> now,
                dedup |-> IF fifo THEN DedupId(q, in) ELSE None])
  BY DEF SendStored
<1>4. Delay(q, in) \in Nat
  BY <1>2, SqsConstants DEF Delay, Inputs, Snapshots, Attributes
<1>5. IsFifo(q.name) => q.id \in DOMAIN queues /\ queues[q.id].fifo_seq + 1 \in Nat
  BY <1>3 DEF SendFails, TypeOK, QueueRows
<1>6. /\ DOMAIN queues' = DOMAIN queues
      /\ \A i \in DOMAIN queues' : queues'[i] \in QueueRows
  BY <1>3, <1>5 DEF TypeOK, QueueRows
<1>7. /\ DOMAIN messages' \subseteq DOMAIN messages \cup {nextMessage}
      /\ \A m \in DOMAIN messages' : messages'[m] \in MessageRows
  <2>1. [queue_id |-> q.id, receipt |-> 0, receive_count |-> 0,
         visible_at |-> now + Delay(q, in), sent_at |-> now, group |-> in.group,
         sequence |-> IF IsFifo(q.name) THEN queues[q.id].fifo_seq + 1 ELSE 0,
         dlq_source |-> None] \in MessageRows
    BY <1>2, <1>4, <1>5 DEF TypeOK, MessageRows, Snapshots, GroupIds
  <2> QED
    BY <1>3, <2>1, RetainedFacts DEF TypeOK, Put
<1>8. \A k \in DOMAIN dedup' : dedup'[k] \in Nat
  <2>1. now + DEDUP_WINDOW \in Nat
    BY SqsConstants DEF TypeOK
  <2>2. \A k \in DOMAIN LiveDedup : LiveDedup[k] \in Nat
    BY LiveDedupFacts DEF TypeOK
  <2>3. \A k \in DOMAIN dedup' : \/ dedup'[k] = now + DEDUP_WINDOW
                                 \/ k \in DOMAIN LiveDedup /\ dedup'[k] = LiveDedup[k]
    BY <1>3 DEF Put
  <2> QED BY <2>1, <2>2, <2>3
<1>9. DOMAIN accepted' = 1 .. (nextMessage' - 1)
  <2>1. DOMAIN accepted' = DOMAIN accepted \cup {nextMessage}
    BY <1>3 DEF Put
  <2>2. nextMessage' = nextMessage + 1
    BY DEF SendStored
  <2> QED
    BY <2>1, <2>2 DEF TypeOK
<1>10. nextMessage' = nextMessage + 1 /\ UNCHANGED <<nextQueue, now, issued, acked>>
  BY DEF SendStored
<1> QED
  BY <1>1, <1>6, <1>7, <1>8, <1>9, <1>10 DEF TypeOK

LEMMA TypeStartReceive ==
    ASSUME TypeOK, NEW c \in Clients, StartReceive(c)
    PROVE  TypeOK'
<1>1. reqs[c].q \in Snapshots
  BY CopyType DEF StartReceive
<1>2. PICK opts \in ReceiveOptions :
         reqs' = [reqs EXCEPT ![c] =
            [pc |-> "poll", name |-> reqs[c].q.name, opts |-> opts,
             deadline |-> now + (IF opts.wait = None THEN reqs[c].q.attrs.WaitTimeSeconds
                                                     ELSE opts.wait)]]
  BY DEF StartReceive
<1>3. opts \in Options /\ reqs[c].q.name \in QueueNames
      /\ reqs[c].q.attrs.WaitTimeSeconds \in Nat
  BY <1>1, SqsConstants DEF Snapshots, Attributes
<1>4. now + (IF opts.wait = None THEN reqs[c].q.attrs.WaitTimeSeconds ELSE opts.wait) \in Nat
  BY <1>3 DEF Options, TypeOK
<1>5. reqs' \in [Clients -> Requests]
  BY <1>2, <1>3, <1>4 DEF TypeOK, Requests
<1> QED
  BY <1>5 DEF TypeOK, StartReceive, db, ghosts

LEMMA TypePoll ==
    ASSUME TypeOK, NEW c \in Clients, Poll(c)
    PROVE  TypeOK'
<1>1. PICK i \in Named(reqs[c].name), target \in DOMAIN queues :
         /\ ReceiveTx(Row(i), reqs[c].opts, target)
         /\ Answer(c) \/ UNCHANGED reqs
  BY DEF Poll
<1> DEFINE q == Row(i)
           ms == Retained(q)
           out == Delivered(ms, q, reqs[c].opts)
           dead == DeadLettered(ms, q, reqs[c].opts)
           vt == VisibilityTimeout(q, reqs[c].opts)
           handles == NewHandles(ms, out)
<1>2. /\ messages' = [m \in DOMAIN ms |->
            IF m \in out THEN ReceivedRow(ms[m], vt)
            ELSE IF m \in dead THEN MovedRow(ms[m], q, target)
            ELSE ms[m]]
      /\ dedup' = LiveDedup
      /\ issued' = [h \in DOMAIN issued \cup handles |->
            IF h \in handles
            THEN [queue |-> q.name, until |-> now + vt, batch |-> handles, late |-> FALSE]
            ELSE issued[h]]
  BY <1>1 DEF ReceiveTx
<1>3. i \in DOMAIN queues /\ q.name \in QueueNames /\ q.attrs \in Attributes
  BY DEF Named, TypeOK, QueueRows, Row
<1>4. vt \in Nat
  <2>1. reqs[c].opts \in Options
    BY CopyType DEF Poll
  <2> QED
    BY <1>3, <2>1 DEF VisibilityTimeout, Options, Attributes
<1>5. /\ DOMAIN ms \subseteq DOMAIN messages
      /\ \A m \in DOMAIN ms : ms[m] \in MessageRows
      /\ out \subseteq DOMAIN ms
  BY RetainedFacts, ReceiveFacts DEF TypeOK
<1> HIDE DEF q, ms, out, dead, vt, handles
<1>6. \A r \in MessageRows : /\ ReceivedRow(r, vt) \in MessageRows
                              /\ MovedRow(r, q, target) \in MessageRows
  <2>1. target \in Nat \ {0} /\ now \in Nat
    BY DEF TypeOK
  <2>2. \A r \in MessageRows : ReceivedRow(r, vt) \in MessageRows
    BY <1>4, <2>1, ReceivedRowFacts
  <2>3. \A r \in MessageRows : MovedRow(r, q, target) \in MessageRows
    BY <1>3, <2>1, MovedRowFacts
  <2> QED
    BY <2>2, <2>3
<1>7. /\ DOMAIN messages' \subseteq DOMAIN messages
      /\ \A m \in DOMAIN messages' : messages'[m] \in MessageRows
  <2>1. DOMAIN messages' = DOMAIN ms
    BY <1>2
  <2>2. ASSUME NEW m \in DOMAIN ms PROVE messages'[m] \in MessageRows
    <3>1. messages'[m] \in {ReceivedRow(ms[m], vt), MovedRow(ms[m], q, target), ms[m]}
      BY <1>2
    <3> QED BY <1>5, <1>6, <3>1
  <2> QED BY <1>5, <2>1, <2>2
<1>8. /\ handles \subseteq Handles
      /\ DOMAIN issued' = DOMAIN issued \cup handles
      /\ \A h \in DOMAIN issued' : issued'[h] \in Grants
  <2>1. \A m \in out : m \in Nat \ {0} /\ ms[m].receipt + 1 \in Nat
    <3>1. \A m \in DOMAIN messages : m \in Nat \ {0}
      BY DEF TypeOK
    <3>2. \A m \in DOMAIN ms : ms[m].receipt + 1 \in Nat
      BY <1>5 DEF MessageRows
    <3> QED BY <1>5, <3>1, <3>2
  <2>2. handles \subseteq Handles
    BY <2>1 DEF handles, NewHandles, Handles
  <2>3. now + vt \in Nat
    BY <1>4 DEF TypeOK
  <2> QED
    BY <1>2, <1>3, <2>2, <2>3 DEF TypeOK, Grants
<1>9. reqs' \in [Clients -> Requests]
  BY <1>1, AnswerType DEF TypeOK
<1>10. \A k \in DOMAIN dedup' : dedup'[k] \in Nat
  BY <1>2, LiveDedupFacts DEF TypeOK
<1>11. UNCHANGED <<queues, nextQueue, nextMessage, now, acked, accepted>>
  BY DEF Poll
<1> QED
  BY <1>7, <1>8, <1>9, <1>10, <1>11 DEF TypeOK

LEMMA TypeHandleSteps ==
    ASSUME TypeOK, NEW c \in Clients, DeleteMessage(c) \/ ChangeVisibility(c)
    PROVE  TypeOK'
<1>1. reqs' \in [Clients -> Requests]
  BY AnswerType DEF DeleteMessage, ChangeVisibility
<1>2. CASE DeleteMessage(c)
  BY <1>1, <1>2 DEF TypeOK, DeleteMessage, Restrict
<1>3. CASE ChangeVisibility(c)
  <2> DEFINE h == reqs[c].h
             hit == {m \in DOMAIN messages : Holds(m, h, reqs[c].q.id)}
  <2>1. PICK timeout \in Timeouts :
          /\ messages' = [m \in DOMAIN messages |->
                IF m \in hit THEN [messages[m] EXCEPT !.visible_at = now + timeout]
                             ELSE messages[m]]
          /\ issued' = IF hit = {} THEN issued
                       ELSE [issued EXCEPT ![h].until = now + timeout,
                                ![h].late = @ \/ \E m \in hit :
                                                    messages[m].visible_at <= now]
    BY <1>3 DEF ChangeVisibility
  <2>2. now + timeout \in Nat
    BY SqsConstants DEF TypeOK
  <2> HIDE DEF h, hit
  <2>3. /\ DOMAIN messages' = DOMAIN messages
        /\ \A m \in DOMAIN messages' : messages'[m] \in MessageRows
    <3>1. DOMAIN messages' = DOMAIN messages
      BY <2>1
    <3>2. ASSUME NEW m \in DOMAIN messages PROVE messages'[m] \in MessageRows
      <4>1. messages[m] \in MessageRows
        BY DEF TypeOK
      <4>2. \/ messages'[m] = messages[m]
            \/ messages'[m] = [messages[m] EXCEPT !.visible_at = now + timeout]
        BY <2>1
      <4> QED BY <2>2, <4>1, <4>2 DEF MessageRows
    <3> QED BY <3>1, <3>2
  <2>4. /\ DOMAIN issued' = DOMAIN issued
        /\ \A x \in DOMAIN issued' : issued'[x] \in Grants
    BY <2>1, <2>2 DEF TypeOK, Grants
  <2> QED
    BY <1>1, <1>3, <2>3, <2>4 DEF TypeOK, ChangeVisibility
<1> QED
  BY <1>2, <1>3

LEMMA TypeNext == TypeOK /\ [Next]_vars => TypeOK'
<1> SUFFICES ASSUME TypeOK, [Next]_vars PROVE TypeOK'
  OBVIOUS
<1>1. CASE \E r \in CreateRequests : CreateQueue(r)
  BY <1>1, TypeCreateQueue
<1>2. ASSUME NEW c \in Clients, ClientStep(c) PROVE TypeOK'
  <2>1. CASE \E n \in QueueNames : GetQueue(c, n)
    BY <2>1, TypeGetQueue
  <2>2. CASE DeleteQueue(c) \/ PurgeQueue(c) \/ GetQueueAttributes(c)
    BY <2>2, TypeQueueSteps
  <2>3. CASE SetQueueAttributes(c)
    BY <2>3, TypeSetQueueAttributes
  <2>4. CASE TagQueue(c)
    BY <2>4, TypeTagQueue
  <2>5. CASE SendUnstored(c) \/ PollMissing(c)
    BY <2>5, AnswerType DEF SendUnstored, PollMissing, TypeOK, db, ghosts
  <2>6. CASE SendStored(c)
    BY <2>6, TypeSendStored
  <2>7. CASE StartReceive(c)
    BY <2>7, TypeStartReceive
  <2>8. CASE Poll(c)
    BY <2>8, TypePoll
  <2>9. CASE DeleteMessage(c) \/ ChangeVisibility(c)
    BY <2>9, TypeHandleSteps
  <2> QED
    BY <1>2, <2>1, <2>2, <2>3, <2>4, <2>5, <2>6, <2>7, <2>8, <2>9 DEF ClientStep
<1>3. CASE Tick
  BY <1>3 DEF Tick, TypeOK, db, ghosts
<1>4. CASE Restart
  BY <1>4 DEF Restart, TypeOK, db, ghosts, Requests, Idle
<1>5. CASE UNCHANGED vars
  BY <1>5 DEF vars, TypeOK
<1> QED
  BY <1>1, <1>2, <1>3, <1>4, <1>5 DEF Next

\* The tables, the requests and the handles clients hold always have the shape
\* the schema and the code give them, whatever the interleaving.
THEOREM TypeCorrect == Spec => []TypeOK
BY TypeInit, TypeNext, PTL DEF Spec

-----------------------------------------------------------------------------
(* Receipt handles *)

LEMMA InvInit == Init => Inv
BY TypeInit DEF Init, Inv, CopiesInv, ReceiptInv, HolderInv, AckInv, Idle

\* Steps that take rows away and change no other: what the invariant says of
\* the rows that stay is what it said before.
LEMMA InvRemoval ==
    ASSUME Inv, NEW c \in Clients, TypeOK', Answer(c),
           DOMAIN messages' \subseteq DOMAIN messages,
           \A m \in DOMAIN messages' : messages'[m] = messages[m],
           DOMAIN queues' \subseteq DOMAIN queues,
           \A i \in DOMAIN queues' : queues'[i].name = queues[i].name,
           \A m \in DOMAIN messages' :
              messages[m].queue_id \in DOMAIN queues => messages[m].queue_id \in DOMAIN queues',
           UNCHANGED <<nextQueue, nextMessage, now, issued, acked>>
    PROVE  Inv'
<1>1. \A d \in Clients : reqs'[d].pc # "idle" => reqs'[d] = reqs[d]
  BY DEF Inv, TypeOK, Answer, Idle
<1>2. CopiesInv'
  BY <1>1 DEF Inv, CopiesInv
<1>3. ReceiptInv'
  BY DEF Inv, ReceiptInv
<1>4. HolderInv'
  BY <1>1 DEF Inv, HolderInv
<1>5. AckInv'
  BY DEF Inv, AckInv
<1> QED
  BY <1>2, <1>3, <1>4, <1>5 DEF Inv

LEMMA InvCreateQueue ==
    ASSUME Inv, NEW r \in CreateRequests, CreateQueue(r), TypeOK'
    PROVE  Inv'
<1>1. /\ DOMAIN queues' = DOMAIN queues \cup {nextQueue}
      /\ queues'[nextQueue].name = r.name
      /\ \A i \in DOMAIN queues : i # nextQueue /\ queues'[i] = queues[i]
  BY DEF CreateQueue, Put, Inv, TypeOK
<1>2. \A i \in DOMAIN queues : queues[i].name # r.name
  BY DEF CreateQueue, Named
<1>3. /\ nextQueue' = nextQueue + 1 /\ nextQueue \in Nat
      /\ UNCHANGED <<messages, dedup, nextMessage, now, reqs, issued, acked, accepted>>
  BY DEF CreateQueue, ghosts, Inv, TypeOK
<1>4. CopiesInv'
  <2>1. \A d \in Clients : reqs[d].pc \in {"got", "handle"} => reqs[d].q.id \in Nat
    BY CopyType DEF Inv, Snapshots
  <2> QED
    BY <1>1, <1>2, <1>3, <2>1 DEF Inv, CopiesInv
<1>5. ReceiptInv' /\ AckInv'
  BY <1>3 DEF Inv, ReceiptInv, AckInv
<1>6. HolderInv'
  BY <1>1, <1>3 DEF Inv, HolderInv
<1> QED
  BY <1>4, <1>5, <1>6 DEF Inv

LEMMA InvGetQueue ==
    ASSUME Inv, NEW c \in Clients, NEW n \in QueueNames, GetQueue(c, n), TypeOK'
    PROVE  Inv'
<1>1. PICK i \in Named(n) :
         \/ reqs' = [reqs EXCEPT ![c] = [pc |-> "got", q |-> Row(i)]]
         \/ \E h \in DOMAIN issued :
               reqs' = [reqs EXCEPT ![c] = [pc |-> "handle", q |-> Row(i), h |-> h]]
  BY DEF GetQueue
<1>2. /\ i \in DOMAIN queues /\ queues[i].name = n /\ i < nextQueue
      /\ Row(i).id = i /\ Row(i).name = n
  BY DEF Named, Row, Inv, TypeOK
<1>3. UNCHANGED <<queues, messages, dedup, nextQueue, nextMessage, now, issued, acked,
                  accepted>>
  BY DEF GetQueue, db, ghosts
<1>4. \A d \in Clients : d # c => reqs'[d] = reqs[d]
  BY <1>1 DEF Inv, TypeOK
<1>5. CASE reqs'[c] = [pc |-> "got", q |-> Row(i)]
  BY <1>2, <1>3, <1>4, <1>5 DEF Inv, CopiesInv, ReceiptInv, HolderInv, AckInv
<1>6. ASSUME NEW h \in DOMAIN issued,
             reqs'[c] = [pc |-> "handle", q |-> Row(i), h |-> h]
      PROVE  Inv'
  <2>1. reqs'[c].pc = "handle" /\ reqs'[c].q = Row(i) /\ reqs'[c].h = h
    BY <1>6
  <2>2. CopiesInv'
    BY <1>2, <1>3, <1>4, <2>1 DEF Inv, CopiesInv
  <2>3. ReceiptInv' /\ AckInv'
    BY <1>3 DEF Inv, ReceiptInv, AckInv
  <2>4. HolderInv'
    <3>1. h[1] \in DOMAIN messages /\ h[2] = messages[h[1]].receipt
             /\ Row(i).name = issued[h].queue
          => messages[h[1]].queue_id = i
      BY <1>2 DEF Inv, HolderInv, CopiesInv
    <3> QED
      BY <1>2, <1>3, <1>4, <2>1, <3>1 DEF Inv, HolderInv
  <2> QED
    BY <2>2, <2>3, <2>4 DEF Inv
<1> QED
  BY <1>1, <1>5, <1>6 DEF Inv, TypeOK

\* A send changes nothing of a queue but its last sequence number.
LEMMA SendQueues ==
    ASSUME TypeOK, NEW c \in Clients, SendStored(c)
    PROVE  /\ DOMAIN queues' = DOMAIN queues
           /\ \A i \in DOMAIN queues : /\ queues'[i].name = queues[i].name
                                       /\ queues'[i].attrs = queues[i].attrs
<1>1. PICK seq : \/ queues' = [queues EXCEPT ![reqs[c].q.id].fifo_seq = seq]
                 \/ queues' = queues
  BY DEF SendStored
<1>2. \A i \in DOMAIN queues : queues[i] \in QueueRows
  BY DEF TypeOK
<1> QED BY <1>1, <1>2 DEF QueueRows

LEMMA SendRows ==
    ASSUME NEW c \in Clients, SendStored(c)
    PROVE  /\ DOMAIN messages' \subseteq DOMAIN messages \cup {nextMessage}
           /\ \A m \in DOMAIN messages' : m # nextMessage =>
                 m \in DOMAIN messages /\ messages'[m] = messages[m]
           /\ messages'[nextMessage].queue_id = reqs[c].q.id
           /\ messages'[nextMessage].receipt = 0
           /\ messages'[nextMessage].receive_count = 0
           /\ messages'[nextMessage].dlq_source = None
<1> DEFINE q == reqs[c].q
           r == Retained(q)
<1>1. PICK row : /\ messages' = Put(r, nextMessage, row)
                 /\ row.queue_id = q.id /\ row.receipt = 0 /\ row.receive_count = 0
                 /\ row.dlq_source = None
  BY DEF SendStored
<1>2. DOMAIN r \subseteq DOMAIN messages /\ \A m \in DOMAIN r : r[m] = messages[m]
  BY RetainedFacts
<1> HIDE DEF r, q
<1>3. /\ DOMAIN messages' = DOMAIN r \cup {nextMessage}
      /\ \A m \in DOMAIN r : m # nextMessage => messages'[m] = r[m]
      /\ messages'[nextMessage] = row
  BY <1>1 DEF Put
<1> QED BY <1>1, <1>2, <1>3 DEF q

LEMMA InvSendStored ==
    ASSUME Inv, NEW c \in Clients, SendStored(c), TypeOK'
    PROVE  Inv'
<1> DEFINE q == reqs[c].q
<1>1. /\ DOMAIN messages' \subseteq DOMAIN messages \cup {nextMessage}
      /\ \A m \in DOMAIN messages' : m # nextMessage => messages'[m] = messages[m]
  BY RetainedFacts DEF SendStored, Put
<1>2. /\ DOMAIN queues' = DOMAIN queues
      /\ \A i \in DOMAIN queues : queues'[i].name = queues[i].name
  BY SendQueues DEF Inv
<1>3. nextMessage' = nextMessage + 1 /\ UNCHANGED <<nextQueue, now, issued, acked>>
  BY DEF SendStored
<1>4. \A d \in Clients : reqs'[d].pc # "idle" => reqs'[d] = reqs[d]
  BY DEF Inv, TypeOK, SendStored, Answer, Idle
<1>5. \A h \in DOMAIN issued : h[1] \in Nat /\ h[1] < nextMessage /\ nextMessage \in Nat
  BY DEF Inv, TypeOK, Handles, ReceiptInv
<1>6. \A h \in DOMAIN issued : h[1] \in DOMAIN messages' =>
         h[1] \in DOMAIN messages /\ messages'[h[1]] = messages[h[1]]
  BY <1>1, <1>5
<1>7. CopiesInv'
  BY <1>2, <1>3, <1>4 DEF Inv, CopiesInv
<1>8. ReceiptInv'
  BY <1>3, <1>5, <1>6 DEF Inv, ReceiptInv
<1>9. HolderInv'
  BY <1>2, <1>3, <1>4, <1>6 DEF Inv, HolderInv, CopiesInv
<1>10. AckInv'
  BY <1>3, <1>6 DEF Inv, AckInv
<1> QED
  BY <1>7, <1>8, <1>9, <1>10 DEF Inv

LEMMA InvPoll ==
    ASSUME Inv, NEW c \in Clients, Poll(c), TypeOK'
    PROVE  Inv'
<1>1. PICK i \in Named(reqs[c].name), target \in DOMAIN queues :
         /\ ReceiveTx(Row(i), reqs[c].opts, target)
         /\ Answer(c) \/ UNCHANGED reqs
  BY DEF Poll
<1> DEFINE q == Row(i)
           ms == Retained(q)
           out == Delivered(ms, q, reqs[c].opts)
           dead == DeadLettered(ms, q, reqs[c].opts)
           vt == VisibilityTimeout(q, reqs[c].opts)
           handles == NewHandles(ms, out)
<1>2. /\ messages' = [m \in DOMAIN ms |->
            IF m \in out THEN ReceivedRow(ms[m], vt)
            ELSE IF m \in dead THEN MovedRow(ms[m], q, target)
            ELSE ms[m]]
      /\ issued' = [h \in DOMAIN issued \cup handles |->
            IF h \in handles
            THEN [queue |-> q.name, until |-> now + vt, batch |-> handles, late |-> FALSE]
            ELSE issued[h]]
  BY <1>1 DEF ReceiveTx
<1>3. /\ i \in DOMAIN queues /\ q.id = i /\ q.name = queues[i].name
      /\ q.name \in QueueNames /\ q.attrs \in Attributes
      /\ i \in Nat \ {0} /\ target \in Nat \ {0} /\ now \in Nat
  BY DEF Inv, Named, TypeOK, QueueRows, Row
<1>4. vt \in Nat
  <2>1. reqs[c].opts \in Options
    BY CopyType DEF Inv, Poll
  <2> QED
    BY <1>3, <2>1 DEF VisibilityTimeout, Options, Attributes
<1>5. /\ DOMAIN ms \subseteq DOMAIN messages
      /\ \A m \in DOMAIN ms : ms[m] = messages[m] /\ ms[m] \in MessageRows
      /\ out \subseteq DOMAIN ms
      /\ \A m \in out \cup dead : ms[m].queue_id = i /\ ms[m].visible_at <= now
  BY <1>3, RetainedFacts, ReceiveFacts DEF Inv, TypeOK
<1>6. /\ \A m \in out : m \in Nat /\ <<m, ms[m].receipt + 1>> \in handles
      /\ \A h \in handles : h[1] \in out /\ h[2] = ms[h[1]].receipt + 1
  BY <1>5 DEF NewHandles, Inv, TypeOK
<1>7. UNCHANGED <<queues, nextQueue, nextMessage, now, acked, accepted>>
  BY DEF Poll
<1>8. \A d \in Clients : reqs'[d].pc # "idle" => reqs'[d] = reqs[d]
  BY <1>1 DEF Inv, TypeOK, Answer, Idle
<1> HIDE DEF q, ms, out, dead, vt, handles
<1>9. /\ DOMAIN messages' = DOMAIN ms
      /\ DOMAIN issued' = DOMAIN issued \cup handles
      /\ \A m \in out : /\ messages'[m].receipt = messages[m].receipt + 1
                         /\ messages'[m].visible_at = now + vt
                         /\ messages'[m].queue_id = i
      /\ \A m \in dead : m \notin out /\ m \in DOMAIN ms =>
            messages'[m].receipt = messages[m].receipt + 1
      /\ \A m \in DOMAIN ms : m \notin out /\ m \notin dead => messages'[m] = messages[m]
      /\ \A m \in DOMAIN messages : messages[m].receipt \in Nat
  <2>1. \A m \in out : messages'[m] = ReceivedRow(ms[m], vt)
    BY <1>2, <1>5
  <2>2. \A m \in out : /\ messages'[m].receipt = messages[m].receipt + 1
                        /\ messages'[m].visible_at = now + vt
                        /\ messages'[m].queue_id = i
    <3> SUFFICES ASSUME NEW m \in out
                 PROVE  /\ messages'[m].receipt = messages[m].receipt + 1
                        /\ messages'[m].visible_at = now + vt
                        /\ messages'[m].queue_id = i
      OBVIOUS
    <3>1. ms[m] \in MessageRows /\ ms[m] = messages[m] /\ ms[m].queue_id = i
      BY <1>5
    <3>2. /\ ReceivedRow(ms[m], vt).receipt = ms[m].receipt + 1
          /\ ReceivedRow(ms[m], vt).visible_at = now + vt
          /\ ReceivedRow(ms[m], vt).queue_id = ms[m].queue_id
      BY <3>1, <1>3, <1>4, ReceivedRowFacts
    <3> QED
      BY <2>1, <3>1, <3>2
  <2>3. \A m \in dead : m \notin out /\ m \in DOMAIN ms =>
            messages'[m].receipt = messages[m].receipt + 1
    <3>1. ASSUME NEW m \in DOMAIN ms
          PROVE  MovedRow(ms[m], q, target).receipt = messages[m].receipt + 1
      <4>1. ms[m] \in MessageRows /\ ms[m] = messages[m]
        BY <1>5
      <4>2. q.name \in QueueNames /\ target \in Nat \ {0} /\ now \in Nat
        BY <1>3
      <4>3. \A r \in MessageRows : MovedRow(r, q, target).receipt = r.receipt + 1
        BY <4>2, MovedRowFacts
      <4> QED BY <4>1, <4>3
    <3> QED
      BY <3>1, <1>2
  <2>4. \A m \in DOMAIN messages : messages[m].receipt \in Nat
    BY DEF Inv, TypeOK, MessageRows
  <2>5. /\ DOMAIN messages' = DOMAIN ms
        /\ DOMAIN issued' = DOMAIN issued \cup handles
        /\ \A m \in DOMAIN ms : m \notin out /\ m \notin dead => messages'[m] = ms[m]
    BY <1>2
  <2> QED
    BY <1>5, <2>2, <2>3, <2>4, <2>5
<1>10. \A h \in DOMAIN issued : /\ h \notin handles /\ issued'[h] = issued[h]
                                /\ h[1] \in Nat /\ h[2] \in Nat
  <2>1. \A h \in DOMAIN issued : h[1] \in Nat /\ h[2] \in Nat
    BY DEF Inv, TypeOK, Handles
  <2>2. \A h \in DOMAIN issued : h[1] \in DOMAIN ms => h[2] <= ms[h[1]].receipt
    BY <1>5 DEF Inv, ReceiptInv
  <2>3. \A h \in DOMAIN issued : h \notin handles
    BY <1>5, <1>6, <1>9, <2>1, <2>2
  <2> QED
    BY <1>2, <2>1, <2>3
<1>11. \A h \in handles : /\ issued'[h].queue = q.name /\ issued'[h].until = now + vt
  BY <1>2
<1>12. CopiesInv'
  BY <1>7, <1>8, <1>9 DEF Inv, CopiesInv
<1>13. ReceiptInv'
  <2> SUFFICES ASSUME NEW h \in DOMAIN issued'
               PROVE  /\ h[1] < nextMessage
                      /\ h[1] \in DOMAIN messages' =>
                          /\ h[2] <= messages'[h[1]].receipt
                          /\ h[2] = messages'[h[1]].receipt =>
                                issued'[h].until = messages'[h[1]].visible_at
                          /\ h[2] < messages'[h[1]].receipt => issued'[h].until <= now
    BY <1>7 DEF ReceiptInv
  <2>1. CASE h \in handles
    <3>1. h[1] \in out /\ h[1] \in DOMAIN ms /\ h[2] = messages'[h[1]].receipt
            /\ h[2] \in Nat
      BY <2>1, <1>5, <1>6, <1>9
    <3>2. issued'[h].until = messages'[h[1]].visible_at
      BY <2>1, <3>1, <1>9, <1>11
    <3>3. h[1] < nextMessage
      BY <3>1, <1>5 DEF Inv, TypeOK
    <3> QED
      BY <3>1, <3>2, <3>3
  <2>2. CASE h \in DOMAIN issued
    <3>1. /\ issued'[h] = issued[h] /\ h[1] < nextMessage /\ h[2] \in Nat
          /\ issued[h].until \in Nat
      BY <2>2, <1>10 DEF Inv, ReceiptInv, TypeOK, Grants
    <3>2. CASE h[1] \in DOMAIN ms /\ h[1] \in out \cup dead
      <4>1. /\ messages'[h[1]].receipt = messages[h[1]].receipt + 1
            /\ messages[h[1]].receipt \in Nat
            /\ messages[h[1]].visible_at <= now
        BY <3>2, <1>5, <1>9
      <4>2. h[2] <= messages[h[1]].receipt /\ issued[h].until <= now
        BY <2>2, <3>1, <3>2, <4>1, <1>5 DEF Inv, ReceiptInv
      <4> QED
        BY <3>1, <4>1, <4>2
    <3>3. CASE h[1] \in DOMAIN ms /\ h[1] \notin out /\ h[1] \notin dead
      BY <2>2, <3>1, <3>3, <1>5, <1>9 DEF Inv, ReceiptInv
    <3> QED
      BY <3>1, <3>2, <3>3, <1>9
  <2> QED
    BY <2>1, <2>2, <1>9
<1>14. HolderInv'
  <2>1. \A h \in DOMAIN issued : h[1] \in DOMAIN messages' /\ h[2] = messages'[h[1]].receipt
           => h[1] \in DOMAIN messages /\ messages'[h[1]] = messages[h[1]]
    <3> SUFFICES ASSUME NEW h \in DOMAIN issued, h[1] \in DOMAIN messages',
                        h[2] = messages'[h[1]].receipt
                 PROVE  h[1] \in DOMAIN messages /\ messages'[h[1]] = messages[h[1]]
      OBVIOUS
    <3>1. h[1] \in DOMAIN messages /\ h[2] <= messages[h[1]].receipt
      BY <1>5, <1>9 DEF Inv, ReceiptInv
    <3>2. h[1] \notin out \cup dead
      BY <3>1, <1>9, <1>10
    <3> QED
      BY <3>1, <3>2, <1>9
  <2>2. ASSUME NEW h \in DOMAIN issued', h[1] \in DOMAIN messages',
               h[2] = messages'[h[1]].receipt
        PROVE  /\ messages'[h[1]].queue_id \in DOMAIN queues
               /\ queues[messages'[h[1]].queue_id].name = issued'[h].queue
    <3>1. CASE h \in handles
      BY <3>1, <1>3, <1>6, <1>9, <1>11
    <3>2. CASE h \in DOMAIN issued
      BY <3>2, <2>1, <2>2, <1>10 DEF Inv, HolderInv
    <3> QED
      BY <3>1, <3>2, <1>9
  <2>3. ASSUME NEW d \in Clients, reqs'[d].pc = "handle"
        PROVE  /\ reqs[d].pc = "handle" /\ reqs'[d] = reqs[d]
               /\ reqs[d].h \in DOMAIN issued
    BY <2>3, <1>8 DEF Inv, CopiesInv
  <2> QED
    BY <2>1, <2>2, <2>3, <1>7, <1>10 DEF Inv, HolderInv
<1>15. AckInv'
  <2>1. acked \subseteq DOMAIN issued'
    BY <1>9 DEF Inv, AckInv
  <2>2. ASSUME NEW h \in acked, h[1] \in DOMAIN messages'
        PROVE  h[2] < messages'[h[1]].receipt
    <3>1. /\ h[1] \in DOMAIN messages /\ h[2] < messages[h[1]].receipt
          /\ h[2] \in Nat /\ messages[h[1]].receipt \in Nat
      BY <2>2, <1>5, <1>9, <1>10 DEF Inv, AckInv
    <3>2. \/ messages'[h[1]].receipt = messages[h[1]].receipt
          \/ messages'[h[1]].receipt = messages[h[1]].receipt + 1
      BY <2>2, <1>5, <1>9
    <3> QED
      BY <3>1, <3>2
  <2> QED
    BY <2>1, <2>2, <1>7 DEF AckInv
<1> QED
  BY <1>12, <1>13, <1>14, <1>15 DEF Inv

\* DeleteQueue takes the messages of the row with it, so no message that stays
\* loses its queue.
LEMMA InvQueueSteps ==
    ASSUME Inv, NEW c \in Clients, TypeOK',
           \/ DeleteQueue(c) \/ PurgeQueue(c) \/ GetQueueAttributes(c)
           \/ SetQueueAttributes(c) \/ TagQueue(c) \/ SendUnstored(c) \/ PollMissing(c)
    PROVE  Inv'
<1>1. CASE DeleteQueue(c)
  BY <1>1, InvRemoval DEF DeleteQueue, Restrict, ghosts
<1>2. CASE PurgeQueue(c)
  BY <1>2, InvRemoval DEF PurgeQueue, Restrict, ghosts
<1>3. CASE GetQueueAttributes(c)
  BY <1>3, InvRemoval, RetainedFacts DEF GetQueueAttributes, ghosts
<1>4. CASE SetQueueAttributes(c)
  <2>1. DOMAIN queues' = DOMAIN queues /\ \A i \in DOMAIN queues : queues'[i].name = queues[i].name
    BY <1>4 DEF SetQueueAttributes, Inv, TypeOK, QueueRows
  <2> QED
    BY <1>4, <2>1, InvRemoval DEF SetQueueAttributes, ghosts
<1>5. CASE TagQueue(c)
  <2>1. DOMAIN queues' = DOMAIN queues /\ \A i \in DOMAIN queues : queues'[i].name = queues[i].name
    BY <1>5 DEF TagQueue, WriteTags, Inv, TypeOK, QueueRows
  <2> QED
    BY <1>5, <2>1, InvRemoval DEF TagQueue, ghosts
<1>6. CASE SendUnstored(c) \/ PollMissing(c)
  BY <1>6, InvRemoval DEF SendUnstored, PollMissing, db, ghosts
<1> QED
  BY <1>1, <1>2, <1>3, <1>4, <1>5, <1>6

LEMMA InvDeleteMessage ==
    ASSUME Inv, NEW c \in Clients, DeleteMessage(c), TypeOK'
    PROVE  Inv'
<1> DEFINE h == reqs[c].h
<1>1. /\ DOMAIN messages' = {m \in DOMAIN messages : ~Holds(m, h, reqs[c].q.id)}
      /\ \A m \in DOMAIN messages' : messages'[m] = messages[m]
      /\ acked' = IF issued[h].queue = reqs[c].q.name THEN acked \cup {h} ELSE acked
      /\ UNCHANGED <<queues, nextQueue, nextMessage, now, issued>>
  BY DEF DeleteMessage, Restrict
<1>2. \A d \in Clients : reqs'[d].pc # "idle" => reqs'[d] = reqs[d]
  BY DEF Inv, TypeOK, DeleteMessage, Answer, Idle
<1>3. reqs[c].pc = "handle" /\ h \in DOMAIN issued /\ h[2] \in Nat
  BY DEF DeleteMessage, Inv, CopiesInv, TypeOK, Handles
<1>4. CopiesInv'
  BY <1>1, <1>2 DEF Inv, CopiesInv
<1>5. ReceiptInv'
  BY <1>1 DEF Inv, ReceiptInv
<1>6. HolderInv'
  BY <1>1, <1>2 DEF Inv, HolderInv
<1>7. AckInv'
  <2>1. issued[h].queue = reqs[c].q.name /\ h[1] \in DOMAIN messages' =>
           h[2] < messages[h[1]].receipt
    <3> SUFFICES ASSUME issued[h].queue = reqs[c].q.name, h[1] \in DOMAIN messages'
                 PROVE  h[2] < messages[h[1]].receipt
      OBVIOUS
    <3>1. h[1] \in DOMAIN messages /\ h[2] <= messages[h[1]].receipt
            /\ messages[h[1]].receipt \in Nat
      BY <1>1, <1>3 DEF Inv, ReceiptInv, TypeOK, MessageRows
    <3>2. h[2] # messages[h[1]].receipt
      BY <1>1, <1>3, <3>1 DEF Holds, Inv, HolderInv
    <3> QED
      BY <1>3, <3>1, <3>2
  <2> QED
    BY <1>1, <1>3, <2>1 DEF Inv, AckInv
<1> QED
  BY <1>4, <1>5, <1>6, <1>7 DEF Inv

LEMMA InvChangeVisibility ==
    ASSUME Inv, NEW c \in Clients, ChangeVisibility(c), TypeOK'
    PROVE  Inv'
<1> DEFINE h == reqs[c].h
           hit == {m \in DOMAIN messages : Holds(m, h, reqs[c].q.id)}
<1>1. PICK timeout \in Timeouts :
        /\ messages' = [m \in DOMAIN messages |->
              IF m \in hit THEN [messages[m] EXCEPT !.visible_at = now + timeout]
                           ELSE messages[m]]
        /\ issued' = IF hit = {} THEN issued
                     ELSE [issued EXCEPT ![h].until = now + timeout,
                              ![h].late = @ \/ \E m \in hit :
                                                  messages[m].visible_at <= now]
  BY DEF ChangeVisibility
<1>2. UNCHANGED <<queues, nextQueue, nextMessage, now, acked>>
  BY DEF ChangeVisibility
<1>3. \A d \in Clients : reqs'[d].pc # "idle" => reqs'[d] = reqs[d]
  BY DEF Inv, TypeOK, ChangeVisibility, Answer, Idle
<1>4. h \in DOMAIN issued /\ h \in Handles
  BY DEF ChangeVisibility, Inv, CopiesInv, TypeOK
<1>5. \A m \in hit : m \in DOMAIN messages /\ m = h[1] /\ messages[m].receipt = h[2]
  BY DEF Holds
<1> HIDE DEF h, hit
<1>6. DOMAIN messages' = DOMAIN messages
  BY <1>1
<1>7. \A m \in DOMAIN messages : /\ messages'[m].receipt = messages[m].receipt
                                 /\ messages'[m].queue_id = messages[m].queue_id
                                 /\ messages'[m].visible_at =
                                       IF m \in hit THEN now + timeout ELSE messages[m].visible_at
  <2> TAKE m \in DOMAIN messages
  <2>1. messages[m] \in MessageRows
    BY DEF Inv, TypeOK
  <2>2. messages'[m] = IF m \in hit THEN [messages[m] EXCEPT !.visible_at = now + timeout]
                                   ELSE messages[m]
    BY <1>1
  <2> QED BY <2>1, <2>2 DEF MessageRows
<1>8. \A m \in DOMAIN messages : messages'[m].visible_at =
          IF m \in hit THEN now + timeout ELSE messages[m].visible_at
  BY <1>7
<1>9. DOMAIN issued' = DOMAIN issued
  BY <1>1
<1>10. \A x \in DOMAIN issued : issued'[x].queue = issued[x].queue
  BY <1>1, <1>4 DEF Inv, TypeOK, Grants
<1>11. \A x \in DOMAIN issued : issued'[x].until =
          IF x = h /\ hit # {} THEN now + timeout ELSE issued[x].until
  BY <1>1, <1>4 DEF Inv, TypeOK, Grants
<1>12. CopiesInv'
  BY <1>2, <1>3, <1>9 DEF Inv, CopiesInv
<1>13. ReceiptInv'
  <2> SUFFICES ASSUME NEW x \in DOMAIN issued
               PROVE  /\ x[1] < nextMessage
                      /\ x[1] \in DOMAIN messages =>
                          /\ x[2] <= messages[x[1]].receipt
                          /\ x[2] = messages[x[1]].receipt =>
                                issued'[x].until = messages'[x[1]].visible_at
                          /\ x[2] < messages[x[1]].receipt => issued'[x].until <= now
    BY <1>2, <1>6, <1>7, <1>9 DEF ReceiptInv
  <2>1. /\ x[1] < nextMessage
        /\ x[1] \in DOMAIN messages =>
              /\ x[2] <= messages[x[1]].receipt
              /\ x[2] = messages[x[1]].receipt =>
                    issued[x].until = messages[x[1]].visible_at
              /\ x[2] < messages[x[1]].receipt => issued[x].until <= now
    BY DEF Inv, ReceiptInv
  <2>2. x \in Handles /\ x[2] \in Nat /\ h[2] \in Nat
    BY <1>4 DEF Inv, TypeOK, Handles
  <2>3. CASE x[1] \in hit
    <3>1. x[1] = h[1] /\ messages[x[1]].receipt = h[2] /\ hit # {}
      BY <2>3, <1>5
    <3>2. CASE x[2] = h[2]
      <4>1. x = h
        BY <2>2, <3>1, <3>2, <1>4 DEF Handles
      <4> QED
        BY <2>1, <2>2, <2>3, <3>1, <3>2, <4>1, <1>8, <1>11
    <3>3. CASE x[2] # h[2]
      BY <2>1, <3>1, <3>3, <1>11
    <3> QED
      BY <3>2, <3>3
  <2>4. CASE x[1] \notin hit
    <3>1. x = h => hit = {}
      BY <2>4, <1>5
    <3> QED
      BY <2>1, <2>4, <3>1, <1>8, <1>11
  <2> QED
    BY <2>3, <2>4
<1>14. HolderInv'
  BY <1>2, <1>3, <1>6, <1>7, <1>9, <1>10 DEF Inv, HolderInv, CopiesInv
<1>15. AckInv'
  BY <1>2, <1>6, <1>7, <1>9 DEF Inv, AckInv
<1> QED
  BY <1>12, <1>13, <1>14, <1>15 DEF Inv

LEMMA InvStartReceive ==
    ASSUME Inv, NEW c \in Clients, StartReceive(c), TypeOK'
    PROVE  Inv'
<1>1. \A d \in Clients : reqs'[d].pc # "poll" => reqs'[d] = reqs[d]
  BY DEF StartReceive, Inv, TypeOK
<1>2. UNCHANGED <<queues, messages, nextQueue, nextMessage, now, issued, acked>>
  BY DEF StartReceive, db, ghosts
<1> QED
  BY <1>1, <1>2 DEF Inv, CopiesInv, ReceiptInv, HolderInv, AckInv

LEMMA InvTick == ASSUME Inv, Tick, TypeOK' PROVE Inv'
<1>1. ReceiptInv'
  BY DEF Inv, TypeOK, Grants, ReceiptInv, Tick, db, ghosts
<1> QED
  BY <1>1 DEF Inv, CopiesInv, HolderInv, AckInv, Tick, db, ghosts

LEMMA InvNext == Inv /\ [Next]_vars => Inv'
<1> SUFFICES ASSUME Inv, [Next]_vars PROVE Inv'
  OBVIOUS
<1>0. TypeOK'
  BY TypeNext DEF Inv
<1>1. CASE \E r \in CreateRequests : CreateQueue(r)
  BY <1>0, <1>1, InvCreateQueue
<1>2. ASSUME NEW c \in Clients, ClientStep(c) PROVE Inv'
  <2>1. CASE \E n \in QueueNames : GetQueue(c, n)
    BY <1>0, <2>1, InvGetQueue
  <2>2. CASE \/ DeleteQueue(c) \/ PurgeQueue(c) \/ GetQueueAttributes(c)
             \/ SetQueueAttributes(c) \/ TagQueue(c) \/ SendUnstored(c) \/ PollMissing(c)
    BY <1>0, <2>2, InvQueueSteps
  <2>3. CASE SendStored(c)
    BY <1>0, <2>3, InvSendStored
  <2>4. CASE StartReceive(c)
    BY <1>0, <2>4, InvStartReceive
  <2>5. CASE Poll(c)
    BY <1>0, <2>5, InvPoll
  <2>6. CASE DeleteMessage(c)
    BY <1>0, <2>6, InvDeleteMessage
  <2>7. CASE ChangeVisibility(c)
    BY <1>0, <2>7, InvChangeVisibility
  <2> QED
    BY <1>2, <2>1, <2>2, <2>3, <2>4, <2>5, <2>6, <2>7 DEF ClientStep
<1>3. CASE Tick
  BY <1>0, <1>3, InvTick
<1>4. CASE Restart
  BY <1>0, <1>4 DEF Restart, Inv, CopiesInv, ReceiptInv, HolderInv, AckInv, Idle, db, ghosts
<1>5. CASE UNCHANGED vars
  BY <1>0, <1>5 DEF vars, Inv, CopiesInv, ReceiptInv, HolderInv, AckInv
<1> QED
  BY <1>1, <1>2, <1>3, <1>4, <1>5 DEF Next

LEMMA Invariance == Spec => []Inv
BY InvInit, InvNext, PTL DEF Spec

\* A visibility timeout is a promise: until it ends, the handle a client was
\* given by receive_tx is the message's current one, for any interleaving of
\* receives, deletes, visibility changes and administration.
THEOREM Exclusive == Spec => []InFlightExclusive
<1>1. Inv => InFlightExclusive
  <2> SUFFICES ASSUME Inv, NEW h \in DOMAIN issued, now < issued[h].until,
                      h[1] \in DOMAIN messages
               PROVE  /\ messages[h[1]].receipt = h[2]
                      /\ messages[h[1]].visible_at = issued[h].until
    BY DEF InFlightExclusive
  <2>1. /\ h[2] \in Nat /\ messages[h[1]].receipt \in Nat
        /\ now \in Nat /\ issued[h].until \in Nat
    BY DEF Inv, TypeOK, Handles, MessageRows, Grants
  <2> QED
    BY <2>1 DEF Inv, ReceiptInv
<1> QED
  BY <1>1, Invariance, PTL

\* A message deleted with its latest handle is gone: delete_message_tx and the
\* copy its request works with never miss the row, even when the queue is
\* deleted, created again, purged or dead-letters the message meanwhile.
THEOREM AckedGone == Spec => []AckedIsGone
<1>1. Inv => AckedIsGone
  <2> SUFFICES ASSUME Inv, NEW m \in DOMAIN messages, <<m, messages[m].receipt>> \in acked
               PROVE  FALSE
    BY DEF AckedIsGone
  <2>1. messages[m].receipt \in Nat
    BY DEF Inv, TypeOK, MessageRows
  <2> QED
    BY <2>1 DEF Inv, AckInv
<1> QED
  BY <1>1, Invariance, PTL

-----------------------------------------------------------------------------
(* FIFO deduplication *)

LEMMA DedupInit == Init => DedupInv /\ DedupWindow
BY DEF Init, DedupInv, DedupWindow

\* Steps that store nothing keep the rows that are still in their window.
LEMMA DedupKept ==
    ASSUME Inv, DedupInv, DedupWindow,
           UNCHANGED accepted, nextQueue' \in Nat, nextQueue <= nextQueue',
           now' \in Nat, now <= now',
           \A i \in DOMAIN queues' : i \in DOMAIN queues \/ i = nextQueue,
           \A k \in DOMAIN dedup : now <= dedup[k] /\ k[1] \in DOMAIN queues'
              => k \in DOMAIN dedup' /\ dedup'[k] = dedup[k]
    PROVE  DedupInv' /\ DedupWindow'
<1>1. DedupWindow'
  BY DEF DedupWindow
<1>2. ASSUME NEW a \in DOMAIN accepted
      PROVE  LET key == <<accepted[a].queue_id, accepted[a].dedup>> IN
        /\ accepted[a].queue_id \in Nat /\ accepted[a].queue_id < nextQueue'
        /\ accepted[a].at \in Nat
        /\ /\ accepted[a].dedup # None
           /\ accepted[a].queue_id \in DOMAIN queues'
           /\ now' <= accepted[a].at + DEDUP_WINDOW
           => key \in DOMAIN dedup' /\ accepted[a].at + DEDUP_WINDOW <= dedup'[key]
  <2> DEFINE key == <<accepted[a].queue_id, accepted[a].dedup>>
  <2>1. /\ accepted[a].queue_id \in Nat /\ accepted[a].queue_id < nextQueue
        /\ accepted[a].at \in Nat /\ DEDUP_WINDOW \in Nat
        /\ now \in Nat /\ nextQueue \in Nat
    BY SqsConstants DEF DedupInv, Inv, TypeOK
  <2>2. ASSUME accepted[a].dedup # None, accepted[a].queue_id \in DOMAIN queues',
               now' <= accepted[a].at + DEDUP_WINDOW
        PROVE  key \in DOMAIN dedup' /\ accepted[a].at + DEDUP_WINDOW <= dedup'[key]
    <3>1. accepted[a].queue_id \in DOMAIN queues /\ now <= accepted[a].at + DEDUP_WINDOW
      BY <2>1, <2>2
    <3>2. key \in DOMAIN dedup /\ accepted[a].at + DEDUP_WINDOW <= dedup[key]
      BY <2>2, <3>1 DEF DedupInv
    <3>3. now <= dedup[key] /\ key[1] \in DOMAIN queues'
      BY <2>1, <2>2, <3>1, <3>2 DEF Inv, TypeOK
    <3> QED
      BY <3>2, <3>3
  <2> QED
    BY <2>1, <2>2
<1> QED
  BY <1>1, <1>2 DEF DedupInv

LEMMA DedupSendStored ==
    ASSUME Inv, DedupInv, DedupWindow, NEW c \in Clients, SendStored(c)
    PROVE  DedupInv' /\ DedupWindow'
<1> DEFINE q == reqs[c].q
<1>1. PICK in \in SendInputs :
         LET fifo == IsFifo(q.name) IN
         /\ ~SendFails(q, in) /\ ~Duplicate(q, in)
         /\ dedup' = IF fifo
                     THEN Put(LiveDedup, <<q.id, DedupId(q, in)>>, now + DEDUP_WINDOW)
                     ELSE LiveDedup
         /\ accepted' = Put(accepted, nextMessage,
               [queue_id |-> q.id, at |-> now,
                dedup |-> IF fifo THEN DedupId(q, in) ELSE None])
  BY DEF SendStored
<1> DEFINE new == [queue_id |-> q.id, at |-> now,
                   dedup |-> IF IsFifo(q.name) THEN DedupId(q, in) ELSE None]
<1>2. /\ q.id \in Nat /\ q.id < nextQueue /\ now \in Nat /\ DEDUP_WINDOW \in Nat
      /\ nextMessage \in Nat /\ nextMessage \notin DOMAIN accepted
      /\ \A a \in DOMAIN accepted : a \in Nat /\ a < nextMessage
  <2>1. reqs[c].pc = "got" /\ TypeOK /\ CopiesInv
    BY DEF SendStored, Inv
  <2>2. q.id \in Nat /\ q.id < nextQueue
    BY <2>1, CopyType DEF CopiesInv, Snapshots
  <2>3. /\ now \in Nat /\ nextMessage \in Nat /\ nextMessage \notin DOMAIN accepted
        /\ \A a \in DOMAIN accepted : a \in Nat /\ a < nextMessage
    BY <2>1 DEF TypeOK
  <2> QED BY <2>2, <2>3, SqsConstants
<1>3. /\ nextQueue' = nextQueue /\ now' = now /\ DOMAIN queues' = DOMAIN queues
  BY DEF SendStored
<1>4. /\ DOMAIN accepted' = DOMAIN accepted \cup {nextMessage}
      /\ accepted'[nextMessage] = new
      /\ \A a \in DOMAIN accepted : accepted'[a] = accepted[a]
  BY <1>1, <1>2 DEF Put
<1>5. \A k \in DOMAIN dedup : now <= dedup[k] =>
         /\ k \in DOMAIN dedup'
         /\ \/ dedup'[k] = dedup[k]
            \/ dedup'[k] = now + DEDUP_WINDOW /\ k = <<q.id, DedupId(q, in)>>
  BY <1>1, LiveDedupFacts DEF Put, Inv, TypeOK
<1>6. IsFifo(q.name) => /\ <<q.id, DedupId(q, in)>> \in DOMAIN dedup'
                        /\ dedup'[<<q.id, DedupId(q, in)>>] = now + DEDUP_WINDOW
  BY <1>1 DEF Put
<1>7. \A a \in DOMAIN accepted : accepted[a].queue_id \in Nat /\ accepted[a].at \in Nat
  BY DEF DedupInv
<1>8. ASSUME NEW a \in DOMAIN accepted, new.dedup # None,
             accepted[a].dedup = new.dedup, accepted[a].queue_id = new.queue_id
      PROVE  now > accepted[a].at + DEDUP_WINDOW
  <2>1. IsFifo(q.name) /\ new.dedup = DedupId(q, in) /\ q.id \in DOMAIN queues
    BY <1>8, <1>1 DEF SendFails
  <2>2. <<q.id, DedupId(q, in)>> \notin DOMAIN LiveDedup
    BY <1>1, <2>1 DEF Duplicate
  <2>3. ASSUME now <= accepted[a].at + DEDUP_WINDOW PROVE FALSE
    <3>1. /\ <<q.id, DedupId(q, in)>> \in DOMAIN dedup
          /\ accepted[a].at + DEDUP_WINDOW <= dedup[<<q.id, DedupId(q, in)>>]
      BY <1>8, <2>1, <2>3 DEF DedupInv
    <3>2. dedup[<<q.id, DedupId(q, in)>>] >= now
      BY <3>1, <2>3, <1>2, <1>7 DEF Inv, TypeOK
    <3> QED
      BY <2>2, <3>1, <3>2, LiveDedupFacts
  <2> QED
    BY <2>3, <1>2, <1>7
<1>9. DedupWindow'
  <2> SUFFICES ASSUME NEW a \in DOMAIN accepted', NEW b \in DOMAIN accepted', a < b,
                      accepted'[a].dedup # None,
                      accepted'[a].dedup = accepted'[b].dedup,
                      accepted'[a].queue_id = accepted'[b].queue_id
               PROVE  accepted'[b].at > accepted'[a].at + DEDUP_WINDOW
    BY DEF DedupWindow
  <2>1. a \in DOMAIN accepted
    BY <1>2, <1>4
  <2>2. CASE b = nextMessage
    <3>1. accepted'[b].at = now
      BY <2>2, <1>4
    <3> QED
      BY <2>1, <2>2, <3>1, <1>4, <1>8
  <2>3. CASE b \in DOMAIN accepted
    BY <2>1, <2>3, <1>4 DEF DedupWindow
  <2> QED
    BY <2>2, <2>3, <1>4
<1>10. DedupInv'
  <2> SUFFICES ASSUME NEW a \in DOMAIN accepted'
               PROVE  LET key == <<accepted'[a].queue_id, accepted'[a].dedup>> IN
                  /\ accepted'[a].queue_id \in Nat /\ accepted'[a].queue_id < nextQueue
                  /\ accepted'[a].at \in Nat
                  /\ /\ accepted'[a].dedup # None
                     /\ accepted'[a].queue_id \in DOMAIN queues
                     /\ now <= accepted'[a].at + DEDUP_WINDOW
                     => /\ key \in DOMAIN dedup'
                        /\ accepted'[a].at + DEDUP_WINDOW <= dedup'[key]
    BY <1>3 DEF DedupInv
  <2>1. CASE a = nextMessage
    <3>1. /\ accepted'[a].queue_id = q.id /\ accepted'[a].at = now
          /\ accepted'[a].dedup = IF IsFifo(q.name) THEN DedupId(q, in) ELSE None
      BY <2>1, <1>4
    <3> QED
      BY <3>1, <1>2, <1>6
  <2>2. CASE a \in DOMAIN accepted
    <3> DEFINE key == <<accepted[a].queue_id, accepted[a].dedup>>
    <3>1. /\ accepted[a].queue_id \in Nat /\ accepted[a].queue_id < nextQueue
          /\ accepted[a].at \in Nat
      BY <2>2 DEF DedupInv
    <3>2. ASSUME accepted[a].dedup # None, accepted[a].queue_id \in DOMAIN queues,
                 now <= accepted[a].at + DEDUP_WINDOW
          PROVE  key \in DOMAIN dedup' /\ accepted[a].at + DEDUP_WINDOW <= dedup'[key]
      <4>1. key \in DOMAIN dedup /\ accepted[a].at + DEDUP_WINDOW <= dedup[key]
        BY <2>2, <3>2 DEF DedupInv
      <4>2. now <= dedup[key]
        BY <3>1, <3>2, <4>1, <1>2 DEF Inv, TypeOK
      <4>3. key = <<q.id, DedupId(q, in)>> /\ IsFifo(q.name) => FALSE
        BY <2>2, <3>1, <3>2, <1>2, <1>8
      <4>4. CASE IsFifo(q.name)
        BY <4>1, <4>2, <4>3, <4>4, <1>5
      <4>5. CASE ~IsFifo(q.name)
        BY <4>1, <4>2, <4>5, <1>1, LiveDedupFacts DEF Inv, TypeOK
      <4> QED
        BY <4>4, <4>5
    <3> QED
      BY <2>2, <3>1, <3>2, <1>4
  <2> QED
    BY <2>1, <2>2, <1>4
<1> QED
  BY <1>9, <1>10

LEMMA DedupNext == Inv /\ DedupInv /\ DedupWindow /\ [Next]_vars => DedupInv' /\ DedupWindow'
<1> SUFFICES ASSUME Inv, DedupInv, DedupWindow, [Next]_vars
             PROVE  DedupInv' /\ DedupWindow'
  OBVIOUS
<1>0. nextQueue \in Nat /\ now \in Nat /\ \A k \in DOMAIN dedup : dedup[k] \in Nat
  BY DEF Inv, TypeOK
<1>1. CASE \E r \in CreateRequests : CreateQueue(r)
  BY <1>0, <1>1, DedupKept DEF CreateQueue, Put, ghosts
<1>2. ASSUME NEW c \in Clients, ClientStep(c) PROVE DedupInv' /\ DedupWindow'
  <2>1. CASE (\E n \in QueueNames : GetQueue(c, n)) \/ SendUnstored(c) \/ StartReceive(c)
              \/ PollMissing(c)
    BY <1>0, <2>1, DedupKept DEF GetQueue, SendUnstored, StartReceive, PollMissing, db, ghosts
  <2>2. CASE DeleteQueue(c)
    BY <1>0, <2>2, DedupKept DEF DeleteQueue, Restrict, ghosts
  <2>3. CASE PurgeQueue(c) \/ SetQueueAttributes(c)
    BY <1>0, <2>3, DedupKept DEF PurgeQueue, SetQueueAttributes, ghosts
  <2>4. CASE TagQueue(c)
    BY <1>0, <2>4, DedupKept DEF TagQueue, WriteTags, ghosts
  <2>5. CASE GetQueueAttributes(c)
    BY <1>0, <2>5, DedupKept, LiveDedupFacts DEF GetQueueAttributes, ghosts
  <2>6. CASE SendStored(c)
    BY <2>6, DedupSendStored
  <2>7. CASE Poll(c)
    <3>1. dedup' = LiveDedup /\ UNCHANGED <<queues, nextQueue, nextMessage, now, acked, accepted>>
      BY <2>7 DEF Poll, ReceiveTx
    <3> QED
      BY <1>0, <3>1, DedupKept, LiveDedupFacts
  <2>8. CASE DeleteMessage(c) \/ ChangeVisibility(c)
    BY <1>0, <2>8, DedupKept DEF DeleteMessage, ChangeVisibility
  <2> QED
    BY <1>2, <2>1, <2>2, <2>3, <2>4, <2>5, <2>6, <2>7, <2>8 DEF ClientStep
<1>3. CASE Tick
  BY <1>0, <1>3, DedupKept DEF Tick, db, ghosts
<1>4. CASE Restart
  BY <1>0, <1>4, DedupKept DEF Restart, db, ghosts
<1>5. CASE UNCHANGED vars
  BY <1>0, <1>5, DedupKept DEF vars
<1> QED
  BY <1>1, <1>2, <1>3, <1>4, <1>5 DEF Next

\* send_tx stores one message per deduplication id and window: whatever happens
\* to the first message, its queue's row in sqs_fifo_dedup outlives the window,
\* and only the deletion of the whole queue takes it away.
THEOREM Deduplication == Spec => []DedupWindow
<1>1. Init => DedupInv /\ DedupWindow
  BY DedupInit
<1>2. Inv /\ DedupInv /\ DedupWindow /\ [Next]_vars => (DedupInv /\ DedupWindow)'
  BY DedupNext
<1> QED
  BY <1>1, <1>2, Invariance, PTL DEF Spec

-----------------------------------------------------------------------------
(* A turn of the poll, row by row *)

\* The rows a receive of queue i leaves alone, hands out, and moves to target.
ReceivedRows(i, target, out, dead) ==
    /\ out \subseteq DOMAIN messages' /\ dead \subseteq DOMAIN messages'
    /\ out \cap dead = {}
    /\ DOMAIN messages' \subseteq DOMAIN messages
    /\ \A m \in DOMAIN messages' : m \notin out /\ m \notin dead => messages'[m] = messages[m]
    /\ \A m \in out \cup dead :
          /\ messages[m].queue_id = i /\ messages[m].visible_at <= now
          /\ messages'[m].receipt = messages[m].receipt + 1
          /\ messages'[m].sent_at = messages[m].sent_at
          /\ messages'[m].group = messages[m].group
          /\ messages'[m].sequence = messages[m].sequence
    /\ \A m \in out : /\ messages'[m].queue_id = i
                      /\ messages'[m].receive_count = messages[m].receive_count + 1
                      /\ messages'[m].dlq_source = messages[m].dlq_source
    /\ \A m \in dead : /\ messages'[m].queue_id = target
                       /\ messages'[m].receive_count = 0
                       /\ messages'[m].dlq_source = queues[i].name

\* The handles that go with the rows handed out.
ReceivedHandles(i, out) ==
    LET handles == NewHandles(messages, out) IN
    /\ DOMAIN issued' = DOMAIN issued \cup handles
    /\ \A h \in DOMAIN issued \ handles : issued'[h] = issued[h]
    /\ \A h \in handles : /\ issued'[h].queue = queues[i].name
                          /\ issued'[h].batch = handles

LEMMA PollEffect ==
    ASSUME TypeOK, NEW c \in Clients, Poll(c)
    PROVE  \E i, target \in DOMAIN queues, out, dead \in SUBSET DOMAIN messages :
              /\ out = Delivered(Retained(Row(i)), Row(i), reqs[c].opts)
              /\ dead = DeadLettered(Retained(Row(i)), Row(i), reqs[c].opts)
              /\ DOMAIN messages' = DOMAIN Retained(Row(i))
              /\ ReceivedRows(i, target, out, dead)
              /\ ReceivedHandles(i, out)
              /\ target \in Targets(Row(i))
              /\ dedup' = LiveDedup
              /\ \A d \in Clients : reqs'[d].pc # "idle" => reqs'[d] = reqs[d]
              /\ UNCHANGED <<queues, nextQueue, nextMessage, now, acked, accepted>>
<1>1. PICK i \in Named(reqs[c].name), target \in DOMAIN queues :
         /\ target \in Targets(Row(i))
         /\ ReceiveTx(Row(i), reqs[c].opts, target)
         /\ Answer(c) \/ UNCHANGED reqs
  BY DEF Poll
<1> DEFINE q == Row(i)
           ms == Retained(q)
           out == Delivered(ms, q, reqs[c].opts)
           dead == DeadLettered(ms, q, reqs[c].opts)
           vt == VisibilityTimeout(q, reqs[c].opts)
           handles == NewHandles(ms, out)
<1>2. /\ messages' = [m \in DOMAIN ms |->
            IF m \in out THEN ReceivedRow(ms[m], vt)
            ELSE IF m \in dead THEN MovedRow(ms[m], q, target)
            ELSE ms[m]]
      /\ dedup' = LiveDedup
      /\ issued' = [h \in DOMAIN issued \cup handles |->
            IF h \in handles
            THEN [queue |-> q.name, until |-> now + vt, batch |-> handles, late |-> FALSE]
            ELSE issued[h]]
  BY <1>1 DEF ReceiveTx
<1>3. /\ i \in DOMAIN queues /\ q.id = i /\ q.name = queues[i].name
      /\ now \in Nat
  BY DEF Named, TypeOK, QueueRows, Row
<1>4. /\ DOMAIN ms \subseteq DOMAIN messages
      /\ \A m \in DOMAIN ms : ms[m] = messages[m] /\ ms[m] \in MessageRows
      /\ out \subseteq DOMAIN ms /\ dead \subseteq DOMAIN ms
      /\ \A m \in out \cup dead : ms[m].queue_id = i /\ ms[m].visible_at <= now
  BY <1>3, RetainedFacts, ReceiveFacts DEF TypeOK
<1>5. out \cap dead = {}
  BY DEF Delivered, DeadLettered, Ready
<1>6. handles = NewHandles(messages, out)
  BY <1>4 DEF NewHandles
<1>7. \A d \in Clients : reqs'[d].pc # "idle" => reqs'[d] = reqs[d]
  BY <1>1 DEF TypeOK, Answer, Idle
<1> HIDE DEF q, ms, out, dead, vt, handles
<1>8. ReceivedHandles(i, out)
  BY <1>2, <1>3, <1>6 DEF ReceivedHandles
<1>9. DOMAIN messages' = DOMAIN ms
  BY <1>2
<1>10. ASSUME NEW m \in out
       PROVE  /\ messages'[m].receipt = messages[m].receipt + 1
              /\ messages'[m].queue_id = i
              /\ messages'[m].receive_count = messages[m].receive_count + 1
              /\ messages'[m].sent_at = messages[m].sent_at
              /\ messages'[m].group = messages[m].group
              /\ messages'[m].sequence = messages[m].sequence
              /\ messages'[m].dlq_source = messages[m].dlq_source
  <2>1. messages'[m] = ReceivedRow(messages[m], vt) /\ messages[m] \in MessageRows
        /\ messages[m].queue_id = i
    BY <1>2, <1>4
  <2> QED
    BY <2>1 DEF ReceivedRow, MessageRows
<1>11. ASSUME NEW m \in dead
       PROVE  /\ messages'[m].receipt = messages[m].receipt + 1
              /\ messages'[m].queue_id = target
              /\ messages'[m].receive_count = 0
              /\ messages'[m].sent_at = messages[m].sent_at
              /\ messages'[m].group = messages[m].group
              /\ messages'[m].sequence = messages[m].sequence
              /\ messages'[m].dlq_source = queues[i].name
  <2>1. m \in DOMAIN ms /\ m \notin out /\ ms[m] = messages[m] /\ messages[m] \in MessageRows
    BY <1>4, <1>5
  <2>2. messages'[m] = MovedRow(messages[m], q, target)
    BY <1>2, <2>1
  <2>3. /\ q.name = queues[i].name /\ q.name \in QueueNames
        /\ target \in Nat \ {0} /\ now \in Nat
    BY <1>3 DEF TypeOK, QueueRows
  <2> QED
    BY <2>1, <2>2, <2>3, MovedRowFacts
<1>12. ReceivedRows(i, target, out, dead)
  <2>1. \A m \in DOMAIN messages' : m \notin out /\ m \notin dead => messages'[m] = messages[m]
    BY <1>2, <1>4, <1>9
  <2>2. \A m \in out \cup dead :
          /\ messages[m].queue_id = i /\ messages[m].visible_at <= now
          /\ messages'[m].receipt = messages[m].receipt + 1
          /\ messages'[m].sent_at = messages[m].sent_at
          /\ messages'[m].group = messages[m].group
          /\ messages'[m].sequence = messages[m].sequence
    BY <1>4, <1>10, <1>11
  <2> QED
    BY <1>4, <1>5, <1>9, <1>10, <1>11, <2>1, <2>2 DEF ReceivedRows
<1>13. out \in SUBSET DOMAIN messages /\ dead \in SUBSET DOMAIN messages
  BY <1>4
<1>14. /\ out = Delivered(Retained(Row(i)), Row(i), reqs[c].opts)
       /\ dead = DeadLettered(Retained(Row(i)), Row(i), reqs[c].opts)
       /\ DOMAIN messages' = DOMAIN Retained(Row(i))
  BY <1>9 DEF q, ms, out, dead
<1>15. UNCHANGED <<queues, nextQueue, nextMessage, now, acked, accepted>>
  BY DEF Poll
<1> QED
  BY <1>1, <1>2, <1>3, <1>7, <1>8, <1>12, <1>13, <1>14, <1>15

-----------------------------------------------------------------------------
(* FIFO rows and redrive policies *)

\* A policy names a dead-letter queue of the queue's own type, with a limit that some
\* request set.
PolicyOK(q) ==
    q.attrs.RedrivePolicy # None =>
        /\ IsFifo(q.attrs.RedrivePolicy.target) = IsFifo(q.name)
        /\ q.attrs.RedrivePolicy.max \in ReceiveLimits

\* A message with a sequence number sits in a FIFO queue that exists, and has a group.
FifoInv ==
    /\ FifoRowsHaveQueue
    /\ \A m \in DOMAIN messages : messages[m].sequence > 0 =>
          IsFifo(queues[messages[m].queue_id].name) /\ messages[m].group # None
    /\ \A i \in DOMAIN queues : PolicyOK(queues[i])
    /\ \A c \in Clients : reqs[c].pc \in {"got", "handle"} => PolicyOK(reqs[c].q)

LEMMA PolicyMerged ==
    ASSUME NEW q, NEW n, NEW u \in AttributeUpdates,
           u \in Updates \cup {r.attrs : r \in CreateRequests},
           q.attrs \in Attributes, PolicyOK(q), q.name = n, ValidAttributes(n, u),
           NEW row, row.name = n, row.attrs = Merged(q.attrs, u)
    PROVE  PolicyOK(row)
<1>1. row.attrs.RedrivePolicy =
         IF u.RedrivePolicy = Keep THEN q.attrs.RedrivePolicy ELSE u.RedrivePolicy
  BY DEF Merged
<1>2. CASE u.RedrivePolicy = Keep
  BY <1>1, <1>2 DEF PolicyOK
<1>3. CASE u.RedrivePolicy # Keep /\ u.RedrivePolicy # None
  <2>1. u.RedrivePolicy.max \in ReceiveLimits
    BY <1>3 DEF ReceiveLimits
  <2>2. IsFifo(u.RedrivePolicy.target) = IsFifo(n)
    BY <1>3 DEF ValidAttributes
  <2> QED
    BY <1>1, <1>3, <2>1, <2>2 DEF PolicyOK
<1> QED
  BY <1>1, <1>2, <1>3 DEF PolicyOK

LEMMA FifoInit == Init => FifoInv
BY DEF Init, FifoInv, FifoRowsHaveQueue, Idle

\* Steps that remove rows, or change what is not the order of a FIFO queue.
LEMMA FifoKept ==
    ASSUME FifoInv,
           DOMAIN messages' \subseteq DOMAIN messages,
           \A m \in DOMAIN messages' :
              /\ messages'[m].queue_id = messages[m].queue_id
              /\ messages'[m].sequence = messages[m].sequence
              /\ messages'[m].group = messages[m].group
              /\ messages[m].queue_id \in DOMAIN queues => messages[m].queue_id \in DOMAIN queues',
           DOMAIN queues' \subseteq DOMAIN queues,
           \A i \in DOMAIN queues' : /\ queues'[i].name = queues[i].name
                                     /\ queues'[i].attrs = queues[i].attrs,
           DOMAIN dedup' \subseteq DOMAIN dedup,
           \A k \in DOMAIN dedup' : k[1] \in DOMAIN queues => k[1] \in DOMAIN queues',
           \A d \in Clients : reqs'[d].pc \in {"got", "handle"} => reqs'[d] = reqs[d]
    PROVE  FifoInv'
<1>1. FifoRowsHaveQueue'
  BY DEF FifoInv, FifoRowsHaveQueue
<1>2. ASSUME NEW m \in DOMAIN messages', messages'[m].sequence > 0
      PROVE  IsFifo(queues'[messages'[m].queue_id].name) /\ messages'[m].group # None
  BY <1>2 DEF FifoInv, FifoRowsHaveQueue, IsFifo
<1>3. \A i \in DOMAIN queues' : PolicyOK(queues'[i])
  BY DEF FifoInv, PolicyOK, IsFifo
<1>4. \A d \in Clients : reqs'[d].pc \in {"got", "handle"} => PolicyOK(reqs'[d].q)
  BY DEF FifoInv
<1>5. \A i \in DOMAIN queues' : PolicyOK(queues[i])'
  BY <1>3 DEF PolicyOK, IsFifo, ReceiveLimits
<1>6. \A d \in Clients : reqs'[d].pc \in {"got", "handle"} => PolicyOK(reqs[d].q)'
  BY <1>4 DEF PolicyOK, IsFifo, ReceiveLimits
<1> QED
  BY <1>1, <1>2, <1>5, <1>6 DEF FifoInv, IsFifo

LEMMA FifoCreateQueue ==
    ASSUME TypeOK, FifoInv, NEW r \in CreateRequests, CreateQueue(r)
    PROVE  FifoInv'
<1>1. /\ DOMAIN queues' = DOMAIN queues \cup {nextQueue}
      /\ queues'[nextQueue].name = r.name
      /\ queues'[nextQueue].attrs = Merged(DefaultAttrs, r.attrs)
      /\ \A i \in DOMAIN queues : i # nextQueue /\ queues'[i] = queues[i]
  BY DEF CreateQueue, Put, TypeOK
<1>2. UNCHANGED <<messages, dedup, reqs>>
  BY DEF CreateQueue
<1>3. FifoRowsHaveQueue'
  BY <1>1, <1>2 DEF FifoInv, FifoRowsHaveQueue
<1>4. \A m \in DOMAIN messages : messages[m].sequence > 0 =>
         IsFifo(queues'[messages[m].queue_id].name) /\ messages[m].group # None
  BY <1>1 DEF FifoInv, FifoRowsHaveQueue
<1>5. PolicyOK(queues'[nextQueue])
  <2> DEFINE q == [name |-> r.name, attrs |-> DefaultAttrs]
  <2>1. PolicyOK(q) /\ q.attrs \in Attributes /\ q.name = r.name
    BY SqsConstants DEF PolicyOK
  <2>2. r.attrs \in AttributeUpdates /\ r.attrs \in Updates \cup {x.attrs : x \in CreateRequests}
    BY SqsConstants
  <2>3. ValidAttributes(r.name, r.attrs)
    BY DEF CreateQueue
  <2>4. q.attrs = DefaultAttrs
    OBVIOUS
  <2> HIDE DEF q
  <2> QED
    BY <1>1, <2>1, <2>2, <2>3, <2>4, PolicyMerged
<1>6. \A i \in DOMAIN queues' : PolicyOK(queues'[i])
  BY <1>1, <1>5 DEF FifoInv
<1>7. \A i \in DOMAIN queues' : PolicyOK(queues[i])'
  BY <1>6 DEF PolicyOK, IsFifo, ReceiveLimits
<1>8. \A c \in Clients : reqs[c].pc \in {"got", "handle"} => PolicyOK(reqs[c].q)'
  BY <1>2 DEF FifoInv, PolicyOK, IsFifo, ReceiveLimits
<1> QED
  BY <1>2, <1>3, <1>4, <1>7, <1>8 DEF FifoInv, IsFifo

LEMMA FifoGetQueue ==
    ASSUME TypeOK, FifoInv, NEW c \in Clients, NEW n \in QueueNames, GetQueue(c, n)
    PROVE  FifoInv'
<1>1. PICK i \in DOMAIN queues : reqs'[c].q = Row(i)
  BY DEF GetQueue, Named, TypeOK
<1>2. PolicyOK(Row(i))
  BY DEF FifoInv, PolicyOK, Row
<1>3. \A d \in Clients : d # c => reqs'[d] = reqs[d]
  BY DEF GetQueue, TypeOK
<1>4. \A d \in Clients : reqs'[d].pc \in {"got", "handle"} => PolicyOK(reqs'[d].q)
  BY <1>1, <1>2, <1>3 DEF FifoInv
<1>5. \A d \in Clients : reqs'[d].pc \in {"got", "handle"} => PolicyOK(reqs[d].q)'
  BY <1>4 DEF PolicyOK, IsFifo, ReceiveLimits
<1> QED
  BY <1>5 DEF FifoInv, FifoRowsHaveQueue, PolicyOK, IsFifo, ReceiveLimits, GetQueue, db, ghosts

LEMMA FifoSetQueueAttributes ==
    ASSUME Inv, FifoInv, NEW c \in Clients, SetQueueAttributes(c)
    PROVE  FifoInv'
<1> DEFINE q == reqs[c].q
<1>1. PICK u \in Updates :
         queues' = [i \in DOMAIN queues |->
            IF i = q.id /\ ValidAttributes(q.name, u)
            THEN [queues[i] EXCEPT !.attrs = Merged(q.attrs, u)]
            ELSE queues[i]]
  BY DEF SetQueueAttributes
<1>2. UNCHANGED <<messages, dedup>>
      /\ \A d \in Clients : reqs'[d].pc \in {"got", "handle"} => reqs'[d] = reqs[d]
  BY DEF SetQueueAttributes, Answer, Idle, Inv, TypeOK
<1>3. /\ q \in Snapshots /\ PolicyOK(q)
      /\ q.id \in DOMAIN queues => queues[q.id].name = q.name
  BY CopyType DEF SetQueueAttributes, FifoInv, Inv, CopiesInv
<1>4. /\ DOMAIN queues' = DOMAIN queues
      /\ \A i \in DOMAIN queues : /\ queues'[i].name = queues[i].name
                                  /\ \/ queues'[i].attrs = queues[i].attrs
                                     \/ /\ i = q.id /\ ValidAttributes(q.name, u)
                                        /\ queues'[i].attrs = Merged(q.attrs, u)
  BY <1>1 DEF Inv, TypeOK, QueueRows
<1>5. \A i \in DOMAIN queues' : PolicyOK(queues'[i])
  <2> SUFFICES ASSUME NEW i \in DOMAIN queues PROVE PolicyOK(queues'[i])
    BY <1>4
  <2>1. CASE queues'[i].attrs = queues[i].attrs
    BY <2>1, <1>4 DEF FifoInv, PolicyOK
  <2>2. CASE /\ i = q.id /\ ValidAttributes(q.name, u)
             /\ queues'[i].attrs = Merged(q.attrs, u)
    <3>1. u \in AttributeUpdates /\ q.attrs \in Attributes /\ queues'[i].name = q.name
      BY <2>2, <1>3, <1>4, SqsConstants DEF Snapshots
    <3> QED
      BY <2>2, <3>1, <1>3, PolicyMerged
  <2> QED
    BY <2>1, <2>2, <1>4
<1>6. \A i \in DOMAIN queues' : PolicyOK(queues[i])'
  BY <1>5 DEF PolicyOK, IsFifo, ReceiveLimits
<1>7. \A d \in Clients : reqs'[d].pc \in {"got", "handle"} => PolicyOK(reqs[d].q)'
  BY <1>2 DEF FifoInv, PolicyOK, IsFifo, ReceiveLimits
<1>8. FifoRowsHaveQueue'
  BY <1>2, <1>4 DEF FifoInv, FifoRowsHaveQueue
<1>9. \A m \in DOMAIN messages : messages[m].sequence > 0 =>
         IsFifo(queues'[messages[m].queue_id].name) /\ messages[m].group # None
  BY <1>4 DEF FifoInv, FifoRowsHaveQueue
<1> QED
  BY <1>2, <1>6, <1>7, <1>8, <1>9 DEF FifoInv, IsFifo

LEMMA FifoSendStored ==
    ASSUME Inv, FifoInv, NEW c \in Clients, SendStored(c)
    PROVE  FifoInv'
<1> DEFINE q == reqs[c].q
<1>1. PICK in \in SendInputs :
         LET fifo == IsFifo(q.name)
             seq == IF fifo THEN queues[q.id].fifo_seq + 1 ELSE 0
         IN
         /\ ~SendFails(q, in)
         /\ queues' = IF fifo THEN [queues EXCEPT ![q.id].fifo_seq = seq] ELSE queues
         /\ messages' = Put(Retained(q), nextMessage,
               [queue_id |-> q.id, receipt |-> 0, receive_count |-> 0,
                visible_at |-> now + Delay(q, in), sent_at |-> now,
                group |-> in.group, sequence |-> seq, dlq_source |-> None])
         /\ dedup' = IF fifo
                     THEN Put(LiveDedup, <<q.id, DedupId(q, in)>>, now + DEDUP_WINDOW)
                     ELSE LiveDedup
  BY DEF SendStored
<1>2. /\ DOMAIN messages' \subseteq DOMAIN messages \cup {nextMessage}
      /\ \A m \in DOMAIN messages' : m # nextMessage => messages'[m] = messages[m]
      /\ messages'[nextMessage].queue_id = q.id
      /\ messages'[nextMessage].group = in.group
      /\ messages'[nextMessage].sequence =
            IF IsFifo(q.name) THEN queues[q.id].fifo_seq + 1 ELSE 0
  BY <1>1, RetainedFacts DEF Put
<1>3. /\ DOMAIN queues' = DOMAIN queues
      /\ \A i \in DOMAIN queues : /\ queues'[i].name = queues[i].name
                                  /\ queues'[i].attrs = queues[i].attrs
  BY SendQueues DEF Inv
<1>4. IsFifo(q.name) => /\ q.id \in DOMAIN queues /\ in.group # None
                        /\ queues[q.id].name = q.name
  BY <1>1 DEF SendFails, SendStored, Inv, CopiesInv
<1>5. \A d \in Clients : reqs'[d].pc \in {"got", "handle"} => reqs'[d] = reqs[d]
  BY DEF SendStored, Answer, Idle, Inv, TypeOK
<1>6. FifoRowsHaveQueue'
  <2>1. \A k \in DOMAIN dedup' : k[1] \in DOMAIN queues'
    BY <1>1, <1>3, <1>4, LiveDedupFacts DEF Put, FifoInv, FifoRowsHaveQueue
  <2>2. \A m \in DOMAIN messages' : messages'[m].sequence > 0 => messages'[m].queue_id \in DOMAIN queues'
    BY <1>2, <1>3, <1>4 DEF FifoInv, FifoRowsHaveQueue
  <2> QED
    BY <2>1, <2>2 DEF FifoRowsHaveQueue
<1>7. ASSUME NEW m \in DOMAIN messages', messages'[m].sequence > 0
      PROVE  IsFifo(queues'[messages'[m].queue_id].name) /\ messages'[m].group # None
  <2>1. CASE m = nextMessage
    BY <1>7, <2>1, <1>2, <1>3, <1>4
  <2>2. CASE m # nextMessage
    BY <1>7, <2>2, <1>2, <1>3 DEF FifoInv, FifoRowsHaveQueue
  <2> QED
    BY <2>1, <2>2
<1>8. \A i \in DOMAIN queues' : PolicyOK(queues[i])'
  BY <1>3 DEF FifoInv, PolicyOK, IsFifo, ReceiveLimits
<1>9. \A d \in Clients : reqs'[d].pc \in {"got", "handle"} => PolicyOK(reqs[d].q)'
  BY <1>5 DEF FifoInv, PolicyOK, IsFifo, ReceiveLimits
<1> QED
  BY <1>6, <1>7, <1>8, <1>9 DEF FifoInv, IsFifo

LEMMA FifoPoll ==
    ASSUME Inv, FifoInv, NEW c \in Clients, Poll(c)
    PROVE  FifoInv'
<1>1. PICK i \in DOMAIN queues, target \in DOMAIN queues,
              out \in SUBSET DOMAIN messages, dead \in SUBSET DOMAIN messages :
              /\ ReceivedRows(i, target, out, dead)
              /\ dead = DeadLettered(Retained(Row(i)), Row(i), reqs[c].opts)
              /\ target \in Targets(Row(i))
              /\ dedup' = LiveDedup
              /\ \A d \in Clients : reqs'[d].pc # "idle" => reqs'[d] = reqs[d]
              /\ UNCHANGED <<queues, nextQueue, nextMessage, now, acked, accepted>>
  BY PollEffect DEF Inv
<1>2. ASSUME dead # {}
      PROVE  IsFifo(queues[target].name) = IsFifo(queues[i].name)
  <2>1. DeadLetterQueues(Row(i)) # {}
    BY <1>1, <1>2 DEF DeadLettered, Exhausted
  <2>2. target \in DeadLetterQueues(Row(i))
    BY <1>1, <2>1 DEF Targets
  <2>3. /\ queues[i].attrs.RedrivePolicy # None
        /\ queues[target].name = queues[i].attrs.RedrivePolicy.target
    BY <2>1, <2>2 DEF DeadLetterQueues, Named, Row
  <2> QED
    BY <2>3 DEF FifoInv, PolicyOK
<1>3. ASSUME NEW m \in DOMAIN messages', messages'[m].sequence > 0
      PROVE  /\ messages'[m].queue_id \in DOMAIN queues
             /\ IsFifo(queues[messages'[m].queue_id].name) /\ messages'[m].group # None
  <2>1. /\ messages[m].sequence > 0 /\ messages'[m].group = messages[m].group
        /\ m \in DOMAIN messages
    BY <1>1, <1>3 DEF ReceivedRows
  <2>2. /\ messages[m].queue_id \in DOMAIN queues
        /\ IsFifo(queues[messages[m].queue_id].name) /\ messages[m].group # None
    BY <2>1 DEF FifoInv, FifoRowsHaveQueue
  <2>3. CASE m \in dead
    <3>1. messages[m].queue_id = i /\ messages'[m].queue_id = target
      BY <2>3, <1>1 DEF ReceivedRows
    <3> QED
      BY <2>1, <2>2, <2>3, <3>1, <1>2
  <2>4. CASE m \notin dead
    <3>1. messages'[m].queue_id = messages[m].queue_id
      BY <2>4, <1>1 DEF ReceivedRows
    <3> QED
      BY <2>1, <2>2, <3>1
  <2> QED
    BY <2>3, <2>4
<1>4. FifoRowsHaveQueue'
  BY <1>1, <1>3, LiveDedupFacts DEF FifoInv, FifoRowsHaveQueue
<1>5. \A d \in Clients : reqs'[d].pc \in {"got", "handle"} => reqs'[d] = reqs[d]
  BY <1>1
<1>6. \A d \in Clients : reqs'[d].pc \in {"got", "handle"} => PolicyOK(reqs[d].q)'
  BY <1>5 DEF FifoInv, PolicyOK, IsFifo, ReceiveLimits
<1>7. \A j \in DOMAIN queues' : PolicyOK(queues[j])'
  BY <1>1 DEF FifoInv, PolicyOK, IsFifo, ReceiveLimits
<1> QED
  BY <1>1, <1>3, <1>4, <1>6, <1>7 DEF FifoInv, IsFifo

LEMMA FifoNext == Inv /\ FifoInv /\ [Next]_vars => FifoInv'
<1> SUFFICES ASSUME Inv, FifoInv, [Next]_vars PROVE FifoInv'
  OBVIOUS
<1>0. TypeOK /\ \A m \in DOMAIN messages : messages[m] \in MessageRows
  BY DEF Inv, TypeOK
<1>1. CASE \E r \in CreateRequests : CreateQueue(r)
  BY <1>0, <1>1, FifoCreateQueue
<1>2. ASSUME NEW c \in Clients, ClientStep(c) PROVE FifoInv'
  <2>0. Answer(c) => \A d \in Clients : reqs'[d].pc \in {"got", "handle"} => reqs'[d] = reqs[d]
    BY <1>0 DEF TypeOK, Answer, Idle
  <2>1. CASE \E n \in QueueNames : GetQueue(c, n)
    BY <1>0, <2>1, FifoGetQueue
  <2>2. CASE DeleteQueue(c)
    <3>1. /\ DOMAIN messages' \subseteq {m \in DOMAIN messages : messages[m].queue_id # reqs[c].q.id}
          /\ \A m \in DOMAIN messages' : messages'[m] = messages[m]
          /\ DOMAIN queues' = DOMAIN queues \ {reqs[c].q.id}
          /\ \A i \in DOMAIN queues' : queues'[i] = queues[i]
          /\ DOMAIN dedup' = {k \in DOMAIN dedup : k[1] # reqs[c].q.id}
          /\ Answer(c)
      BY <2>2 DEF DeleteQueue, Restrict
    <3> QED
      BY <2>0, <3>1, FifoKept
  <2>3. CASE PurgeQueue(c) \/ DeleteMessage(c)
    <3>1. /\ DOMAIN messages' \subseteq DOMAIN messages
          /\ \A m \in DOMAIN messages' : messages'[m] = messages[m]
          /\ Answer(c) /\ UNCHANGED <<queues, dedup>>
      BY <2>3 DEF PurgeQueue, DeleteMessage, Restrict
    <3> QED
      BY <2>0, <3>1, FifoKept
  <2>4. CASE GetQueueAttributes(c)
    BY <2>0, <2>4, FifoKept, RetainedFacts, LiveDedupFacts DEF GetQueueAttributes
  <2>5. CASE SetQueueAttributes(c)
    BY <2>5, FifoSetQueueAttributes
  <2>6. CASE TagQueue(c)
    <3>1. /\ DOMAIN queues' = DOMAIN queues
          /\ \A i \in DOMAIN queues : /\ queues'[i].name = queues[i].name
                                      /\ queues'[i].attrs = queues[i].attrs
          /\ Answer(c) /\ UNCHANGED <<messages, dedup>>
      BY <1>0, <2>6 DEF TagQueue, WriteTags, TypeOK, QueueRows
    <3> QED
      BY <2>0, <3>1, FifoKept
  <2>7. CASE SendUnstored(c) \/ PollMissing(c)
    BY <2>0, <2>7, FifoKept DEF SendUnstored, PollMissing, db
  <2>8. CASE SendStored(c)
    BY <2>8, FifoSendStored
  <2>9. CASE StartReceive(c)
    <3>1. UNCHANGED <<queues, messages, dedup>>
          /\ \A d \in Clients : reqs'[d].pc \in {"got", "handle"} => reqs'[d] = reqs[d]
      BY <1>0, <2>9 DEF StartReceive, db, TypeOK
    <3> QED
      BY <3>1, FifoKept
  <2>10. CASE Poll(c)
    BY <2>10, FifoPoll
  <2>11. CASE ChangeVisibility(c)
    <3>1. /\ DOMAIN messages' = DOMAIN messages
          /\ \A m \in DOMAIN messages : /\ messages'[m].queue_id = messages[m].queue_id
                                        /\ messages'[m].sequence = messages[m].sequence
                                        /\ messages'[m].group = messages[m].group
          /\ Answer(c) /\ UNCHANGED <<queues, dedup>>
      BY <1>0, <2>11 DEF ChangeVisibility, MessageRows
    <3> QED
      BY <2>0, <3>1, FifoKept
  <2> QED
    BY <1>2, <2>1, <2>2, <2>3, <2>4, <2>5, <2>6, <2>7, <2>8, <2>9, <2>10, <2>11 DEF ClientStep
<1>3. CASE Tick
  BY <1>3, FifoKept DEF Tick, db
<1>4. CASE Restart
  BY <1>4, FifoKept DEF Restart, db, Idle
<1>5. CASE UNCHANGED vars
  BY <1>5, FifoKept DEF vars
<1> QED
  BY <1>1, <1>2, <1>3, <1>4, <1>5 DEF Next

LEMMA FifoInvariance == Spec => [](Inv /\ FifoInv)
BY Invariance, FifoInit, FifoNext, PTL DEF Spec

\* The tables keep their shape, and a send that races with DeleteQueue never leaves a
\* FIFO message or a deduplication row of a queue that is gone: send_tx fails on the
\* missing row, a dead-letter move goes to a row that exists, and delete_queue takes
\* all three tables in one transaction.
THEOREM Sound == Spec => []TablesSound
<1>1. Inv /\ FifoInv => TablesSound
  BY DEF Inv, FifoInv, TablesSound
<1> QED
  BY <1>1, FifoInvariance, PTL

-----------------------------------------------------------------------------
(* Loss *)

LEMMA LossDelete ==
    ASSUME Inv, NEW c \in Clients, DeleteMessage(c),
           NEW m \in DOMAIN messages \ DOMAIN messages'
    PROVE  <<m, messages[m].receipt>> \in acked'
<1> DEFINE h == reqs[c].h
<1>1. /\ Holds(m, h, reqs[c].q.id) /\ h \in Handles
      /\ h \in DOMAIN issued
  BY CopyType DEF DeleteMessage, Restrict, Inv, CopiesInv
<1>2. h = <<m, messages[m].receipt>>
  BY <1>1 DEF Holds, Handles
<1>3. messages[m].queue_id \in DOMAIN queues
      /\ queues[messages[m].queue_id].name = issued[h].queue
  BY <1>1, <1>2 DEF Inv, HolderInv
<1>4. issued[h].queue = reqs[c].q.name
  BY <1>1, <1>3 DEF Holds, Inv, CopiesInv, DeleteMessage
<1> QED
  BY <1>2, <1>4 DEF DeleteMessage

LEMMA LossRetention ==
    ASSUME NEW q, NEW m \in DOMAIN messages \ DOMAIN Retained(q)
    PROVE  /\ messages[m].queue_id = q.id
           /\ messages[m].sent_at + q.attrs.MessageRetentionPeriod < now
BY DEF Retained, Restrict

\* No message disappears unexplained: only the deletion or purge of its queue, a
\* retention period that its queue has or had when a request copied it, or a
\* DeleteMessage with its latest handle take it out of the table.
THEOREM NoSilentLoss == Spec => LossExplained
<1> DEFINE Explained ==
       \A m \in DOMAIN messages \ DOMAIN messages' :
          LET r == messages[m] IN
          \/ r.queue_id \notin DOMAIN queues'
          \/ /\ acked' = acked
             /\ \A k \in DOMAIN messages' : messages'[k].queue_id # r.queue_id
          \/ \E q \in Versions(r.queue_id) :
                r.sent_at + q.attrs.MessageRetentionPeriod < now
          \/ <<m, r.receipt>> \in acked'
<1>1. Inv /\ [Next]_vars => [Explained]_vars
  <2> SUFFICES ASSUME Inv, Next PROVE Explained
    OBVIOUS
  <2>1. CASE DOMAIN messages \subseteq DOMAIN messages'
    BY <2>1
  <2>2. ASSUME NEW c \in Clients, ClientStep(c) PROVE Explained
    <3>1. CASE DeleteQueue(c)
      BY <3>1 DEF DeleteQueue, Restrict
    <3>2. CASE PurgeQueue(c)
      BY <3>2 DEF PurgeQueue, Restrict, ghosts
    <3>3. CASE GetQueueAttributes(c) \/ SendStored(c)
      <4>1. reqs[c].pc = "got" /\ DOMAIN Retained(reqs[c].q) \subseteq DOMAIN messages'
        BY <3>3 DEF GetQueueAttributes, SendStored, Put
      <4>2. reqs[c].q \in Versions(reqs[c].q.id)
        BY <4>1 DEF Versions
      <4> QED
        BY <4>1, <4>2, LossRetention
    <3>4. CASE Poll(c)
      <4>1. PICK i \in DOMAIN queues : DOMAIN messages' = DOMAIN Retained(Row(i))
        BY <3>4, PollEffect DEF Inv
      <4>2. queues[i] \in Versions(i) /\ Row(i).id = i /\ Row(i).attrs = queues[i].attrs
        BY DEF Versions, Row
      <4> QED
        BY <4>1, <4>2, LossRetention
    <3>5. CASE DeleteMessage(c)
      BY <3>5, LossDelete
    <3>6. CASE \/ \E n \in QueueNames : GetQueue(c, n)
               \/ SetQueueAttributes(c) \/ TagQueue(c) \/ SendUnstored(c) \/ StartReceive(c)
               \/ PollMissing(c) \/ ChangeVisibility(c)
      BY <3>6, <2>1 DEF GetQueue, SetQueueAttributes, TagQueue, SendUnstored, StartReceive,
                        PollMissing, ChangeVisibility, db
    <3> QED
      BY <2>2, <3>1, <3>2, <3>3, <3>4, <3>5, <3>6 DEF ClientStep
  <2>3. CASE (\E r \in CreateRequests : CreateQueue(r)) \/ Tick \/ Restart
    BY <2>1, <2>3 DEF CreateQueue, Tick, Restart, db
  <2> QED
    BY <2>2, <2>3 DEF Next
<1> QED
  BY <1>1, Invariance, PTL DEF Spec, LossExplained

-----------------------------------------------------------------------------
(* Groups of a FIFO queue *)

\* A message that was received carries a handle that a client was given.
ReceivedInv ==
    \A m \in DOMAIN messages :
        messages[m].receive_count > 0 => <<m, messages[m].receipt>> \in DOMAIN issued

\* Steps that receive nothing, move nothing and change no visibility.
LEMMA HeldKept ==
    ASSUME TypeOK, ReceivedInv, GroupHeldByOneReceive,
           \A m \in DOMAIN messages' :
              \/ m \in DOMAIN messages /\ messages'[m] = messages[m]
              \/ messages'[m].receive_count = 0,
           UNCHANGED issued, now' \in Nat, now <= now'
    PROVE  ReceivedInv' /\ GroupHeldByOneReceive'
<1>1. ReceivedInv'
  BY DEF ReceivedInv
<1>2. \A m \in DOMAIN messages' : InFlight(m)' =>
         m \in DOMAIN messages /\ InFlight(m) /\ messages'[m] = messages[m]
  BY DEF InFlight, TypeOK, MessageRows
<1>3. GroupHeldByOneReceive'
  BY <1>2 DEF GroupHeldByOneReceive
<1> QED
  BY <1>1, <1>3

LEMMA HeldPoll ==
    ASSUME Inv, FifoInv, ReceivedInv, GroupHeldByOneReceive, NEW c \in Clients, Poll(c)
    PROVE  ReceivedInv' /\ GroupHeldByOneReceive'
<1>1. PICK i \in DOMAIN queues, target \in DOMAIN queues,
              out \in SUBSET DOMAIN messages, dead \in SUBSET DOMAIN messages :
         /\ out = Delivered(Retained(Row(i)), Row(i), reqs[c].opts)
         /\ DOMAIN messages' = DOMAIN Retained(Row(i))
         /\ ReceivedRows(i, target, out, dead)
         /\ ReceivedHandles(i, out)
         /\ now' = now
  BY PollEffect DEF Inv
<1> DEFINE handles == NewHandles(messages, out)
<1>2. /\ \A m \in DOMAIN messages : messages[m].receipt \in Nat /\ messages[m].receive_count \in Nat
                                    /\ m \in Nat
      /\ now \in Nat
  BY DEF Inv, TypeOK, MessageRows
<1>3. \A m \in out : <<m, messages'[m].receipt>> \in handles
  BY <1>1 DEF ReceivedRows, NewHandles
<1>4. \A m \in DOMAIN messages : <<m, messages[m].receipt>> \in DOMAIN issued
         => <<m, messages[m].receipt>> \notin handles
  BY <1>2 DEF NewHandles
<1>5. ReceivedInv'
  <2> SUFFICES ASSUME NEW m \in DOMAIN messages', messages'[m].receive_count > 0
               PROVE  <<m, messages'[m].receipt>> \in DOMAIN issued'
    BY DEF ReceivedInv
  <2>1. CASE m \in out
    BY <2>1, <1>1, <1>3 DEF ReceivedHandles
  <2>2. CASE m \notin out
    BY <2>2, <1>1 DEF ReceivedRows, ReceivedHandles, ReceivedInv
  <2> QED
    BY <2>1, <2>2
<1>6. GroupHeldByOneReceive'
  <2> SUFFICES ASSUME NEW a \in DOMAIN messages', NEW b \in DOMAIN messages',
                      messages'[a].queue_id = messages'[b].queue_id,
                      messages'[a].sequence > 0, messages'[b].sequence > 0,
                      messages'[a].group = messages'[b].group,
                      InFlight(a)', InFlight(b)'
               PROVE  LET ha == <<a, messages'[a].receipt>>
                          hb == <<b, messages'[b].receipt>>
                      IN  issued'[ha].late \/ issued'[hb].late \/ ha \in issued'[hb].batch
    BY DEF GroupHeldByOneReceive
  <2>1. /\ a \notin dead /\ b \notin dead
        /\ a \in DOMAIN messages /\ b \in DOMAIN messages
    BY <1>1, <1>2 DEF ReceivedRows, InFlight
  <2>2. \A m \in {a, b} : m \notin out =>
           /\ messages'[m] = messages[m] /\ InFlight(m)
           /\ <<m, messages[m].receipt>> \in DOMAIN issued
           /\ issued'[<<m, messages[m].receipt>>] = issued[<<m, messages[m].receipt>>]
    BY <1>1, <1>4, <2>1 DEF ReceivedRows, ReceivedHandles, InFlight, ReceivedInv
  <2>3. ASSUME NEW x \in {a, b}, NEW y \in {a, b}, x \in out, y \notin out PROVE FALSE
    <3> DEFINE q == Row(i)
               ms == Retained(q)
    <3>1. /\ x \in DOMAIN ms /\ y \in DOMAIN ms /\ ms[x] = messages[x] /\ ms[y] = messages[y]
          /\ q.id = i /\ q.name = queues[i].name
      BY <1>1, RetainedFacts DEF Row
    <3>2. /\ messages[x].queue_id = i /\ messages[y].queue_id = i
          /\ messages[x].group = messages[y].group /\ messages[x].sequence > 0
      BY <1>1, <2>2, <2>3 DEF ReceivedRows
    <3>3. ms[x].group \in BlockedGroups(ms, q)
      BY <2>2, <2>3, <3>1, <3>2, <1>1 DEF BlockedGroups, InFlight
    <3>4. IsFifo(q.name) /\ ms[x].group # None
      BY <2>1, <2>3, <3>1, <3>2 DEF FifoInv
    <3>5. Skipped(ms, q, x)
      BY <3>3, <3>4 DEF Skipped
    <3> QED
      BY <3>5, <2>3, <1>1 DEF Delivered, Ready
  <2>4. CASE a \in out /\ b \in out
    <3>1. /\ <<a, messages'[a].receipt>> \in handles
          /\ issued'[<<b, messages'[b].receipt>>].batch = handles
      BY <2>4, <1>1, <1>3 DEF ReceivedHandles
    <3> QED
      BY <3>1
  <2>5. CASE a \notin out /\ b \notin out
    <3>1. messages[a].queue_id = messages[b].queue_id
          /\ messages[a].sequence > 0 /\ messages[b].sequence > 0
          /\ messages[a].group = messages[b].group /\ InFlight(a) /\ InFlight(b)
      BY <2>2, <2>5
    <3>2. LET ha == <<a, messages[a].receipt>>
              hb == <<b, messages[b].receipt>>
          IN  issued[ha].late \/ issued[hb].late \/ ha \in issued[hb].batch
      BY <2>1, <3>1 DEF GroupHeldByOneReceive
    <3> QED
      BY <2>2, <2>5, <3>2
  <2> QED
    BY <2>3, <2>4, <2>5
<1> QED
  BY <1>5, <1>6

LEMMA HeldChange ==
    ASSUME Inv, ReceivedInv, GroupHeldByOneReceive, NEW c \in Clients, ChangeVisibility(c)
    PROVE  ReceivedInv' /\ GroupHeldByOneReceive'
<1> DEFINE h == reqs[c].h
           hit == {m \in DOMAIN messages : Holds(m, h, reqs[c].q.id)}
<1>1. PICK timeout \in Timeouts :
          /\ messages' = [m \in DOMAIN messages |->
                IF m \in hit THEN [messages[m] EXCEPT !.visible_at = now + timeout]
                             ELSE messages[m]]
          /\ issued' = IF hit = {} THEN issued
                       ELSE [issued EXCEPT ![h].until = now + timeout,
                                ![h].late = @ \/ \E m \in hit :
                                                    messages[m].visible_at <= now]
          /\ now' = now
  BY DEF ChangeVisibility
<1>2. h \in Handles /\ h \in DOMAIN issued
  BY CopyType DEF ChangeVisibility, Inv, CopiesInv
<1>3. \A m \in hit : h = <<m, messages[m].receipt>>
  BY <1>2 DEF Holds, Handles
<1> HIDE DEF h, hit
<1>4. /\ DOMAIN messages' = DOMAIN messages
      /\ \A m \in DOMAIN messages :
            /\ messages'[m].receipt = messages[m].receipt
            /\ messages'[m].queue_id = messages[m].queue_id
            /\ messages'[m].receive_count = messages[m].receive_count
            /\ messages'[m].sequence = messages[m].sequence
            /\ messages'[m].group = messages[m].group
            /\ m \notin hit => messages'[m].visible_at = messages[m].visible_at
  BY <1>1 DEF Inv, TypeOK, MessageRows
<1>5. /\ DOMAIN issued' = DOMAIN issued
      /\ \A x \in DOMAIN issued : issued'[x].batch = issued[x].batch
      /\ \A x \in DOMAIN issued : issued[x].late => issued'[x].late
      /\ (\E m \in hit : messages[m].visible_at <= now) => issued'[h].late
  <2>1. CASE hit = {}
    BY <2>1, <1>1
  <2>2. CASE hit # {}
    <3>1. \A x \in DOMAIN issued : issued[x] \in Grants
      BY DEF Inv, TypeOK
    <3>2. issued' = [issued EXCEPT ![h] = [issued[h] EXCEPT !.until = now + timeout,
                         !.late = issued[h].late \/ \E m \in hit : messages[m].visible_at <= now]]
      BY <2>2, <1>1, <1>2
    <3> QED
      BY <3>1, <3>2, <1>2 DEF Grants
  <2> QED
    BY <2>1, <2>2
<1>6. ReceivedInv'
  BY <1>4, <1>5 DEF ReceivedInv
<1>7. GroupHeldByOneReceive'
  <2> SUFFICES ASSUME NEW a \in DOMAIN messages, NEW b \in DOMAIN messages,
                      messages[a].queue_id = messages[b].queue_id,
                      messages[a].sequence > 0, messages[b].sequence > 0,
                      messages[a].group = messages[b].group,
                      InFlight(a)', InFlight(b)'
               PROVE  LET ha == <<a, messages[a].receipt>>
                          hb == <<b, messages[b].receipt>>
                      IN  issued'[ha].late \/ issued'[hb].late \/ ha \in issued'[hb].batch
    BY <1>4 DEF GroupHeldByOneReceive
  <2>1. \A m \in {a, b} : /\ messages[m].receive_count > 0
                          /\ <<m, messages[m].receipt>> \in DOMAIN issued
    BY <1>4 DEF InFlight, ReceivedInv
  <2>2. ASSUME NEW m \in {a, b}, ~InFlight(m)
        PROVE  issued'[<<m, messages[m].receipt>>].late
    <3>1. m \in hit
      BY <2>1, <2>2, <1>1, <1>4 DEF InFlight
    <3>2. messages[m].visible_at <= now
      <4>1. messages[m] \in MessageRows /\ now \in Nat
        BY DEF Inv, TypeOK
      <4>2. messages[m].visible_at \in Nat
        BY <4>1 DEF MessageRows
      <4> QED
        BY <2>1, <2>2, <4>1, <4>2 DEF InFlight
    <3> QED
      BY <3>1, <3>2, <1>3, <1>5
  <2>3. CASE InFlight(a) /\ InFlight(b)
    BY <2>1, <2>3, <1>5 DEF GroupHeldByOneReceive
  <2> QED
    BY <2>2, <2>3
<1> QED
  BY <1>6, <1>7

LEMMA HeldNext ==
    Inv /\ FifoInv /\ ReceivedInv /\ GroupHeldByOneReceive /\ [Next]_vars
    => ReceivedInv' /\ GroupHeldByOneReceive'
<1> SUFFICES ASSUME Inv, FifoInv, ReceivedInv, GroupHeldByOneReceive, [Next]_vars
             PROVE  ReceivedInv' /\ GroupHeldByOneReceive'
  OBVIOUS
<1>0. TypeOK /\ now \in Nat
  BY DEF Inv, TypeOK
<1>1. CASE (\E r \in CreateRequests : CreateQueue(r)) \/ Tick \/ Restart \/ UNCHANGED vars
  <2>1. UNCHANGED <<messages, issued>> /\ (now' = now \/ now' = now + 1)
    BY <1>1 DEF CreateQueue, Tick, Restart, vars, db, ghosts
  <2> QED
    BY <1>0, <2>1, HeldKept
<1>2. ASSUME NEW c \in Clients, ClientStep(c) PROVE ReceivedInv' /\ GroupHeldByOneReceive'
  <2>1. CASE \/ \E n \in QueueNames : GetQueue(c, n)
             \/ SetQueueAttributes(c) \/ TagQueue(c) \/ SendUnstored(c) \/ StartReceive(c)
             \/ PollMissing(c)
    BY <1>0, <2>1, HeldKept DEF GetQueue, SetQueueAttributes, TagQueue, SendUnstored,
                                StartReceive, PollMissing, db, ghosts
  <2>2. CASE DeleteQueue(c) \/ PurgeQueue(c) \/ DeleteMessage(c)
    BY <1>0, <2>2, HeldKept DEF DeleteQueue, PurgeQueue, DeleteMessage, Restrict, ghosts
  <2>3. CASE GetQueueAttributes(c)
    BY <1>0, <2>3, HeldKept, RetainedFacts DEF GetQueueAttributes, ghosts
  <2>4. CASE SendStored(c)
    <3>1. /\ \A m \in DOMAIN messages' : \/ m \in DOMAIN messages /\ messages'[m] = messages[m]
                                         \/ messages'[m].receive_count = 0
          /\ UNCHANGED <<issued, now>>
      BY <2>4, SendRows DEF SendStored
    <3> QED
      BY <1>0, <3>1, HeldKept
  <2>5. CASE Poll(c)
    BY <2>5, HeldPoll
  <2>6. CASE ChangeVisibility(c)
    BY <2>6, HeldChange
  <2> QED
    BY <1>2, <2>1, <2>2, <2>3, <2>4, <2>5, <2>6 DEF ClientStep
<1> QED
  BY <1>1, <1>2 DEF Next

\* A FIFO group is in one receiver's hands: receive_tx passes over a group with a message
\* in flight, and since every message with a sequence number sits in a FIFO queue, dead
\* letters included, it never looks at one without asking for its group.
THEOREM OneHolder == Spec => []GroupHeldByOneReceive
<1>1. Init => ReceivedInv /\ GroupHeldByOneReceive
  BY DEF Init, ReceivedInv, GroupHeldByOneReceive
<1> QED
  BY <1>1, HeldNext, FifoInvariance, PTL DEF Spec

-----------------------------------------------------------------------------
(* Dead letters *)

\* The handles numbered j of message m came from the queue named n.
GivenBy(m, j, n) == <<m, j>> \in DOMAIN issued /\ issued[<<m, j>>].queue = n

\* The last receive_count handles of a row are those its queue gave out.
CountInv ==
    \A m \in DOMAIN messages : \A j \in Int :
        messages[m].receipt - messages[m].receive_count < j /\ j <= messages[m].receipt =>
            /\ messages[m].queue_id \in DOMAIN queues
            /\ GivenBy(m, j, queues[messages[m].queue_id].name)

\* A row was moved after as many handles in a row as some limit asks for.
MovedInv ==
    \A m \in DOMAIN messages :
        messages[m].dlq_source # None =>
            \E max \in ReceiveLimits, lo \in Int : \A j \in Int :
                lo < j /\ j <= lo + max => GivenBy(m, j, messages[m].dlq_source)

\* Rows stand or are new, handles stay with their queue, queues keep their names.
LEMMA EarnedKept ==
    ASSUME CountInv, MovedInv,
           \A m \in DOMAIN messages' :
              \/ /\ m \in DOMAIN messages
                 /\ messages'[m].receipt = messages[m].receipt
                 /\ messages'[m].receive_count = messages[m].receive_count
                 /\ messages'[m].queue_id = messages[m].queue_id
                 /\ messages'[m].dlq_source = messages[m].dlq_source
                 /\ messages[m].queue_id \in DOMAIN queues =>
                       /\ messages[m].queue_id \in DOMAIN queues'
                       /\ queues'[messages[m].queue_id].name = queues[messages[m].queue_id].name
              \/ /\ messages'[m].receipt = 0 /\ messages'[m].receive_count = 0
                 /\ messages'[m].dlq_source = None,
           \A h \in DOMAIN issued : h \in DOMAIN issued' /\ issued'[h].queue = issued[h].queue
    PROVE  CountInv' /\ MovedInv'
<1>1. \A m, j, n : GivenBy(m, j, n) =>
         <<m, j>> \in DOMAIN issued' /\ issued'[<<m, j>>].queue = n
  BY DEF GivenBy
<1>2. CountInv'
  BY <1>1 DEF CountInv, GivenBy
<1>3. MovedInv'
  <2> SUFFICES ASSUME NEW m \in DOMAIN messages', messages'[m].dlq_source # None
               PROVE  \E max \in ReceiveLimits, lo \in Int : \A j \in Int :
                         lo < j /\ j <= lo + max =>
                            /\ <<m, j>> \in DOMAIN issued'
                            /\ issued'[<<m, j>>].queue = messages'[m].dlq_source
    BY DEF MovedInv, GivenBy, ReceiveLimits
  <2>1. m \in DOMAIN messages /\ messages'[m].dlq_source = messages[m].dlq_source
    OBVIOUS
  <2>2. PICK max \in ReceiveLimits, lo \in Int : \A j \in Int :
           lo < j /\ j <= lo + max => GivenBy(m, j, messages[m].dlq_source)
    BY <2>1 DEF MovedInv
  <2> QED BY <1>1, <2>1, <2>2
<1> QED BY <1>2, <1>3

LEMMA EarnedPoll ==
    ASSUME Inv, FifoInv, CountInv, MovedInv, NEW c \in Clients, Poll(c)
    PROVE  CountInv' /\ MovedInv'
<1>1. PICK i \in DOMAIN queues, target \in DOMAIN queues,
              out \in SUBSET DOMAIN messages, dead \in SUBSET DOMAIN messages :
         /\ dead = DeadLettered(Retained(Row(i)), Row(i), reqs[c].opts)
         /\ ReceivedRows(i, target, out, dead)
         /\ ReceivedHandles(i, out)
         /\ queues' = queues
  BY PollEffect DEF Inv
<1> DEFINE handles == NewHandles(messages, out)
<1>2. \A m \in DOMAIN messages : /\ messages[m].receipt \in Nat /\ messages[m].receive_count \in Nat
                                 /\ messages[m].queue_id \in Nat
  BY DEF Inv, TypeOK, MessageRows
<1>3. ASSUME NEW m \in DOMAIN messages, NEW j \in Int, NEW n, GivenBy(m, j, n)
      PROVE  <<m, j>> \in DOMAIN issued' /\ issued'[<<m, j>>].queue = n
  <2>1. j <= messages[m].receipt
    BY <1>3 DEF GivenBy, Inv, ReceiptInv
  <2>2. <<m, j>> \notin handles
    BY <1>2, <2>1 DEF NewHandles
  <2> QED BY <1>1, <1>3, <2>2 DEF ReceivedHandles, GivenBy
<1>4. ASSUME NEW m \in DOMAIN messages', NEW j \in Int,
             messages'[m].receipt - messages'[m].receive_count < j, j <= messages'[m].receipt
      PROVE  /\ messages'[m].queue_id \in DOMAIN queues
             /\ <<m, j>> \in DOMAIN issued'
             /\ issued'[<<m, j>>].queue = queues[messages'[m].queue_id].name
  <2>1. m \in DOMAIN messages
    BY <1>1 DEF ReceivedRows
  <2>2. m \notin dead
    BY <1>1, <1>2, <1>4, <2>1 DEF ReceivedRows
  <2>3. CASE m \notin out
    <3>1. messages'[m] = messages[m]
      BY <1>1, <2>2, <2>3 DEF ReceivedRows
    <3>2. /\ messages[m].queue_id \in DOMAIN queues
          /\ GivenBy(m, j, queues[messages[m].queue_id].name)
      BY <1>4, <2>1, <3>1 DEF CountInv
    <3> QED BY <1>3, <2>1, <3>1, <3>2
  <2>4. CASE m \in out
    <3>1. /\ messages[m].queue_id = i /\ messages'[m].queue_id = i
          /\ messages'[m].receipt = messages[m].receipt + 1
          /\ messages'[m].receive_count = messages[m].receive_count + 1
      BY <1>1, <2>4 DEF ReceivedRows
    <3>2. CASE j = messages[m].receipt + 1
      <4>1. <<m, j>> \in handles
        BY <2>4, <3>2 DEF NewHandles
      <4> QED BY <1>1, <3>1, <4>1 DEF ReceivedHandles
    <3>3. CASE j # messages[m].receipt + 1
      <4>1. messages[m].receipt - messages[m].receive_count < j /\ j <= messages[m].receipt
        BY <1>2, <1>4, <2>1, <3>1, <3>3
      <4>2. GivenBy(m, j, queues[i].name)
        BY <2>1, <3>1, <4>1 DEF CountInv
      <4> QED BY <1>3, <2>1, <3>1, <4>2
    <3> QED BY <3>2, <3>3
  <2> QED BY <2>3, <2>4
<1>5. CountInv'
  BY <1>1, <1>4 DEF CountInv, GivenBy
<1>6. ASSUME NEW m \in DOMAIN messages', messages'[m].dlq_source # None
      PROVE  \E max \in ReceiveLimits, lo \in Int : \A j \in Int :
                lo < j /\ j <= lo + max =>
                   /\ <<m, j>> \in DOMAIN issued'
                   /\ issued'[<<m, j>>].queue = messages'[m].dlq_source
  <2>1. m \in DOMAIN messages
    BY <1>1 DEF ReceivedRows
  <2>2. CASE m \notin dead
    <3>1. messages'[m].dlq_source = messages[m].dlq_source
      BY <1>1, <2>2 DEF ReceivedRows
    <3>2. PICK max \in ReceiveLimits, lo \in Int : \A j \in Int :
             lo < j /\ j <= lo + max => GivenBy(m, j, messages[m].dlq_source)
      BY <1>6, <2>1, <3>1 DEF MovedInv
    <3> QED BY <1>3, <2>1, <3>1, <3>2
  <2>3. CASE m \in dead
    <3>1. messages[m].queue_id = i /\ messages'[m].dlq_source = queues[i].name
      BY <1>1, <2>3 DEF ReceivedRows
    <3> DEFINE max == queues[i].attrs.RedrivePolicy.max
               lo == messages[m].receipt - max
    <3>2. /\ DeadLetterQueues(Row(i)) # {}
          /\ Retained(Row(i))[m].receive_count >= max
          /\ m \in DOMAIN Retained(Row(i))
      BY <1>1, <2>3 DEF DeadLettered, Candidates, Exhausted, Row
    <3>3. messages[m].receive_count >= max
      BY <3>2, RetainedFacts
    <3>4. queues[i].attrs.RedrivePolicy # None
      BY <3>2 DEF DeadLetterQueues, Row
    <3>5. max \in ReceiveLimits
      BY <3>4 DEF FifoInv, PolicyOK
    <3>6. max \in Nat
      <4>1. queues[i].attrs \in Attributes
        BY DEF Inv, TypeOK, QueueRows
      <4> QED BY <3>4, <4>1 DEF Attributes, Redrives
    <3> HIDE DEF max
    <3>7. ASSUME NEW j \in Int, lo < j, j <= lo + max
          PROVE  GivenBy(m, j, queues[i].name)
      <4>1. messages[m].receipt - messages[m].receive_count < j /\ j <= messages[m].receipt
        BY <1>2, <2>1, <3>3, <3>6, <3>7
      <4> QED BY <2>1, <3>1, <4>1 DEF CountInv
    <3>8. lo \in Int
      BY <1>2, <2>1, <3>6
    <3> HIDE DEF lo
    <3> QED BY <1>3, <2>1, <3>1, <3>5, <3>7, <3>8
  <2> QED BY <2>2, <2>3
<1>7. MovedInv'
  BY <1>6 DEF MovedInv, GivenBy, ReceiveLimits
<1> QED BY <1>5, <1>7

LEMMA EarnedNext ==
    Inv /\ FifoInv /\ CountInv /\ MovedInv /\ [Next]_vars => CountInv' /\ MovedInv'
<1> SUFFICES ASSUME Inv, FifoInv, CountInv, MovedInv, [Next]_vars
             PROVE  CountInv' /\ MovedInv'
  OBVIOUS
<1>0. /\ \A i \in DOMAIN queues : queues[i] \in QueueRows /\ i < nextQueue
      /\ \A m \in DOMAIN messages : messages[m] \in MessageRows
      /\ \A h \in DOMAIN issued : issued[h] \in Grants
  BY DEF Inv, TypeOK
<1>1. CASE \E r \in CreateRequests : CreateQueue(r)
  <2>1. /\ \A i \in DOMAIN queues : i \in DOMAIN queues' /\ queues'[i] = queues[i]
        /\ UNCHANGED <<messages, issued>>
    BY <1>0, <1>1 DEF CreateQueue, Put, ghosts, Inv, TypeOK
  <2> QED BY <2>1, EarnedKept
<1>2. ASSUME NEW c \in Clients, ClientStep(c) PROVE CountInv' /\ MovedInv'
  <2>1. CASE \/ \E n \in QueueNames : GetQueue(c, n)
             \/ SendUnstored(c) \/ StartReceive(c) \/ PollMissing(c)
    BY <2>1, EarnedKept DEF GetQueue, SendUnstored, StartReceive, PollMissing, db, ghosts
  <2>2. CASE SetQueueAttributes(c) \/ TagQueue(c)
    <3>1. /\ DOMAIN queues' = DOMAIN queues
          /\ \A i \in DOMAIN queues : queues'[i].name = queues[i].name
          /\ UNCHANGED <<messages, issued>>
      BY <1>0, <2>2 DEF SetQueueAttributes, TagQueue, WriteTags, QueueRows, ghosts
    <3> QED BY <3>1, EarnedKept
  <2>3. CASE DeleteQueue(c)
    <3>1. /\ DOMAIN messages' = {m \in DOMAIN messages : messages[m].queue_id # reqs[c].q.id}
          /\ \A m \in DOMAIN messages' : messages'[m] = messages[m]
          /\ DOMAIN queues' = DOMAIN queues \ {reqs[c].q.id}
          /\ \A i \in DOMAIN queues' : queues'[i] = queues[i]
          /\ issued' = issued
      BY <2>3 DEF DeleteQueue, Restrict, ghosts
    <3> QED BY <3>1, EarnedKept
  <2>4. CASE PurgeQueue(c) \/ DeleteMessage(c) \/ GetQueueAttributes(c)
    <3>1. /\ DOMAIN messages' \subseteq DOMAIN messages
          /\ \A m \in DOMAIN messages' : messages'[m] = messages[m]
          /\ UNCHANGED <<queues, issued>>
      BY <2>4, RetainedFacts DEF PurgeQueue, DeleteMessage, GetQueueAttributes, Restrict, ghosts
    <3> QED BY <3>1, EarnedKept
  <2>5. CASE SendStored(c)
    <3>1. /\ DOMAIN queues' = DOMAIN queues
          /\ \A i \in DOMAIN queues : queues'[i].name = queues[i].name
          /\ issued' = issued
      BY <2>5, SendQueues DEF SendStored, Inv
    <3>2. \A m \in DOMAIN messages' :
             \/ m \in DOMAIN messages /\ messages'[m] = messages[m]
             \/ /\ messages'[m].receipt = 0 /\ messages'[m].receive_count = 0
                /\ messages'[m].dlq_source = None
      BY <2>5, SendRows
    <3> QED BY <3>1, <3>2, EarnedKept
  <2>6. CASE Poll(c)
    BY <2>6, EarnedPoll
  <2>7. CASE ChangeVisibility(c)
    <3>1. /\ DOMAIN messages' = DOMAIN messages /\ queues' = queues
          /\ \A m \in DOMAIN messages :
                /\ messages'[m].receipt = messages[m].receipt
                /\ messages'[m].receive_count = messages[m].receive_count
                /\ messages'[m].queue_id = messages[m].queue_id
                /\ messages'[m].dlq_source = messages[m].dlq_source
      BY <1>0, <2>7 DEF ChangeVisibility, MessageRows
    <3>2. \A h \in DOMAIN issued : h \in DOMAIN issued' /\ issued'[h].queue = issued[h].queue
      BY <1>0, <2>7 DEF ChangeVisibility, Grants
    <3> QED BY <3>1, <3>2, EarnedKept
  <2> QED
    BY <1>2, <2>1, <2>2, <2>3, <2>4, <2>5, <2>6, <2>7 DEF ClientStep
<1>3. CASE Tick \/ Restart \/ UNCHANGED vars
  BY <1>3, EarnedKept DEF Tick, Restart, vars, db, ghosts
<1> QED
  BY <1>1, <1>2, <1>3 DEF Next

LEMMA EnoughHandles ==
    ASSUME Inv, NEW m \in DOMAIN messages, NEW n, NEW max \in Nat, NEW lo \in Int,
           \A j \in Int : lo < j /\ j <= lo + max => GivenBy(m, j, n)
    PROVE  Cardinality(HandlesFrom(m, n)) >= max
<1> DEFINE T == HandlesFrom(m, n)
           top == messages[m].receipt
           g == [h \in T |-> h[2]]
           f == [k \in 1..max |-> <<m, lo + k>>]
<1>1. top \in Nat
  BY DEF Inv, TypeOK, MessageRows
<1>2. \A h \in T : h \in Handles /\ h[1] = m /\ h[2] <= top
  BY DEF HandlesFrom, Inv, TypeOK, ReceiptInv
<1>3. g \in Injection(T, 0..top)
  <2>1. \A h \in T : g[h] = h[2] /\ g[h] \in 0..top
    BY <1>1, <1>2 DEF Handles
  <2>2. \A a, b \in T : g[a] = g[b] => a = b
    BY <1>2, <2>1 DEF Handles
  <2>3. g \in [T -> 0..top]
    BY <2>1
  <2> HIDE DEF g, T
  <2> QED BY <2>2, <2>3 DEF Injection, IsInjective
<1>4. IsFiniteSet(0..top)
  BY <1>1, FS_Interval
<1>5. IsFiniteSet(T)
  BY <1>3, <1>4, FS_Injection
<1>6. f \in Injection(1..max, T)
  <2>1. \A k \in 1..max : f[k] = <<m, lo + k>> /\ f[k] \in T
    <3> TAKE k \in 1..max
    <3>1. lo + k \in Int /\ lo < lo + k /\ lo + k <= lo + max
      OBVIOUS
    <3>2. GivenBy(m, lo + k, n)
      BY <3>1
    <3> QED BY <3>2 DEF GivenBy, HandlesFrom
  <2>2. \A a, b \in 1..max : f[a] = f[b] => a = b
    BY <2>1
  <2>3. f \in [1..max -> T]
    BY <2>1
  <2> HIDE DEF f, T
  <2> QED BY <2>2, <2>3 DEF Injection, IsInjective
<1>7. Cardinality(1..max) <= Cardinality(T)
  BY <1>5, <1>6, FS_Injection
<1>8. Cardinality(1..max) = max
  BY FS_Interval
<1>9. Cardinality(T) \in Nat
  BY <1>5, FS_CardinalityType
<1> HIDE DEF T
<1> QED BY <1>7, <1>8, <1>9 DEF T

\* receive_tx dead-letters no message early: whatever queues are deleted, made again and
\* given other policies meanwhile, a message carries a queue's mark only after clients got
\* as many handles for it from that queue as some policy allows.
THEOREM DeadLettersEarned == Spec => []DeadLetterEarned
<1>1. Init => CountInv /\ MovedInv
  BY DEF Init, CountInv, MovedInv
<1>2. Inv /\ MovedInv => DeadLetterEarned
  <2> SUFFICES ASSUME Inv, MovedInv, NEW m \in DOMAIN messages, messages[m].dlq_source # None
               PROVE  \E max \in ReceiveLimits :
                         Cardinality(HandlesFrom(m, messages[m].dlq_source)) >= max
    BY DEF DeadLetterEarned
  <2>1. PICK max \in ReceiveLimits, lo \in Int : \A j \in Int :
           lo < j /\ j <= lo + max => GivenBy(m, j, messages[m].dlq_source)
    BY DEF MovedInv
  <2>2. max \in Nat
    BY SqsConstants DEF ReceiveLimits, AttributeUpdates, Redrives
  <2> QED BY <2>1, <2>2, EnoughHandles
<1> QED
  BY <1>1, <1>2, EarnedNext, FifoInvariance, PTL DEF Spec

-----------------------------------------------------------------------------
(* Order within a group *)

\* Where the loop of receive_tx moves a row, it hands out no later row of the group.
LEMMA RedriveStep ==
    ASSUME Inv, FifoInv, NEW c \in Clients, Poll(c),
           NEW a \in DOMAIN messages \cap DOMAIN messages',
           NEW b \in DOMAIN messages \cap DOMAIN messages',
           messages'[a].dlq_source # messages[a].dlq_source,
           messages'[b].receive_count > messages[b].receive_count,
           messages[a].queue_id = messages[b].queue_id,
           messages[a].group = messages[b].group, messages[a].sequence > 0
    PROVE  b < a
<1>1. PICK i \in DOMAIN queues, target \in DOMAIN queues,
              out \in SUBSET DOMAIN messages, dead \in SUBSET DOMAIN messages :
         /\ out = Delivered(Retained(Row(i)), Row(i), reqs[c].opts)
         /\ dead = DeadLettered(Retained(Row(i)), Row(i), reqs[c].opts)
         /\ ReceivedRows(i, target, out, dead)
  BY PollEffect DEF Inv
<1>2. /\ a \in Nat /\ b \in Nat
      /\ messages[b].receive_count \in Nat
  <2>1. TypeOK
    BY DEF Inv
  <2>2. messages[b] \in MessageRows
    BY <2>1 DEF TypeOK
  <2>3. a \in Nat /\ b \in Nat
    BY <2>1 DEF TypeOK
  <2> QED BY <2>2, <2>3 DEF MessageRows
<1>3. a \in dead /\ b \in out
  BY <1>1, <1>2 DEF ReceivedRows
<1>4. a # b /\ messages[a].queue_id = i
  BY <1>1, <1>3 DEF ReceivedRows
<1> DEFINE q == Row(i)
           ms == Retained(q)
<1>5. /\ a \in Candidates(ms, q) /\ Exhausted(ms, q, a)
      /\ b \in Candidates(ms, q) /\ ~Skipped(ms, q, b)
  BY <1>1, <1>3 DEF DeadLettered, Delivered, Ready
<1>6. ms[a].group = ms[b].group /\ ms[b].group = messages[a].group
  BY <1>5, RetainedFacts DEF Candidates
<1>7. IsFifo(q.name) /\ messages[a].group # None
  BY <1>4 DEF FifoInv, Row
<1> HIDE DEF q, ms
<1>8. ~(a < b)
  BY <1>5, <1>6, <1>7 DEF Skipped
<1> QED BY <1>2, <1>4, <1>8

\* Only a receive marks a message with the queue it comes from.
LEMMA MarkedByPoll ==
    ASSUME TypeOK, [Next]_vars, NEW a \in DOMAIN messages \cap DOMAIN messages',
           messages'[a].dlq_source # messages[a].dlq_source
    PROVE  \E c \in Clients : Poll(c)
<1>0. /\ \A m \in DOMAIN messages : messages[m] \in MessageRows
      /\ a # nextMessage
  BY DEF TypeOK
<1>1. messages' # messages
  OBVIOUS
<1>2. PICK c \in Clients : ClientStep(c)
  BY <1>1 DEF Next, CreateQueue, Tick, Restart, vars, db
<1>3. CASE \/ \E n \in QueueNames : GetQueue(c, n)
           \/ SetQueueAttributes(c) \/ TagQueue(c) \/ SendUnstored(c) \/ StartReceive(c)
           \/ PollMissing(c)
  BY <1>1, <1>3 DEF GetQueue, SetQueueAttributes, TagQueue, SendUnstored, StartReceive,
                    PollMissing, db
<1>4. CASE DeleteQueue(c) \/ PurgeQueue(c) \/ DeleteMessage(c)
  BY <1>4 DEF DeleteQueue, PurgeQueue, DeleteMessage, Restrict
<1>5. CASE GetQueueAttributes(c)
  BY <1>5, RetainedFacts DEF GetQueueAttributes
<1>6. CASE SendStored(c)
  BY <1>0, <1>6, SendRows
<1>7. CASE ChangeVisibility(c)
  BY <1>0, <1>7 DEF ChangeVisibility, MessageRows
<1> QED BY <1>2, <1>3, <1>4, <1>5, <1>6, <1>7 DEF ClientStep

\* A receive that dead-letters a message of a FIFO group hands out no later one: the loop of
\* receive_tx holds back the group until the next receive.
THEOREM RedriveHolds == Spec => RedriveHoldsGroup
<1>1. Inv /\ FifoInv /\ [Next]_vars =>
         \A a, b \in DOMAIN messages \cap DOMAIN messages' :
            /\ messages'[a].dlq_source # messages[a].dlq_source
            /\ messages'[b].receive_count > messages[b].receive_count
            /\ messages[a].queue_id = messages[b].queue_id
            /\ messages[a].group = messages[b].group /\ messages[a].sequence > 0
            => b < a
  BY RedriveStep, MarkedByPoll DEF Inv
<1> QED
  BY <1>1, FifoInvariance, PTL DEF Spec, RedriveHoldsGroup

-----------------------------------------------------------------------------
(* Order within a group, over time *)

\* No request changes the delay of a queue that exists.
DelaysFixed == \A u \in Updates : u.DelaySeconds = Keep

\* A copy of a row has the row's delay.
DelayInv ==
    \A c \in Clients :
        reqs[c].pc \in {"got", "handle"} /\ reqs[c].q.id \in DOMAIN queues =>
            reqs[c].q.attrs.DelaySeconds = queues[reqs[c].q.id].attrs.DelaySeconds

\* A message that sits in the FIFO queue it was sent to.
Home(m) == messages[m].sequence > 0 /\ messages[m].dlq_source = None

\* A message at home that was never handed out becomes visible when its delay is over, and
\* no handle names it.
HomeInv ==
    /\ \A h \in DOMAIN issued : h[2] > 0
    /\ \A m \in DOMAIN messages : Home(m) =>
          /\ messages[m].sequence <= queues[messages[m].queue_id].fifo_seq
          /\ messages[m].sent_at <= now
          /\ messages[m].receive_count = 0 =>
                /\ messages[m].receipt = 0
                /\ messages[m].visible_at = messages[m].sent_at
                                            + queues[messages[m].queue_id].attrs.DelaySeconds

\* Sequence numbers, row ids and send times agree.
SequenceInv ==
    \A a, b \in DOMAIN messages :
        /\ Home(a) /\ Home(b)
        /\ messages[a].queue_id = messages[b].queue_id
        /\ messages[a].sequence < messages[b].sequence
        => a < b /\ messages[a].sent_at <= messages[b].sent_at

OrderInv == DelayInv /\ HomeInv /\ SequenceInv /\ PerGroupOrdering

\* The delay and the sequence counter of a queue that stays.
QueuesStand ==
    \A i \in DOMAIN queues \cap DOMAIN queues' :
        /\ queues'[i].attrs.DelaySeconds = queues[i].attrs.DelaySeconds
        /\ queues'[i].fifo_seq = queues[i].fifo_seq

LEMMA DelayKept ==
    ASSUME Inv, DelayInv, DOMAIN queues' \subseteq DOMAIN queues \cup {nextQueue},
           \A i \in DOMAIN queues \cap DOMAIN queues' :
              queues'[i].attrs.DelaySeconds = queues[i].attrs.DelaySeconds,
           \A d \in Clients : reqs'[d].pc \in {"got", "handle"} => reqs'[d] = reqs[d]
    PROVE  DelayInv'
<1> SUFFICES ASSUME NEW d \in Clients, reqs'[d].pc \in {"got", "handle"},
                    reqs'[d].q.id \in DOMAIN queues'
             PROVE  reqs'[d].q.attrs.DelaySeconds = queues'[reqs'[d].q.id].attrs.DelaySeconds
  BY DEF DelayInv
<1>1. reqs'[d] = reqs[d]
  OBVIOUS
<1>2. reqs[d].q.id < nextQueue /\ nextQueue \in Nat
  BY <1>1 DEF Inv, CopiesInv, TypeOK
<1>3. reqs[d].q.id \in DOMAIN queues
  BY <1>1, <1>2
<1> QED BY <1>1, <1>3 DEF DelayInv

\* Rows that stand, or lose and gain only what the order does not ask about.
LEMMA OrderKept ==
    ASSUME Inv, FifoInv, HomeInv, SequenceInv, PerGroupOrdering, QueuesStand, FifoInv',
           DOMAIN messages' \subseteq DOMAIN messages,
           \A m \in DOMAIN messages' :
              /\ messages'[m].queue_id = messages[m].queue_id
              /\ messages'[m].receipt = messages[m].receipt
              /\ messages'[m].receive_count = messages[m].receive_count
              /\ messages'[m].sent_at = messages[m].sent_at
              /\ messages'[m].group = messages[m].group
              /\ messages'[m].sequence = messages[m].sequence
              /\ messages'[m].dlq_source = messages[m].dlq_source
              /\ messages[m].receipt = 0 => messages'[m].visible_at = messages[m].visible_at,
           DOMAIN issued' \subseteq DOMAIN issued, now' \in Nat, now <= now'
    PROVE  HomeInv' /\ SequenceInv' /\ PerGroupOrdering'
<1>1. PerGroupOrdering'
  BY DEF PerGroupOrdering
<1>2. SequenceInv'
  BY DEF SequenceInv, Home
<1>3. ASSUME NEW m \in DOMAIN messages', messages'[m].sequence > 0, messages'[m].dlq_source = None
      PROVE  /\ messages'[m].sequence <= queues'[messages'[m].queue_id].fifo_seq
             /\ messages'[m].sent_at <= now'
             /\ messages'[m].receive_count = 0 =>
                   /\ messages'[m].receipt = 0
                   /\ messages'[m].visible_at = messages'[m].sent_at
                                          + queues'[messages'[m].queue_id].attrs.DelaySeconds
  <2> DEFINE i == messages[m].queue_id
  <2>1. /\ m \in DOMAIN messages /\ Home(m)
        /\ messages[m].sent_at \in Nat /\ now \in Nat
    BY <1>3 DEF Home, Inv, TypeOK, MessageRows
  <2>2. i \in DOMAIN queues \cap DOMAIN queues'
    BY <1>3, <2>1 DEF FifoInv, FifoRowsHaveQueue, Home
  <2>3. /\ queues'[i].attrs.DelaySeconds = queues[i].attrs.DelaySeconds
        /\ queues'[i].fifo_seq = queues[i].fifo_seq
    BY <2>2 DEF QueuesStand
  <2>4. /\ messages[m].sequence <= queues[i].fifo_seq
        /\ messages[m].sent_at <= now
        /\ messages[m].receive_count = 0 =>
              /\ messages[m].receipt = 0
              /\ messages[m].visible_at = messages[m].sent_at + queues[i].attrs.DelaySeconds
    BY <2>1 DEF HomeInv
  <2>5. messages'[m].sent_at <= now'
    BY <2>1, <2>4
  <2> QED BY <2>1, <2>3, <2>4, <2>5
<1>4. HomeInv'
  BY <1>3 DEF HomeInv, Home
<1> QED BY <1>1, <1>2, <1>4

LEMMA OrderInit == Init => OrderInv
BY DEF Init, OrderInv, DelayInv, HomeInv, SequenceInv, PerGroupOrdering, Idle

LEMMA OrderSendStored ==
    ASSUME Inv, FifoInv, OrderInv, NEW c \in Clients, SendStored(c)
    PROVE  HomeInv' /\ SequenceInv' /\ PerGroupOrdering'
<1> DEFINE q == reqs[c].q
           n == nextMessage
           fifo == IsFifo(q.name)
<1>1. PICK in \in SendInputs :
         LET seq == IF fifo THEN queues[q.id].fifo_seq + 1 ELSE 0
         IN
         /\ ~SendFails(q, in)
         /\ queues' = IF fifo THEN [queues EXCEPT ![q.id].fifo_seq = seq] ELSE queues
         /\ messages' = Put(Retained(q), nextMessage,
               [queue_id |-> q.id, receipt |-> 0, receive_count |-> 0,
                visible_at |-> now + Delay(q, in), sent_at |-> now,
                group |-> in.group, sequence |-> seq, dlq_source |-> None])
  BY DEF SendStored
<1>2. /\ DOMAIN messages' \subseteq DOMAIN messages \cup {n}
      /\ \A m \in DOMAIN messages' : m # n => m \in DOMAIN messages /\ messages'[m] = messages[m]
      /\ messages'[n].queue_id = q.id
      /\ messages'[n].receipt = 0 /\ messages'[n].receive_count = 0
      /\ messages'[n].sent_at = now
      /\ messages'[n].visible_at = now + Delay(q, in)
      /\ messages'[n].sequence = IF fifo THEN queues[q.id].fifo_seq + 1 ELSE 0
  BY <1>1, RetainedFacts DEF Put
<1>3. /\ \A i \in DOMAIN queues : queues[i] \in QueueRows
      /\ \A m \in DOMAIN messages : m \in Nat /\ m < n /\ messages[m] \in MessageRows
      /\ n \in Nat /\ now \in Nat
  BY DEF Inv, TypeOK
<1>4. fifo => /\ q.id \in DOMAIN queues /\ in.delay = None
              /\ Delay(q, in) = queues[q.id].attrs.DelaySeconds
              /\ queues[q.id].fifo_seq \in Nat
  BY <1>1, <1>3 DEF SendFails, SendStored, OrderInv, DelayInv, Delay, QueueRows
<1>5. /\ \A i \in DOMAIN queues : /\ queues'[i].attrs = queues[i].attrs
                                  /\ fifo /\ i = q.id => queues'[i].fifo_seq = queues[i].fifo_seq + 1
                                  /\ ~(fifo /\ i = q.id) => queues'[i].fifo_seq = queues[i].fifo_seq
  BY <1>1, <1>3 DEF QueueRows
<1>6. UNCHANGED <<now, issued>>
  BY DEF SendStored
<1> HIDE DEF q, n, fifo
<1>7. ASSUME NEW m \in DOMAIN messages', messages'[m].sequence > 0, messages'[m].dlq_source = None
      PROVE  /\ messages'[m].sequence <= queues'[messages'[m].queue_id].fifo_seq
             /\ messages'[m].sent_at <= now'
             /\ messages'[m].receive_count = 0 =>
                   /\ messages'[m].receipt = 0
                   /\ messages'[m].visible_at = messages'[m].sent_at
                                          + queues'[messages'[m].queue_id].attrs.DelaySeconds
  <2>1. CASE m = n
    <3>1. fifo
      BY <1>7, <2>1, <1>2
    <3>2. /\ messages'[n].sequence = queues[q.id].fifo_seq + 1
          /\ queues'[q.id].fifo_seq = queues[q.id].fifo_seq + 1
          /\ queues'[q.id].attrs = queues[q.id].attrs
      BY <3>1, <1>2, <1>4, <1>5
    <3> QED BY <3>1, <3>2, <1>2, <1>3, <1>4, <1>6, <2>1
  <2>2. CASE m # n
    <3> DEFINE i == messages[m].queue_id
    <3>1. m \in DOMAIN messages /\ messages'[m] = messages[m] /\ Home(m)
      BY <1>2, <1>7, <2>2 DEF Home
    <3>2. i \in DOMAIN queues
      BY <3>1 DEF FifoInv, FifoRowsHaveQueue, Home
    <3>3. /\ messages[m].sequence <= queues[i].fifo_seq
          /\ messages[m].sent_at <= now
          /\ messages[m].receive_count = 0 =>
                /\ messages[m].receipt = 0
                /\ messages[m].visible_at = messages[m].sent_at + queues[i].attrs.DelaySeconds
      BY <3>1 DEF OrderInv, HomeInv
    <3>4. queues[i].fifo_seq \in Nat /\ messages[m].sequence \in Nat
      BY <3>1, <3>2, <1>3 DEF QueueRows, MessageRows
    <3>5. messages[m].sequence <= queues'[i].fifo_seq /\ queues'[i].attrs = queues[i].attrs
      BY <3>2, <3>3, <3>4, <1>5
    <3> QED BY <3>1, <3>3, <3>5, <1>6
  <2> QED BY <2>1, <2>2
<1>8. HomeInv'
  BY <1>6, <1>7 DEF OrderInv, HomeInv, Home
<1>9. ASSUME NEW b \in DOMAIN messages, Home(b), messages[b].queue_id = q.id, fifo
      PROVE  /\ messages[b].sequence < queues[q.id].fifo_seq + 1
             /\ b < n /\ messages[b].sent_at <= now
  <2>1. messages[b].sequence <= queues[q.id].fifo_seq /\ messages[b].sent_at <= now
    BY <1>9 DEF OrderInv, HomeInv
  <2>2. messages[b].sequence \in Nat /\ b < n
    BY <1>3 DEF MessageRows
  <2> QED BY <2>1, <2>2, <1>4, <1>9
<1>10. ASSUME NEW a \in DOMAIN messages', NEW b \in DOMAIN messages',
              messages'[a].sequence > 0, messages'[a].dlq_source = None,
              messages'[b].sequence > 0, messages'[b].dlq_source = None,
              messages'[a].queue_id = messages'[b].queue_id,
              messages'[a].sequence < messages'[b].sequence
       PROVE  /\ a # n
              /\ a < b /\ messages'[a].sent_at <= messages'[b].sent_at
  <2>1. CASE a = n
    <3>1. fifo /\ messages'[a].sequence = queues[q.id].fifo_seq + 1
      BY <2>1, <1>2, <1>10
    <3>2. b # n
      BY <1>10, <2>1, <3>1, <1>4
    <3>3. b \in DOMAIN messages /\ messages'[b] = messages[b] /\ Home(b)
      BY <3>2, <1>2, <1>10 DEF Home
    <3>4. messages[b].sequence < queues[q.id].fifo_seq + 1
      BY <3>1, <3>3, <1>2, <1>9, <1>10, <2>1
    <3>5. messages[b].sequence \in Nat
      BY <3>3, <1>3 DEF MessageRows
    <3> QED BY <3>1, <3>3, <3>4, <3>5, <1>4, <1>10
  <2>2. CASE a # n /\ b = n
    <3>1. fifo
      BY <2>2, <1>2, <1>10
    <3>2. a \in DOMAIN messages /\ messages'[a] = messages[a] /\ Home(a)
      BY <2>2, <1>2, <1>10 DEF Home
    <3> QED BY <2>2, <3>1, <3>2, <1>2, <1>9, <1>10
  <2>3. CASE a # n /\ b # n
    BY <2>3, <1>2, <1>10 DEF OrderInv, SequenceInv, Home
  <2> QED BY <2>1, <2>2, <2>3
<1>11. SequenceInv'
  BY <1>10 DEF SequenceInv, Home
<1>12. ASSUME NEW a \in DOMAIN messages', NEW b \in DOMAIN messages',
              messages'[a].queue_id = messages'[b].queue_id,
              messages'[a].group = messages'[b].group,
              0 < messages'[a].sequence, messages'[a].sequence < messages'[b].sequence,
              messages'[a].dlq_source = None, messages'[b].dlq_source = None,
              messages'[b].receive_count > 0
       PROVE  messages'[a].receive_count > 0
  <2>1. b # n
    BY <1>2, <1>12
  <2>2. b \in DOMAIN messages /\ messages'[b] = messages[b] /\ messages[b].sequence \in Nat
    BY <2>1, <1>2, <1>3 DEF MessageRows
  <2>3. messages'[a].sequence \in Nat
    BY <1>2, <1>3, <1>4 DEF MessageRows
  <2>4. messages'[b].sequence > 0
    BY <2>2, <2>3, <1>12
  <2>5. a # n
    BY <1>10, <1>12, <2>4
  <2> QED BY <2>2, <2>5, <1>2, <1>12 DEF OrderInv, PerGroupOrdering
<1> QED BY <1>8, <1>11, <1>12 DEF PerGroupOrdering

\* Of two messages of a group that were never handed out, a receive that reaches the later
\* reaches the earlier.
LEMMA EarlierReached ==
    ASSUME Inv, FifoInv, OrderInv, NEW i \in DOMAIN queues, NEW opts \in Options,
           NEW a \in DOMAIN Retained(Row(i)), NEW b \in Delivered(Retained(Row(i)), Row(i), opts),
           Home(a), Home(b), messages[a].queue_id = messages[b].queue_id,
           messages[a].group = messages[b].group,
           messages[a].sequence < messages[b].sequence,
           messages[a].receive_count = 0, messages[b].receive_count = 0
    PROVE  a \in Delivered(Retained(Row(i)), Row(i), opts)
<1> DEFINE q == Row(i)
           ms == Retained(q)
<1>1. /\ DOMAIN ms \subseteq DOMAIN messages /\ \A m \in DOMAIN ms : ms[m] = messages[m]
      /\ q.id = i /\ q.name = queues[i].name /\ q.attrs = queues[i].attrs
  BY RetainedFacts DEF Row
<1>2. b \in Candidates(ms, q) /\ ~Skipped(ms, q, b) /\ b \in Ready(ms, q) /\ Reached(ms, q, opts, b)
  BY DEF Delivered, Ready
<1>3. b \in DOMAIN ms /\ messages[b].queue_id = i /\ messages[b].visible_at <= now
  BY <1>1, <1>2 DEF Candidates
<1>4. /\ a \in Nat /\ b \in Nat /\ now \in Nat /\ nextMessage \in Nat
      /\ messages[a] \in MessageRows /\ messages[b] \in MessageRows
      /\ DOMAIN messages \subseteq 1..(nextMessage - 1)
      /\ queues[i] \in QueueRows
  BY <1>1, <1>3 DEF Inv, TypeOK
<1>5. a < b /\ messages[a].sent_at <= messages[b].sent_at
  BY <1>1, <1>3 DEF OrderInv, SequenceInv
<1>6. /\ messages[a].visible_at = messages[a].sent_at + queues[i].attrs.DelaySeconds
      /\ messages[b].visible_at = messages[b].sent_at + queues[i].attrs.DelaySeconds
  BY <1>1, <1>3 DEF OrderInv, HomeInv
<1>7. messages[a].visible_at <= now
  BY <1>3, <1>4, <1>5, <1>6 DEF MessageRows, QueueRows, Attributes
<1>8. a \in Candidates(ms, q)
  BY <1>1, <1>3, <1>7 DEF Candidates
<1>9. ~Exhausted(ms, q, a)
  <2> SUFFICES ASSUME Exhausted(ms, q, a) PROVE FALSE
    OBVIOUS
  <2>1. queues[i].attrs.RedrivePolicy # None /\ 0 >= queues[i].attrs.RedrivePolicy.max
    BY <1>1 DEF Exhausted, DeadLetterQueues
  <2>2. queues[i].attrs.RedrivePolicy.max \in Nat \ {0}
    BY <1>4, <2>1 DEF QueueRows, Attributes, Redrives
  <2> QED BY <2>1, <2>2
<1>10. ms[a].group = ms[b].group
  BY <1>1, <1>3
<1>11. \A k \in Candidates(ms, q) : k \in Nat
  BY <1>1, <1>4 DEF Candidates
<1>12. IsFifo(q.name) /\ ms[b].group # None
  BY <1>1, <1>3 DEF FifoInv, Home
<1> HIDE DEF q, ms
<1>13. ~Skipped(ms, q, a)
  BY <1>2, <1>4, <1>5, <1>10, <1>11, <1>12 DEF Skipped
<1>14. a \in Ready(ms, q)
  BY <1>8, <1>9, <1>13 DEF Ready
<1> DEFINE before(m) == {k \in Ready(ms, q) : k < m}
<1>15. before(b) \subseteq 1..(nextMessage - 1) /\ before(a) \subseteq before(b)
  BY <1>1, <1>4, <1>5, <1>11 DEF Ready, Candidates
<1>16. IsFiniteSet(1..(nextMessage - 1))
  BY <1>4, FS_Interval
<1>17. IsFiniteSet(before(b))
  BY <1>15, <1>16, FS_Subset
<1>18. /\ Cardinality(before(a)) <= Cardinality(before(b))
       /\ Cardinality(before(a)) \in Nat /\ Cardinality(before(b)) \in Nat
  BY <1>15, <1>17, FS_Subset, FS_CardinalityType
<1>19. Cardinality(before(b)) < opts.max
  BY <1>2 DEF Reached
<1>20. opts.max \in Nat
  BY DEF Options
<1>21. Cardinality(before(a)) < opts.max
  <2> HIDE DEF before
  <2> QED BY <1>18, <1>19, <1>20
<1>22. a \in Delivered(ms, q, opts)
  BY <1>14, <1>21 DEF Delivered, Reached
<1> QED BY <1>22 DEF ms, q

LEMMA OrderPoll ==
    ASSUME Inv, FifoInv, OrderInv, NEW c \in Clients, Poll(c)
    PROVE  HomeInv' /\ SequenceInv' /\ PerGroupOrdering'
<1>1. PICK i \in DOMAIN queues, target \in DOMAIN queues,
              out \in SUBSET DOMAIN messages, dead \in SUBSET DOMAIN messages :
         /\ out = Delivered(Retained(Row(i)), Row(i), reqs[c].opts)
         /\ DOMAIN messages' = DOMAIN Retained(Row(i))
         /\ ReceivedRows(i, target, out, dead)
         /\ ReceivedHandles(i, out)
         /\ UNCHANGED <<queues, now>>
  BY PollEffect DEF Inv
<1>2. /\ \A m \in DOMAIN messages : messages[m] \in MessageRows
      /\ \A j \in DOMAIN queues : queues[j].name # None
      /\ reqs[c].opts \in Options
  BY SqsConstants DEF Inv, TypeOK, Poll, Requests, QueueRows
<1>3. ASSUME NEW m \in DOMAIN messages', messages'[m].dlq_source = None
      PROVE  /\ m \in DOMAIN messages
             /\ messages'[m].queue_id = messages[m].queue_id
             /\ messages'[m].sent_at = messages[m].sent_at
             /\ messages'[m].group = messages[m].group
             /\ messages'[m].sequence = messages[m].sequence
             /\ messages[m].dlq_source = None
             /\ \/ m \in out /\ messages'[m].receive_count = messages[m].receive_count + 1
                \/ m \notin out /\ messages'[m] = messages[m]
  <2>1. m \notin dead
    BY <1>1, <1>2, <1>3 DEF ReceivedRows
  <2>2. CASE m \in out
    BY <1>1, <1>3, <2>2 DEF ReceivedRows
  <2>3. CASE m \notin out
    BY <1>1, <1>3, <2>1, <2>3 DEF ReceivedRows
  <2> QED BY <2>2, <2>3
<1>4. ASSUME NEW m \in DOMAIN messages', messages'[m].sequence > 0, messages'[m].dlq_source = None
      PROVE  /\ messages'[m].sequence <= queues'[messages'[m].queue_id].fifo_seq
             /\ messages'[m].sent_at <= now'
             /\ messages'[m].receive_count = 0 =>
                   /\ messages'[m].receipt = 0
                   /\ messages'[m].visible_at = messages'[m].sent_at
                                          + queues'[messages'[m].queue_id].attrs.DelaySeconds
  <2>1. m \in DOMAIN messages /\ Home(m)
    BY <1>3, <1>4 DEF Home
  <2>2. messages[m].receive_count \in Nat
    BY <1>2, <2>1 DEF MessageRows
  <2>3. messages'[m].receive_count = 0 => messages'[m] = messages[m]
    BY <1>3, <1>4, <2>2
  <2> QED BY <1>1, <1>3, <1>4, <2>1, <2>3 DEF OrderInv, HomeInv
<1>5. \A h \in DOMAIN issued' : h[2] > 0
  <2>1. \A h \in NewHandles(messages, out) : h[2] > 0
    BY <1>2 DEF NewHandles, MessageRows
  <2> QED BY <1>1, <2>1 DEF ReceivedHandles, OrderInv, HomeInv
<1>6. HomeInv'
  BY <1>4, <1>5 DEF HomeInv, Home
<1>7. SequenceInv'
  BY <1>3 DEF OrderInv, SequenceInv, Home
<1>8. ASSUME NEW a \in DOMAIN messages', NEW b \in DOMAIN messages',
             messages'[a].queue_id = messages'[b].queue_id,
             messages'[a].group = messages'[b].group,
             0 < messages'[a].sequence, messages'[a].sequence < messages'[b].sequence,
             messages'[a].dlq_source = None, messages'[b].dlq_source = None,
             messages'[b].receive_count > 0
      PROVE  messages'[a].receive_count > 0
  <2>1. /\ a \in DOMAIN messages /\ b \in DOMAIN messages
        /\ messages[a].queue_id = messages[b].queue_id
        /\ messages[a].group = messages[b].group
        /\ 0 < messages[a].sequence /\ messages[a].sequence < messages[b].sequence
        /\ messages[a].dlq_source = None /\ messages[b].dlq_source = None
    BY <1>3, <1>8
  <2>2. /\ messages[a].receive_count \in Nat /\ messages[b].receive_count \in Nat
        /\ messages[a].sequence \in Nat /\ messages[b].sequence \in Nat
    BY <1>2, <2>1 DEF MessageRows
  <2>3. CASE messages[a].receive_count > 0
    BY <1>3, <1>8, <2>2, <2>3
  <2>4. CASE messages[a].receive_count = 0
    <3>1. messages[b].receive_count = 0
      BY <2>1, <2>2, <2>4 DEF OrderInv, PerGroupOrdering
    <3>2. b \in out
      BY <1>3, <1>8, <3>1
    <3>3. Home(a) /\ Home(b)
      BY <2>1, <2>2 DEF Home
    <3>4. a \in out
      BY <1>1, <1>2, <2>1, <2>4, <3>1, <3>2, <3>3, EarlierReached
    <3> QED BY <1>3, <1>8, <2>4, <3>4
  <2> QED BY <2>2, <2>3, <2>4
<1> QED BY <1>6, <1>7, <1>8 DEF PerGroupOrdering

LEMMA DelaySet ==
    ASSUME Inv, DelayInv, DelaysFixed, NEW c \in Clients, SetQueueAttributes(c)
    PROVE  DOMAIN queues' = DOMAIN queues /\ QueuesStand
<1> DEFINE q == reqs[c].q
<1>1. PICK u \in Updates :
         queues' = [i \in DOMAIN queues |->
            IF i = q.id /\ ValidAttributes(q.name, u)
            THEN [queues[i] EXCEPT !.attrs = Merged(q.attrs, u)] ELSE queues[i]]
  BY DEF SetQueueAttributes
<1>2. Merged(q.attrs, u).DelaySeconds = q.attrs.DelaySeconds
  BY DEF Merged, DelaysFixed
<1>3. q.id \in DOMAIN queues => q.attrs.DelaySeconds = queues[q.id].attrs.DelaySeconds
  BY DEF DelayInv, SetQueueAttributes
<1> DEFINE m == Merged(q.attrs, u)
           v == ValidAttributes(q.name, u)
<1>4. \A i \in DOMAIN queues : queues[i] \in QueueRows
  BY DEF Inv, TypeOK
<1>5. m.DelaySeconds = q.attrs.DelaySeconds
  BY <1>2
<1>6. queues' = [i \in DOMAIN queues |->
            IF i = q.id /\ v THEN [queues[i] EXCEPT !.attrs = m] ELSE queues[i]]
  BY <1>1
<1> HIDE DEF m, v, q
<1>7. ASSUME NEW i \in DOMAIN queues
      PROVE  /\ queues'[i].attrs.DelaySeconds = queues[i].attrs.DelaySeconds
             /\ queues'[i].fifo_seq = queues[i].fifo_seq
  <2>1. CASE i = q.id /\ v
    <3>1. queues'[i] = [queues[i] EXCEPT !.attrs = m]
      BY <1>6, <2>1
    <3>2. queues'[i].attrs = m /\ queues'[i].fifo_seq = queues[i].fifo_seq
      BY <3>1, <1>4 DEF QueueRows
    <3> QED BY <3>2, <2>1, <1>3, <1>5
  <2>2. CASE ~(i = q.id /\ v)
    BY <1>6, <2>2
  <2> QED BY <2>1, <2>2
<1> QED BY <1>6, <1>7 DEF QueuesStand

\* A handle of a message at home that was never handed out does not exist.
LEMMA OrderChange ==
    ASSUME Inv, FifoInv, OrderInv, NEW c \in Clients, ChangeVisibility(c)
    PROVE  /\ DOMAIN messages' = DOMAIN messages
           /\ \A m \in DOMAIN messages :
                 /\ messages'[m].queue_id = messages[m].queue_id
                 /\ messages'[m].receipt = messages[m].receipt
                 /\ messages'[m].receive_count = messages[m].receive_count
                 /\ messages'[m].sent_at = messages[m].sent_at
                 /\ messages'[m].group = messages[m].group
                 /\ messages'[m].sequence = messages[m].sequence
                 /\ messages'[m].dlq_source = messages[m].dlq_source
                 /\ messages[m].receipt = 0 => messages'[m].visible_at = messages[m].visible_at
           /\ DOMAIN issued' = DOMAIN issued
<1> DEFINE h == reqs[c].h
<1>1. h \in DOMAIN issued
  BY DEF ChangeVisibility, Inv, CopiesInv
<1>2. h[2] > 0
  BY <1>1 DEF OrderInv, HomeInv
<1>3. \A m \in DOMAIN messages : messages[m] \in MessageRows
  BY DEF Inv, TypeOK
<1>4. \A m \in DOMAIN messages : messages[m].receipt = 0 => ~Holds(m, h, reqs[c].q.id)
  BY <1>2 DEF Holds
<1>5. PICK timeout \in Timeouts :
         messages' = [m \in DOMAIN messages |->
            IF Holds(m, h, reqs[c].q.id) THEN [messages[m] EXCEPT !.visible_at = now + timeout]
                                         ELSE messages[m]]
  BY DEF ChangeVisibility
<1>6. DOMAIN issued' = DOMAIN issued
  BY DEF ChangeVisibility
<1>7. ASSUME NEW m \in DOMAIN messages
      PROVE  /\ messages'[m].queue_id = messages[m].queue_id
             /\ messages'[m].receipt = messages[m].receipt
             /\ messages'[m].receive_count = messages[m].receive_count
             /\ messages'[m].sent_at = messages[m].sent_at
             /\ messages'[m].group = messages[m].group
             /\ messages'[m].sequence = messages[m].sequence
             /\ messages'[m].dlq_source = messages[m].dlq_source
             /\ messages[m].receipt = 0 => messages'[m].visible_at = messages[m].visible_at
  <2>1. CASE Holds(m, h, reqs[c].q.id)
    <3>1. messages'[m] = [messages[m] EXCEPT !.visible_at = now + timeout]
      BY <1>5, <2>1
    <3> QED BY <3>1, <2>1, <1>3, <1>4 DEF MessageRows
  <2>2. CASE ~Holds(m, h, reqs[c].q.id)
    BY <1>5, <2>2
  <2> QED BY <2>1, <2>2
<1> QED BY <1>5, <1>6, <1>7

LEMMA OrderNext ==
    ASSUME DelaysFixed
    PROVE  Inv /\ FifoInv /\ OrderInv /\ FifoInv' /\ [Next]_vars => OrderInv'
<1> SUFFICES ASSUME Inv, FifoInv, OrderInv, FifoInv', [Next]_vars PROVE OrderInv'
  OBVIOUS
<1>0. /\ DelayInv /\ HomeInv /\ SequenceInv /\ PerGroupOrdering
      /\ \A i \in DOMAIN queues : queues[i] \in QueueRows
      /\ nextQueue \notin DOMAIN queues /\ now \in Nat
  BY DEF OrderInv, Inv, TypeOK
<1>1. ASSUME NEW r \in CreateRequests, CreateQueue(r) PROVE OrderInv'
  <2>1. /\ DOMAIN queues' = DOMAIN queues \cup {nextQueue}
        /\ \A i \in DOMAIN queues : queues'[i] = queues[i]
        /\ UNCHANGED <<messages, now, reqs, issued>>
    BY <1>0, <1>1 DEF CreateQueue, Put, ghosts
  <2>2. QueuesStand
    BY <2>1 DEF QueuesStand
  <2>3. DelayInv'
    BY <1>0, <2>1, DelayKept
  <2>4. HomeInv' /\ SequenceInv' /\ PerGroupOrdering'
    BY <1>0, <2>1, <2>2, OrderKept
  <2> QED BY <2>3, <2>4 DEF OrderInv
<1>2. ASSUME NEW c \in Clients, ClientStep(c) PROVE OrderInv'
  <2>0. /\ Answer(c) => \A d \in Clients : reqs'[d].pc \in {"got", "handle"} => reqs'[d] = reqs[d]
        /\ queues' = queues => QueuesStand
    BY DEF Inv, TypeOK, Answer, Idle, QueuesStand
  <2>1. CASE \E n \in QueueNames : GetQueue(c, n)
    <3>1. PICK i \in DOMAIN queues : reqs'[c].q = Row(i)
      BY <2>1 DEF GetQueue, Named, Inv, TypeOK
    <3>2. /\ UNCHANGED <<queues, messages, now, issued>>
          /\ \A d \in Clients : d # c => reqs'[d] = reqs[d]
      BY <2>1 DEF GetQueue, db, ghosts, Inv, TypeOK
    <3>3. DelayInv'
      BY <1>0, <3>1, <3>2 DEF DelayInv, Row
    <3>4. HomeInv' /\ SequenceInv' /\ PerGroupOrdering'
      BY <1>0, <2>0, <3>2, OrderKept
    <3> QED BY <3>3, <3>4 DEF OrderInv
  <2>2. CASE DeleteQueue(c)
    <3>1. /\ DOMAIN messages' \subseteq DOMAIN messages
          /\ \A m \in DOMAIN messages' : messages'[m] = messages[m]
          /\ DOMAIN queues' \subseteq DOMAIN queues
          /\ \A i \in DOMAIN queues' : queues'[i] = queues[i]
          /\ Answer(c) /\ UNCHANGED <<now, issued>>
      BY <2>2 DEF DeleteQueue, Restrict, ghosts
    <3>2. QueuesStand
      BY <3>1 DEF QueuesStand
    <3>3. DelayInv'
      BY <1>0, <2>0, <3>1, DelayKept
    <3>4. HomeInv' /\ SequenceInv' /\ PerGroupOrdering'
      BY <1>0, <3>1, <3>2, OrderKept
    <3> QED BY <3>3, <3>4 DEF OrderInv
  <2>3. CASE \/ PurgeQueue(c) \/ DeleteMessage(c) \/ GetQueueAttributes(c)
             \/ SendUnstored(c) \/ PollMissing(c)
    <3>1. /\ DOMAIN messages' \subseteq DOMAIN messages
          /\ \A m \in DOMAIN messages' : messages'[m] = messages[m]
          /\ Answer(c) /\ UNCHANGED <<queues, now, issued>>
      BY <2>3, RetainedFacts DEF PurgeQueue, DeleteMessage, GetQueueAttributes, Restrict, ghosts,
                                 SendUnstored, PollMissing, db
    <3>2. DelayInv'
      BY <1>0, <2>0, <3>1, DelayKept
    <3>3. HomeInv' /\ SequenceInv' /\ PerGroupOrdering'
      BY <1>0, <2>0, <3>1, OrderKept
    <3> QED BY <3>2, <3>3 DEF OrderInv
  <2>4. CASE SetQueueAttributes(c) \/ TagQueue(c)
    <3>1. DOMAIN queues' = DOMAIN queues /\ QueuesStand
      <4>1. CASE SetQueueAttributes(c)
        BY <1>0, <4>1, DelaySet
      <4>2. CASE TagQueue(c)
        BY <1>0, <4>2 DEF TagQueue, WriteTags, QueueRows, QueuesStand
      <4> QED BY <2>4, <4>1, <4>2
    <3>2. Answer(c) /\ UNCHANGED <<messages, now, issued>>
      BY <2>4 DEF SetQueueAttributes, TagQueue, ghosts
    <3>3. DelayInv'
      BY <1>0, <2>0, <3>1, <3>2, DelayKept DEF QueuesStand
    <3>4. HomeInv' /\ SequenceInv' /\ PerGroupOrdering'
      BY <1>0, <3>1, <3>2, OrderKept
    <3> QED BY <3>3, <3>4 DEF OrderInv
  <2>5. CASE SendStored(c)
    <3>1. /\ DOMAIN queues' = DOMAIN queues
          /\ \A i \in DOMAIN queues : queues'[i].attrs = queues[i].attrs
          /\ Answer(c)
      BY <2>5, SendQueues DEF Inv, SendStored
    <3>2. DelayInv'
      BY <1>0, <2>0, <3>1, DelayKept
    <3> QED BY <2>5, <3>2, OrderSendStored DEF OrderInv
  <2>6. CASE StartReceive(c)
    <3>1. /\ UNCHANGED <<queues, messages, now, issued>>
          /\ \A d \in Clients : reqs'[d].pc \in {"got", "handle"} => reqs'[d] = reqs[d]
      BY <2>6 DEF StartReceive, db, ghosts, Inv, TypeOK
    <3>2. DelayInv'
      BY <1>0, <3>1, DelayKept
    <3>3. HomeInv' /\ SequenceInv' /\ PerGroupOrdering'
      BY <1>0, <2>0, <3>1, OrderKept
    <3> QED BY <3>2, <3>3 DEF OrderInv
  <2>7. CASE Poll(c)
    <3>1. /\ queues' = queues
          /\ \A d \in Clients : reqs'[d].pc # "idle" => reqs'[d] = reqs[d]
      BY <2>7, PollEffect DEF Inv
    <3>2. DelayInv'
      BY <1>0, <3>1, DelayKept
    <3> QED BY <2>7, <3>2, OrderPoll DEF OrderInv
  <2>8. CASE ChangeVisibility(c)
    <3>1. Answer(c) /\ UNCHANGED <<queues, now>>
      BY <2>8 DEF ChangeVisibility
    <3>2. DelayInv'
      BY <1>0, <2>0, <3>1, DelayKept
    <3>3. HomeInv' /\ SequenceInv' /\ PerGroupOrdering'
      BY <1>0, <2>0, <2>8, <3>1, OrderChange, OrderKept
    <3> QED BY <3>2, <3>3 DEF OrderInv
  <2> QED
    BY <1>2, <2>1, <2>2, <2>3, <2>4, <2>5, <2>6, <2>7, <2>8 DEF ClientStep
<1>3. CASE Tick \/ Restart \/ UNCHANGED vars
  <2>1. /\ UNCHANGED <<queues, messages, issued>> /\ now' \in Nat /\ now <= now'
        /\ \A d \in Clients : reqs'[d].pc \in {"got", "handle"} => reqs'[d] = reqs[d]
    BY <1>0, <1>3 DEF Tick, Restart, vars, db, ghosts, Idle
  <2>2. QueuesStand
    BY <2>1 DEF QueuesStand
  <2>3. DelayInv'
    BY <1>0, <2>1, DelayKept
  <2>4. HomeInv' /\ SequenceInv' /\ PerGroupOrdering'
    BY <1>0, <2>1, <2>2, OrderKept
  <2> QED BY <2>3, <2>4 DEF OrderInv
<1> QED
  BY <1>1, <1>2, <1>3 DEF Next

\* Messages of a FIFO group leave in the order they were sent: as long as no request changes
\* the delay of a queue that exists, no message is handed out before an earlier one of its
\* group, over any number of receives, timeouts and restarts, and a receive that dead-letters
\* a message of the group hands out no later one.
THEOREM InOrder == DelaysFixed => (Spec => GroupOrder)
<1> SUFFICES ASSUME DelaysFixed PROVE Spec => GroupOrder
  OBVIOUS
<1>1. Inv /\ FifoInv /\ OrderInv /\ FifoInv' /\ [Next]_vars => OrderInv'
  BY OrderNext
<1>2. OrderInv => PerGroupOrdering
  BY DEF OrderInv
<1> QED
  BY <1>1, <1>2, OrderInit, FifoInvariance, RedriveHolds, PTL DEF Spec, GroupOrder

-----------------------------------------------------------------------------
(* Poison messages *)

\* No request deletes a queue or changes its redrive policy.
PoliciesStay ==
    /\ "delete" \notin Operations
    /\ \A u \in Updates : u.RedrivePolicy = Keep

Policy(i) == queues[i].attrs.RedrivePolicy

\* Messages and copies belong to queues that exist, and a copy has its row's policy.  A
\* dead-letter queue is older than the queues that name it, so no policies form a cycle.
StandInv ==
    /\ \A c \in Clients : reqs[c].pc \in {"got", "handle"} =>
          /\ reqs[c].q.id \in DOMAIN queues
          /\ reqs[c].q.attrs.RedrivePolicy = Policy(reqs[c].q.id)
    /\ \A m \in DOMAIN messages : messages[m].queue_id \in DOMAIN queues
    /\ \A i \in DOMAIN queues : Policy(i) # None =>
          \E j \in DOMAIN queues : j < i /\ queues[j].name = Policy(i).target

\* Handles come from queues that exist.  Those of a message in a table come from its queue
\* or a newer one, and those from its queue are the last receive_count ones.
LimitInv ==
    /\ \A h \in DOMAIN issued : \E i \in DOMAIN queues : issued[h].queue = queues[i].name
    /\ \A h \in DOMAIN issued, i \in DOMAIN queues :
          h[1] \in DOMAIN messages /\ issued[h].queue = queues[i].name =>
             /\ messages[h[1]].queue_id <= i
             /\ i = messages[h[1]].queue_id =>
                   messages[h[1]].receipt - messages[h[1]].receive_count < h[2]
    /\ \A m \in DOMAIN messages :
          Policy(messages[m].queue_id) # None =>
             messages[m].receive_count <= Policy(messages[m].queue_id).max

\* The handles of message m from queue i are among max in a row.
Spent(m, i) ==
    \E lo \in Int : \A h \in DOMAIN issued :
        h[1] = m /\ issued[h].queue = queues[i].name => lo < h[2] /\ h[2] <= lo + Policy(i).max

SpentInv == \A m \in Nat, i \in DOMAIN queues : Policy(i) # None => Spent(m, i)

PoisonInv == StandInv /\ LimitInv /\ SpentInv

\* Queues stay, rows stand or go, handles stay with their queue.
LEMMA PoisonKept ==
    ASSUME PoisonInv, DOMAIN queues' = DOMAIN queues,
           \A i \in DOMAIN queues : /\ queues'[i].name = queues[i].name
                                    /\ queues'[i].attrs.RedrivePolicy = queues[i].attrs.RedrivePolicy,
           DOMAIN messages' \subseteq DOMAIN messages,
           \A m \in DOMAIN messages' :
              /\ messages'[m].queue_id = messages[m].queue_id
              /\ messages'[m].receipt = messages[m].receipt
              /\ messages'[m].receive_count = messages[m].receive_count,
           DOMAIN issued' = DOMAIN issued,
           \A h \in DOMAIN issued : issued'[h].queue = issued[h].queue,
           \A d \in Clients : reqs'[d].pc \in {"got", "handle"} => reqs'[d] = reqs[d]
    PROVE  PoisonInv'
<1>1. StandInv'
  BY DEF PoisonInv, StandInv, Policy
<1>2. LimitInv'
  <2>1. \A h \in DOMAIN issued : \E i \in DOMAIN queues : issued[h].queue = queues[i].name
    BY DEF PoisonInv, LimitInv
  <2>2. \A m \in DOMAIN messages' : Policy(messages[m].queue_id) # None =>
           messages[m].receive_count <= Policy(messages[m].queue_id).max
    BY DEF PoisonInv, LimitInv
  <2>3. \A h \in DOMAIN issued, i \in DOMAIN queues :
          h[1] \in DOMAIN messages' /\ issued[h].queue = queues[i].name =>
             /\ messages[h[1]].queue_id <= i
             /\ i = messages[h[1]].queue_id =>
                   messages[h[1]].receipt - messages[h[1]].receive_count < h[2]
    BY DEF PoisonInv, LimitInv
  <2>4. \A m \in DOMAIN messages' : messages[m].queue_id \in DOMAIN queues
    BY DEF PoisonInv, StandInv
  <2> QED BY <2>1, <2>2, <2>3, <2>4 DEF LimitInv, Policy
<1>3. SpentInv'
  BY DEF PoisonInv, SpentInv, Spent, Policy
<1> QED BY <1>1, <1>2, <1>3 DEF PoisonInv

LEMMA PoisonInit == Init => PoisonInv
BY DEF Init, PoisonInv, StandInv, LimitInv, SpentInv, Idle

\* CreateQueue looks the dead-letter queue up before it inserts the row, so the target is
\* older; the name is new, so no handle came from it.
LEMMA PoisonCreateQueue ==
    ASSUME Inv, PoisonInv, NEW r \in CreateRequests, CreateQueue(r)
    PROVE  PoisonInv'
<1> DEFINE n == nextQueue
<1>1. /\ DOMAIN queues' = DOMAIN queues \cup {n}
      /\ \A i \in DOMAIN queues : i # n /\ i < n /\ queues'[i] = queues[i]
      /\ queues'[n].name = r.name /\ queues'[n].attrs = Merged(DefaultAttrs, r.attrs)
      /\ UNCHANGED <<messages, reqs, issued>>
  BY DEF CreateQueue, Put, ghosts, Inv, TypeOK
<1>2. \A i \in DOMAIN queues : queues[i].name # r.name
  BY DEF CreateQueue, Named
<1>3. ASSUME queues'[n].attrs.RedrivePolicy # None
      PROVE  /\ queues'[n].attrs.RedrivePolicy = r.attrs.RedrivePolicy
             /\ \E j \in DOMAIN queues : queues[j].name = r.attrs.RedrivePolicy.target
  <2>1. r.attrs.RedrivePolicy \notin {None, Keep} /\ queues'[n].attrs.RedrivePolicy = r.attrs.RedrivePolicy
    BY <1>1, <1>3, SqsConstants DEF Merged
  <2>2. Named(r.attrs.RedrivePolicy.target) # {}
    BY <2>1 DEF CreateQueue, ValidAttributes
  <2> QED BY <2>1, <2>2 DEF Named
<1> HIDE DEF n
<1>4. StandInv'
  <2>1. \A i \in DOMAIN queues : Policy(i) # None =>
           \E j \in DOMAIN queues' : j < i /\ queues'[j].name = Policy(i).target
    BY <1>1 DEF PoisonInv, StandInv
  <2>2. queues'[n].attrs.RedrivePolicy # None =>
           \E j \in DOMAIN queues' : j < n /\ queues'[j].name = queues'[n].attrs.RedrivePolicy.target
    BY <1>1, <1>3
  <2>3. \A i \in DOMAIN queues' : queues'[i].attrs.RedrivePolicy # None =>
           \E j \in DOMAIN queues' : j < i /\ queues'[j].name = queues'[i].attrs.RedrivePolicy.target
    BY <1>1, <2>1, <2>2 DEF Policy
  <2>4. \A c \in Clients : reqs'[c].pc \in {"got", "handle"} =>
          /\ reqs'[c].q.id \in DOMAIN queues'
          /\ reqs'[c].q.attrs.RedrivePolicy = queues'[reqs'[c].q.id].attrs.RedrivePolicy
    BY <1>1 DEF PoisonInv, StandInv, Policy
  <2> QED BY <1>1, <2>3, <2>4 DEF PoisonInv, StandInv, Policy
<1>5. \A h \in DOMAIN issued : issued[h].queue # r.name
  BY <1>2 DEF PoisonInv, LimitInv
<1>6. LimitInv'
  <2>1. \A h \in DOMAIN issued : \E i \in DOMAIN queues' : issued[h].queue = queues'[i].name
    BY <1>1 DEF PoisonInv, LimitInv
  <2>2. \A h \in DOMAIN issued, i \in DOMAIN queues' :
          h[1] \in DOMAIN messages /\ issued[h].queue = queues'[i].name =>
             /\ messages[h[1]].queue_id <= i
             /\ i = messages[h[1]].queue_id =>
                   messages[h[1]].receipt - messages[h[1]].receive_count < h[2]
    BY <1>1, <1>5 DEF PoisonInv, LimitInv
  <2>3. \A m \in DOMAIN messages :
          queues'[messages[m].queue_id].attrs.RedrivePolicy # None =>
             messages[m].receive_count <= queues'[messages[m].queue_id].attrs.RedrivePolicy.max
    BY <1>1 DEF PoisonInv, StandInv, LimitInv, Policy
  <2> QED BY <1>1, <2>1, <2>2, <2>3 DEF LimitInv, Policy
<1>7. SpentInv'
  <2> SUFFICES ASSUME NEW m \in Nat, NEW i \in DOMAIN queues', queues'[i].attrs.RedrivePolicy # None
               PROVE  \E lo \in Int : \A h \in DOMAIN issued :
                         h[1] = m /\ issued[h].queue = queues'[i].name =>
                            lo < h[2] /\ h[2] <= lo + queues'[i].attrs.RedrivePolicy.max
    BY <1>1 DEF SpentInv, Spent, Policy
  <2>1. CASE i = n
    BY <1>1, <1>5, <2>1
  <2>2. CASE i # n
    BY <1>1, <2>2 DEF PoisonInv, SpentInv, Spent, Policy
  <2> QED BY <2>1, <2>2
<1> QED BY <1>4, <1>6, <1>7 DEF PoisonInv

LEMMA PoisonSendStored ==
    ASSUME Inv, PoisonInv, NEW c \in Clients, SendStored(c)
    PROVE  PoisonInv'
<1> DEFINE n == nextMessage
           id == reqs[c].q.id
<1>1. /\ DOMAIN queues' = DOMAIN queues
      /\ \A i \in DOMAIN queues : /\ queues'[i].name = queues[i].name
                                  /\ queues'[i].attrs = queues[i].attrs
  BY SendQueues DEF Inv
<1>2. /\ DOMAIN messages' \subseteq DOMAIN messages \cup {n}
      /\ \A m \in DOMAIN messages' : m # n => m \in DOMAIN messages /\ messages'[m] = messages[m]
      /\ messages'[n].queue_id = id /\ messages'[n].receive_count = 0
  BY SendRows
<1>3. /\ issued' = issued
      /\ \A d \in Clients : reqs'[d].pc \in {"got", "handle"} => reqs'[d] = reqs[d]
  BY DEF SendStored, Answer, Idle, Inv, TypeOK
<1>4. id \in DOMAIN queues
  BY DEF PoisonInv, StandInv, SendStored
<1>5. \A h \in DOMAIN issued : h[1] # n
  BY DEF Inv, ReceiptInv, TypeOK, Handles
<1>6. \A i \in DOMAIN queues : Policy(i) # None => Policy(i).max \in Nat
  BY DEF Inv, TypeOK, QueueRows, Attributes, Redrives, Policy
<1> HIDE DEF n, id
<1>7. StandInv'
  <2>1. \A m \in DOMAIN messages' : messages'[m].queue_id \in DOMAIN queues'
    BY <1>1, <1>2, <1>4 DEF PoisonInv, StandInv
  <2> QED BY <1>1, <1>3, <2>1 DEF PoisonInv, StandInv, Policy
<1>8. LimitInv'
  <2>1. \A h \in DOMAIN issued, i \in DOMAIN queues :
          h[1] \in DOMAIN messages' /\ issued[h].queue = queues[i].name =>
             /\ messages'[h[1]].queue_id <= i
             /\ i = messages'[h[1]].queue_id =>
                   messages'[h[1]].receipt - messages'[h[1]].receive_count < h[2]
    BY <1>2, <1>5 DEF PoisonInv, LimitInv
  <2>2. ASSUME NEW m \in DOMAIN messages', Policy(messages'[m].queue_id) # None
        PROVE  messages'[m].receive_count <= Policy(messages'[m].queue_id).max
    <3>1. CASE m = n
      BY <1>2, <1>4, <1>6, <2>2, <3>1
    <3>2. CASE m # n
      BY <1>2, <2>2, <3>2 DEF PoisonInv, LimitInv
    <3> QED BY <3>1, <3>2
  <2>3. \A m \in DOMAIN messages' : messages'[m].queue_id \in DOMAIN queues
    BY <1>2, <1>4 DEF PoisonInv, StandInv
  <2>4. \A h \in DOMAIN issued : \E i \in DOMAIN queues : issued[h].queue = queues[i].name
    BY DEF PoisonInv, LimitInv
  <2> QED BY <1>1, <1>3, <2>1, <2>2, <2>3, <2>4 DEF LimitInv, Policy
<1>9. SpentInv'
  BY <1>1, <1>3 DEF PoisonInv, SpentInv, Spent, Policy
<1> QED BY <1>7, <1>8, <1>9 DEF PoisonInv

LEMMA PolicySet ==
    ASSUME Inv, PoisonInv, PoliciesStay, NEW c \in Clients, SetQueueAttributes(c)
    PROVE  /\ DOMAIN queues' = DOMAIN queues
           /\ \A i \in DOMAIN queues :
                 /\ queues'[i].name = queues[i].name
                 /\ queues'[i].attrs.RedrivePolicy = queues[i].attrs.RedrivePolicy
<1> DEFINE q == reqs[c].q
<1>1. PICK u \in Updates :
         queues' = [i \in DOMAIN queues |->
            IF i = q.id /\ ValidAttributes(q.name, u)
            THEN [queues[i] EXCEPT !.attrs = Merged(q.attrs, u)] ELSE queues[i]]
  BY DEF SetQueueAttributes
<1>2. q.attrs.RedrivePolicy = queues[q.id].attrs.RedrivePolicy
  BY DEF PoisonInv, StandInv, Policy, SetQueueAttributes
<1> DEFINE a == Merged(q.attrs, u)
           v == ValidAttributes(q.name, u)
<1>3. a.RedrivePolicy = q.attrs.RedrivePolicy
  BY DEF Merged, PoliciesStay
<1>4. \A i \in DOMAIN queues : queues[i] \in QueueRows
  BY DEF Inv, TypeOK
<1>5. queues' = [i \in DOMAIN queues |->
            IF i = q.id /\ v THEN [queues[i] EXCEPT !.attrs = a] ELSE queues[i]]
  BY <1>1
<1> HIDE DEF a, v, q
<1>6. ASSUME NEW i \in DOMAIN queues
      PROVE  /\ queues'[i].name = queues[i].name
             /\ queues'[i].attrs.RedrivePolicy = queues[i].attrs.RedrivePolicy
  <2>1. CASE i = q.id /\ v
    <3>1. queues'[i] = [queues[i] EXCEPT !.attrs = a]
      BY <1>5, <2>1
    <3>2. queues'[i].attrs = a /\ queues'[i].name = queues[i].name
      BY <3>1, <1>4 DEF QueueRows
    <3> QED BY <3>2, <2>1, <1>2, <1>3
  <2>2. CASE ~(i = q.id /\ v)
    BY <1>5, <2>2
  <2> QED BY <2>1, <2>2
<1> QED BY <1>5, <1>6

LEMMA PoisonPoll ==
    ASSUME Inv, PoisonInv, NEW c \in Clients, Poll(c)
    PROVE  PoisonInv'
<1>1. PICK i \in DOMAIN queues, target \in DOMAIN queues,
              out \in SUBSET DOMAIN messages, dead \in SUBSET DOMAIN messages :
         /\ out = Delivered(Retained(Row(i)), Row(i), reqs[c].opts)
         /\ dead = DeadLettered(Retained(Row(i)), Row(i), reqs[c].opts)
         /\ ReceivedRows(i, target, out, dead)
         /\ ReceivedHandles(i, out)
         /\ target \in Targets(Row(i))
         /\ \A d \in Clients : reqs'[d].pc # "idle" => reqs'[d] = reqs[d]
         /\ queues' = queues
  BY PollEffect DEF Inv
<1> DEFINE handles == NewHandles(messages, out)
<1>2. /\ \A m \in DOMAIN messages : /\ messages[m].receipt \in Nat /\ messages[m].receive_count \in Nat
                                    /\ messages[m].queue_id \in Nat /\ m \in Nat
      /\ \A j \in DOMAIN queues : j \in Nat
      /\ \A h \in DOMAIN issued : h[1] \in Nat /\ h[2] \in Nat
      /\ \A j \in DOMAIN queues : Policy(j) # None => Policy(j).max \in Nat \ {0}
  <2>1. \A m \in DOMAIN messages : /\ messages[m].receipt \in Nat /\ messages[m].receive_count \in Nat
                                   /\ messages[m].queue_id \in Nat /\ m \in Nat
    BY DEF Inv, TypeOK, MessageRows
  <2>2. /\ \A j \in DOMAIN queues : j \in Nat
        /\ \A h \in DOMAIN issued : h[1] \in Nat /\ h[2] \in Nat
    BY DEF Inv, TypeOK, Handles
  <2>3. \A j \in DOMAIN queues : Policy(j) # None => Policy(j).max \in Nat \ {0}
    BY DEF Inv, TypeOK, QueueRows, Attributes, Redrives, Policy
  <2> QED BY <2>1, <2>2, <2>3
<1>3. ASSUME NEW m \in dead
      PROVE  target < i
  <2>1. DeadLetterQueues(Row(i)) # {}
    BY <1>1 DEF DeadLettered, Exhausted
  <2>2. target \in DeadLetterQueues(Row(i))
    BY <1>1, <2>1 DEF Targets
  <2>3. Policy(i) # None /\ queues[target].name = Policy(i).target
    BY <2>1, <2>2 DEF DeadLetterQueues, Named, Row, Policy
  <2>4. PICK j \in DOMAIN queues : j < i /\ queues[j].name = Policy(i).target
    BY <2>3 DEF PoisonInv, StandInv
  <2>5. j = target
    BY <2>3, <2>4 DEF Inv, CopiesInv
  <2> QED BY <2>4, <2>5
<1>4. ASSUME NEW m \in out, Policy(i) # None
      PROVE  messages[m].receive_count < Policy(i).max
  <2>1. ~Exhausted(Retained(Row(i)), Row(i), m) /\ m \in DOMAIN Retained(Row(i))
    BY <1>1 DEF Delivered, Ready, Candidates
  <2>2. PICK j \in DOMAIN queues : queues[j].name = Policy(i).target
    BY <1>4 DEF PoisonInv, StandInv
  <2>3. DeadLetterQueues(Row(i)) # {}
    BY <1>4, <2>2 DEF DeadLetterQueues, Named, Row, Policy
  <2>4. ~(messages[m].receive_count >= Policy(i).max)
    BY <2>1, <2>3, RetainedFacts DEF Exhausted, Row, Policy
  <2> QED BY <1>2, <1>4, <2>4
<1>5. /\ \A h \in handles : h[1] \in out /\ h[2] = messages[h[1]].receipt + 1
      /\ DOMAIN issued' = DOMAIN issued \cup handles
      /\ \A h \in DOMAIN issued \ handles : issued'[h] = issued[h]
      /\ \A h \in handles : issued'[h].queue = queues[i].name
  BY <1>1 DEF ReceivedHandles, NewHandles
<1>6. \A h \in DOMAIN issued : h[1] \in DOMAIN messages => h[2] <= messages[h[1]].receipt
  BY DEF Inv, ReceiptInv
<1>7. \A h \in handles : h \notin DOMAIN issued
  BY <1>1, <1>2, <1>5, <1>6
<1> HIDE DEF handles
<1>8. StandInv'
  <2>1. \A m \in DOMAIN messages' : messages'[m].queue_id \in DOMAIN queues
    BY <1>1 DEF ReceivedRows, PoisonInv, StandInv
  <2> QED BY <1>1, <2>1 DEF PoisonInv, StandInv, Policy
<1>9. ASSUME NEW h \in DOMAIN issued', NEW k \in DOMAIN queues, h[1] \in DOMAIN messages',
             issued'[h].queue = queues[k].name
      PROVE  /\ messages'[h[1]].queue_id <= k
             /\ k = messages'[h[1]].queue_id =>
                   messages'[h[1]].receipt - messages'[h[1]].receive_count < h[2]
  <2> DEFINE m == h[1]
  <2>0. m \in DOMAIN messages
    BY <1>1, <1>9 DEF ReceivedRows
  <2>1. CASE h \in handles
    <3>1. k = i
      BY <1>5, <1>9, <2>1 DEF Inv, CopiesInv
    <3>2. m \in out /\ h[2] = messages[m].receipt + 1
      BY <1>5, <2>1
    <3>3. /\ messages'[m].queue_id = i
          /\ messages'[m].receipt = messages[m].receipt + 1
          /\ messages'[m].receive_count = messages[m].receive_count + 1
      BY <1>1, <3>2 DEF ReceivedRows
    <3> QED BY <1>2, <2>0, <3>1, <3>2, <3>3
  <2>2. CASE h \notin handles
    <3>1. h \in DOMAIN issued /\ issued[h].queue = queues[k].name
      BY <1>5, <1>9, <2>2
    <3>2. /\ messages[m].queue_id <= k
          /\ k = messages[m].queue_id => messages[m].receipt - messages[m].receive_count < h[2]
      BY <2>0, <3>1 DEF PoisonInv, LimitInv
    <3>3. CASE m \in dead
      <4>1. messages'[m].queue_id = target /\ messages[m].queue_id = i
        BY <1>1, <3>3 DEF ReceivedRows
      <4>2. target < i
        BY <1>3, <3>3
      <4> QED BY <1>2, <3>2, <4>1, <4>2
    <3>4. CASE m \in out
      <4>1. /\ messages'[m].queue_id = messages[m].queue_id
            /\ messages'[m].receipt = messages[m].receipt + 1
            /\ messages'[m].receive_count = messages[m].receive_count + 1
        BY <1>1, <3>4 DEF ReceivedRows
      <4>2. h[2] \in Nat /\ messages[m].receipt \in Nat /\ messages[m].receive_count \in Nat
        BY <1>2, <2>0, <3>1
      <4> QED BY <3>2, <4>1, <4>2
    <3>5. CASE m \notin dead /\ m \notin out
      BY <1>1, <1>9, <3>2, <3>5 DEF ReceivedRows
    <3> QED BY <3>3, <3>4, <3>5
  <2> QED BY <2>1, <2>2
<1>10. ASSUME NEW m \in DOMAIN messages', Policy(messages'[m].queue_id) # None
       PROVE  messages'[m].receive_count <= Policy(messages'[m].queue_id).max
  <2>0. m \in DOMAIN messages
    BY <1>1 DEF ReceivedRows
  <2>1. CASE m \in dead
    BY <1>1, <1>2, <1>10, <2>1 DEF ReceivedRows
  <2>2. CASE m \in out
    <3>1. messages'[m].queue_id = i /\ messages'[m].receive_count = messages[m].receive_count + 1
      BY <1>1, <2>2 DEF ReceivedRows
    <3>2. messages[m].receive_count < Policy(i).max
      BY <1>4, <1>10, <2>2, <3>1
    <3>3. messages[m].receive_count \in Nat /\ Policy(i).max \in Nat
      BY <1>2, <1>10, <2>0, <3>1
    <3> QED BY <3>1, <3>2, <3>3
  <2>3. CASE m \notin dead /\ m \notin out
    <3>1. messages'[m] = messages[m]
      BY <1>1, <2>3 DEF ReceivedRows
    <3> QED BY <1>10, <2>0, <3>1 DEF PoisonInv, LimitInv
  <2> QED BY <2>1, <2>2, <2>3
<1>11. \A h \in DOMAIN issued' : \E k \in DOMAIN queues : issued'[h].queue = queues[k].name
  BY <1>5 DEF PoisonInv, LimitInv
<1>12. LimitInv'
  BY <1>1, <1>9, <1>10, <1>11 DEF LimitInv, Policy
<1>13. ASSUME NEW m \in Nat, NEW k \in DOMAIN queues, Policy(k) # None
       PROVE  \E lo \in Int : \A h \in DOMAIN issued' :
                 h[1] = m /\ issued'[h].queue = queues[k].name =>
                    lo < h[2] /\ h[2] <= lo + Policy(k).max
  <2>1. CASE m \in out /\ k = i
    <3> DEFINE lo == messages[m].receipt - messages[m].receive_count
    <3>1. m \in DOMAIN messages /\ messages[m].queue_id = i
      BY <1>1, <2>1 DEF ReceivedRows
    <3>2. /\ messages[m].receipt \in Nat /\ messages[m].receive_count \in Nat
          /\ Policy(k).max \in Nat
      BY <1>2, <1>13, <3>1
    <3>3. messages[m].receive_count < Policy(k).max
      BY <1>4, <1>13, <2>1
    <3>4. ASSUME NEW h \in DOMAIN issued', h[1] = m, issued'[h].queue = queues[k].name
          PROVE  lo < h[2] /\ h[2] <= lo + Policy(k).max
      <4>1. CASE h \in handles
        <5>1. h[2] = messages[m].receipt + 1
          BY <1>5, <3>4, <4>1
        <5> QED BY <3>2, <3>3, <5>1
      <4>2. CASE h \notin handles
        <5>1. h \in DOMAIN issued /\ issued[h].queue = queues[k].name
          BY <1>5, <3>4, <4>2
        <5>2. lo < h[2] /\ h[2] <= messages[m].receipt /\ h[2] \in Nat
          BY <1>2, <1>6, <2>1, <3>1, <3>4, <5>1 DEF PoisonInv, LimitInv
        <5> QED BY <3>2, <3>3, <5>2
      <4> QED BY <4>1, <4>2
    <3>5. lo \in Int
      BY <3>2
    <3> HIDE DEF lo
    <3> QED BY <3>4, <3>5
  <2>2. CASE ~(m \in out /\ k = i)
    <3>1. ASSUME NEW h \in DOMAIN issued', h[1] = m, issued'[h].queue = queues[k].name
          PROVE  h \in DOMAIN issued /\ issued[h].queue = queues[k].name
      <4>1. h \notin handles
        BY <1>5, <2>2, <3>1 DEF Inv, CopiesInv
      <4> QED BY <1>5, <3>1, <4>1
    <3>2. PICK lo \in Int : \A h \in DOMAIN issued :
             h[1] = m /\ issued[h].queue = queues[k].name => lo < h[2] /\ h[2] <= lo + Policy(k).max
      BY <1>13 DEF PoisonInv, SpentInv, Spent
    <3> QED BY <3>1, <3>2
  <2> QED BY <2>1, <2>2
<1>14. SpentInv'
  BY <1>1, <1>13 DEF SpentInv, Spent, Policy
<1> QED BY <1>8, <1>12, <1>14 DEF PoisonInv

LEMMA PoisonNext ==
    ASSUME PoliciesStay
    PROVE  Inv /\ PoisonInv /\ [Next]_vars => PoisonInv'
<1> SUFFICES ASSUME Inv, PoisonInv, [Next]_vars PROVE PoisonInv'
  OBVIOUS
<1>0. /\ \A i \in DOMAIN queues : queues[i] \in QueueRows
      /\ \A m \in DOMAIN messages : messages[m] \in MessageRows
      /\ \A h \in DOMAIN issued : issued[h] \in Grants
  BY DEF Inv, TypeOK
<1>1. CASE \E r \in CreateRequests : CreateQueue(r)
  BY <1>1, PoisonCreateQueue
<1>2. ASSUME NEW c \in Clients, ClientStep(c) PROVE PoisonInv'
  <2>0. Answer(c) => \A d \in Clients : reqs'[d].pc \in {"got", "handle"} => reqs'[d] = reqs[d]
    BY DEF Inv, TypeOK, Answer, Idle
  <2>1. CASE \E n \in QueueNames : GetQueue(c, n)
    <3>1. PICK i \in DOMAIN queues : reqs'[c].q = Row(i)
      BY <2>1 DEF GetQueue, Named, Inv, TypeOK
    <3>2. /\ UNCHANGED <<queues, messages, issued>>
          /\ \A d \in Clients : d # c => reqs'[d] = reqs[d]
      BY <2>1 DEF GetQueue, db, ghosts, Inv, TypeOK
    <3>3. StandInv'
      BY <3>1, <3>2 DEF PoisonInv, StandInv, Row, Policy
    <3>4. LimitInv'
      BY <3>2 DEF PoisonInv, LimitInv, Policy
    <3>5. SpentInv'
      BY <3>2 DEF PoisonInv, SpentInv, Spent, Policy
    <3> QED BY <3>3, <3>4, <3>5 DEF PoisonInv
  <2>2. CASE DeleteQueue(c)
    BY <2>2 DEF DeleteQueue, PoliciesStay
  <2>3. CASE \/ PurgeQueue(c) \/ DeleteMessage(c) \/ GetQueueAttributes(c)
             \/ SendUnstored(c) \/ PollMissing(c)
    <3>1. /\ DOMAIN messages' \subseteq DOMAIN messages
          /\ \A m \in DOMAIN messages' : messages'[m] = messages[m]
          /\ Answer(c) /\ UNCHANGED <<queues, issued>>
      BY <2>3, RetainedFacts DEF PurgeQueue, DeleteMessage, GetQueueAttributes, Restrict, ghosts,
                                 SendUnstored, PollMissing, db
    <3> QED BY <2>0, <3>1, PoisonKept
  <2>4. CASE SetQueueAttributes(c)
    <3>1. Answer(c) /\ UNCHANGED <<messages, issued>>
      BY <2>4 DEF SetQueueAttributes, ghosts
    <3> QED BY <2>0, <2>4, <3>1, PolicySet, PoisonKept
  <2>5. CASE TagQueue(c)
    <3>1. /\ DOMAIN queues' = DOMAIN queues
          /\ \A i \in DOMAIN queues : /\ queues'[i].name = queues[i].name
                                      /\ queues'[i].attrs = queues[i].attrs
      BY <1>0, <2>5 DEF TagQueue, WriteTags, QueueRows
    <3>2. Answer(c) /\ UNCHANGED <<messages, issued>>
      BY <2>5 DEF TagQueue, ghosts
    <3> QED BY <2>0, <3>1, <3>2, PoisonKept
  <2>6. CASE SendStored(c)
    BY <2>6, PoisonSendStored
  <2>7. CASE StartReceive(c)
    <3>1. /\ UNCHANGED <<queues, messages, issued>>
          /\ \A d \in Clients : reqs'[d].pc \in {"got", "handle"} => reqs'[d] = reqs[d]
      BY <2>7 DEF StartReceive, db, ghosts, Inv, TypeOK
    <3> QED BY <3>1, PoisonKept
  <2>8. CASE Poll(c)
    BY <2>8, PoisonPoll
  <2>9. CASE ChangeVisibility(c)
    <3>1. /\ DOMAIN messages' = DOMAIN messages
          /\ \A m \in DOMAIN messages :
                /\ messages'[m].queue_id = messages[m].queue_id
                /\ messages'[m].receipt = messages[m].receipt
                /\ messages'[m].receive_count = messages[m].receive_count
      BY <1>0, <2>9 DEF ChangeVisibility, MessageRows
    <3>2. /\ DOMAIN issued' = DOMAIN issued
          /\ \A h \in DOMAIN issued : issued'[h].queue = issued[h].queue
      BY <1>0, <2>9 DEF ChangeVisibility, Grants
    <3>3. Answer(c) /\ queues' = queues
      BY <2>9 DEF ChangeVisibility
    <3> QED BY <2>0, <3>1, <3>2, <3>3, PoisonKept
  <2> QED
    BY <1>2, <2>1, <2>2, <2>3, <2>4, <2>5, <2>6, <2>7, <2>8, <2>9 DEF ClientStep
<1>3. CASE Tick \/ Restart \/ UNCHANGED vars
  <2>1. /\ UNCHANGED <<queues, messages, issued>>
        /\ \A d \in Clients : reqs'[d].pc \in {"got", "handle"} => reqs'[d] = reqs[d]
    BY <1>3 DEF Tick, Restart, vars, db, ghosts, Idle
  <2> QED BY <2>1, PoisonKept
<1> QED
  BY <1>1, <1>2, <1>3 DEF Next

\* Handles with numbers in lo+1 .. lo+max are at most max.
LEMMA FewHandles ==
    ASSUME NEW T, NEW m, NEW max \in Nat, NEW lo \in Int,
           \A h \in T : h \in Handles /\ h[1] = m /\ lo < h[2] /\ h[2] <= lo + max
    PROVE  Cardinality(T) <= max
<1> DEFINE g == [h \in T |-> h[2] - lo]
<1>1. \A h \in T : g[h] = h[2] - lo /\ g[h] \in 1..max
  BY DEF Handles
<1>2. \A a, b \in T : g[a] = g[b] => a = b
  <2> TAKE a, b \in T
  <2>1. a[2] \in Nat /\ b[2] \in Nat /\ a = <<m, a[2]>> /\ b = <<m, b[2]>>
    BY DEF Handles
  <2>2. g[a] = a[2] - lo /\ g[b] = b[2] - lo
    BY <1>1
  <2> HIDE DEF g
  <2>3. g[a] = g[b] => a[2] = b[2]
    BY <2>1, <2>2
  <2> QED BY <2>1, <2>3
<1>3. g \in [T -> 1..max]
  BY <1>1
<1> HIDE DEF g
<1>4. g \in Injection(T, 1..max)
  BY <1>2, <1>3 DEF Injection, IsInjective
<1>5. IsFiniteSet(1..max) /\ Cardinality(1..max) = max
  BY FS_Interval
<1>6. Cardinality(T) <= Cardinality(1..max)
  BY <1>4, <1>5, FS_Injection
<1> QED BY <1>5, <1>6

\* Dead-letter redrive from both sides: no message is dead-lettered early, and as long as no
\* request deletes a queue or changes its policy, no queue hands a message out more often than
\* its policy allows: the count of receive_tx starts again only where a message moves, and it
\* never comes back, because a dead-letter queue is older than the queues that name it.
THEOREM RedriveLimit == PoliciesStay => (Spec => []DeadLetterLimit)
<1> SUFFICES ASSUME PoliciesStay PROVE Spec => []DeadLetterLimit
  OBVIOUS
<1>1. Inv /\ PoisonInv /\ [Next]_vars => PoisonInv'
  BY PoisonNext
<1>2. Inv /\ PoisonInv => PoisonBounded
  <2> SUFFICES ASSUME Inv, PoisonInv, NEW m \in DOMAIN accepted, NEW i \in DOMAIN queues,
                      queues[i].attrs.RedrivePolicy # None
               PROVE  Cardinality(HandlesFrom(m, queues[i].name)) <= queues[i].attrs.RedrivePolicy.max
    BY DEF PoisonBounded
  <2>1. m \in Nat /\ DOMAIN issued \subseteq Handles
    BY DEF Inv, TypeOK
  <2>2. PICK lo \in Int : \A h \in DOMAIN issued :
           h[1] = m /\ issued[h].queue = queues[i].name => lo < h[2] /\ h[2] <= lo + Policy(i).max
    BY <2>1 DEF PoisonInv, SpentInv, Spent, Policy
  <2>3. Policy(i).max \in Nat
    BY DEF Inv, TypeOK, QueueRows, Attributes, Redrives, Policy
  <2>4. \A h \in HandlesFrom(m, queues[i].name) :
           h \in Handles /\ h[1] = m /\ lo < h[2] /\ h[2] <= lo + Policy(i).max
    BY <2>1, <2>2 DEF HandlesFrom
  <2>5. Cardinality(HandlesFrom(m, queues[i].name)) <= Policy(i).max
    BY <2>3, <2>4, FewHandles
  <2> QED BY <2>5 DEF Policy
<1> QED
  BY <1>1, <1>2, PoisonInit, Invariance, DeadLettersEarned, PTL DEF Spec, DeadLetterLimit
====
