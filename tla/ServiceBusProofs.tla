-------------------------- MODULE ServiceBusProofs --------------------------
(* Theorems about ServiceBus: its message table implements Delivery, and no  *)
(* message outlives its queue or subscription.                               *)
EXTENDS ServiceBus, SequenceTheorems, TLAPS

\* What the refinement needs of the table: rows are copies that were made, in
\* one of the three states, and no copy was made of a message yet to come.
RowsOK ==
    /\ nextMessage \in Nat
    /\ \A m \in DOMAIN messages : m \in made /\ messages[m] \in {ACTIVE, LOCKED, DEADLETTER}
    /\ \A m \in made : m[2] \in Nat /\ m[2] < nextMessage
    /\ DOMAIN given = made
    /\ \A m \in made : given[m] \in Nat

LEMMA InitRows == Init => RowsOK
BY DEF Init, RowsOK

\* The steps that take rows away.
LEMMA Removing ==
    ASSUME RowsOK, UNCHANGED <<nextMessage, made, given>>,
           NEW S, messages' = Restrict(messages, S), S \subseteq DOMAIN messages
    PROVE  RowsOK' /\ D!End
<1>1. DOMAIN messages' = S /\ \A m \in S : messages'[m] = messages[m]
  BY DEF Restrict
<1>2. RowsOK'
  BY <1>1 DEF RowsOK
<1>3. Waiting' \subseteq Waiting /\ Held' \subseteq Held
  BY <1>1 DEF Waiting, Held
<1>4. D!Counted({})
  BY <1>3 DEF D!Counted
<1> QED BY <1>2, <1>3, <1>4 DEF D!End

\* insert_message, for the sends to queues and to topics.
LEMMA Inserting ==
    ASSUME RowsOK, NEW H, Insert(H)
    PROVE  RowsOK' /\ D!Publish
<1> DEFINE copies == {<<HomeQueue(h), nextMessage>> : h \in H}
<1>1. \A m \in copies : m[2] = nextMessage /\ m \notin made
  BY DEF RowsOK
<1>2. /\ messages' = [m \in DOMAIN messages \cup copies |->
                         IF m \in copies THEN ACTIVE ELSE messages[m]]
      /\ made' = made \cup copies
      /\ given' = [m \in made \cup copies |-> IF m \in copies THEN 0 ELSE given[m]]
      /\ nextMessage' = nextMessage + 1
  BY DEF Insert
<1> HIDE DEF copies
<1>3. RowsOK'
  BY <1>1, <1>2 DEF RowsOK, ACTIVE
<1>4. made' \ made = copies
  BY <1>1, <1>2
<1>5. Waiting' = Waiting \cup copies /\ Held' = Held
  BY <1>1, <1>2 DEF Waiting, Held, RowsOK, ACTIVE, LOCKED
<1>6. \A m \in Waiting \cup Held : m \in made /\ m \notin copies
  BY <1>1 DEF Waiting, Held, RowsOK
<1>7. D!Counted({})
  BY <1>2, <1>4, <1>5, <1>6 DEF D!Counted
<1> QED BY <1>2, <1>3, <1>4, <1>5, <1>7 DEF D!Publish

LEMMA Receiving ==
    ASSUME RowsOK, NEW c \in Receivers, NEW lim \in Limits, ReceiveMessages(c, lim)
    PROVE  RowsOK' /\ D!HandOut
<1> DEFINE got == {m \in Active(reqs[c]) :
                      Cardinality({k \in Active(reqs[c]) : k[2] < m[2]}) < lim}
<1>1. /\ messages' = [m \in DOMAIN messages |-> IF m \in got THEN LOCKED ELSE messages[m]]
      /\ given' = [m \in made |-> IF m \in got THEN given[m] + 1 ELSE given[m]]
      /\ UNCHANGED <<nextMessage, made>>
  BY DEF ReceiveMessages
<1>2. got \subseteq Waiting
  BY DEF Active, Waiting, Held
<1> HIDE DEF got
<1>3. RowsOK'
  BY <1>1 DEF RowsOK
<1>4. Waiting' = Waiting \ got /\ Held' = Held \cup got
  BY <1>1, <1>2 DEF Waiting, Held, ACTIVE, LOCKED
<1>5. Waiting \ Waiting' = got
  BY <1>2, <1>4
<1>6. \A m \in Waiting \cup Held : m \in made
  BY DEF Waiting, Held, RowsOK
<1>7. D!Counted(Waiting \ Waiting')
  BY <1>1, <1>2, <1>4, <1>5, <1>6 DEF D!Counted
<1> QED BY <1>1, <1>3, <1>4, <1>5, <1>7 DEF D!HandOut

LEMMA Settling ==
    ASSUME RowsOK, NEW m \in known, NEW state \in {ACTIVE, DEADLETTER}, Settle(m, state)
    PROVE  RowsOK' /\ D!Next
<1>1. /\ messages' = [messages EXCEPT ![m] = state] /\ messages[m] = LOCKED
      /\ m \in DOMAIN messages /\ UNCHANGED <<nextMessage, made, given>>
  BY DEF Settle
<1>2. RowsOK'
  BY <1>1 DEF RowsOK
<1>3. CASE state = ACTIVE
  <2>1. Waiting' = Waiting \cup {m} /\ Held' = Held \ {m} /\ m \in Held
    BY <1>1, <1>3 DEF Waiting, Held, ACTIVE, LOCKED
  <2>2. D!Counted({})
    BY <1>1, <2>1 DEF D!Counted
  <2> QED BY <1>1, <1>2, <2>1, <2>2 DEF D!ComeBack, D!Next
<1>4. CASE state = DEADLETTER
  <2>1. Waiting' = Waiting /\ Held' = Held \ {m}
    BY <1>1, <1>4 DEF Waiting, Held, ACTIVE, LOCKED, DEADLETTER
  <2>2. D!Counted({})
    BY <1>1, <2>1 DEF D!Counted
  <2> QED BY <1>1, <1>2, <2>1, <2>2 DEF D!End, D!Next
<1> QED BY <1>3, <1>4

\* The steps that leave the message table alone.
LEMMA Standing ==
    ASSUME RowsOK, UNCHANGED <<messages, nextMessage, made, given>>
    PROVE  RowsOK' /\ UNCHANGED D!vars
<1>1. RowsOK'
  BY DEF RowsOK
<1>2. Waiting' = Waiting /\ Held' = Held
  BY DEF Waiting, Held
<1> QED BY <1>1, <1>2 DEF D!vars

LEMMA StepRows ==
    ASSUME RowsOK, [Next]_vars
    PROVE  RowsOK' /\ [D!Next]_(D!vars)
<1>1. CASE \E q \in Queues : CreateQueue(q)
  BY <1>1, Standing DEF CreateQueue
<1>2. CASE \E q \in Queues : DeleteQueue(q)
  BY <1>2, Removing DEF DeleteQueue, D!Next
<1>3. CASE \E q \in Queues : SendMessage(q)
  BY <1>3, Inserting DEF SendMessage, D!Next
<1>4. CASE \E t \in Topics : CreateTopic(t)
  BY <1>4, Standing DEF CreateTopic
<1>5. CASE \E t \in Topics : DeleteTopic(t)
  BY <1>5, Removing DEF DeleteTopic, D!Next
<1>6. CASE \E t \in Topics : SendTopicMessage(t)
  BY <1>6, Inserting DEF SendTopicMessage, D!Next
<1>7. CASE \E p \in Subscriptions : CreateSubscription(p[1], p[2])
  BY <1>7, Standing DEF CreateSubscription
<1>8. CASE \E p \in Subscriptions : DeleteSubscription(p[1], p[2])
  BY <1>8, Removing DEF DeleteSubscription, D!Next
<1>9. CASE \E c \in Receivers, q \in Existing : StartReceive(c, q)
  BY <1>9, Standing DEF StartReceive, tables
<1>10. CASE \E c \in Receivers, lim \in Limits : ReceiveMessages(c, lim)
  BY <1>10, Receiving DEF D!Next
<1>11. CASE \E m \in known : CompleteMessage(m)
  BY <1>11, Removing DEF CompleteMessage, D!Next
<1>12. CASE \E m \in known : AbandonMessage(m) \/ DeadletterMessage(m)
  BY <1>12, Settling DEF AbandonMessage, DeadletterMessage
<1>13. CASE Restart
  BY <1>13, Standing DEF Restart, tables
<1>14. CASE UNCHANGED vars
  BY <1>14, Standing DEF vars
<1> QED
  BY <1>1, <1>2, <1>3, <1>4, <1>5, <1>6, <1>7, <1>8, <1>9, <1>10, <1>11, <1>12,
     <1>13, <1>14 DEF Next

\* The message table implements Delivery for all names, receivers and limits: a
\* locked message is handed out to nobody else, and a settled one never again.
THEOREM Implements == Spec => PeekLock
<1>1. Init => D!Init
  BY DEF Init, D!Init, Waiting, Held
<1>2. RowsOK /\ [Next]_vars => RowsOK' /\ [D!Next]_(D!vars)
  BY StepRows
<1> QED BY InitRows, <1>1, <1>2, PTL DEF Spec, PeekLock, D!Spec


-----------------------------------------------------------------------------
(* No message outlives its queue *)

HomesOK == subs \subseteq Subscriptions

\* delete_topic finds every message of the subscriptions it deletes.
LEMMA PrefixFound ==
    ASSUME NEW p \in Subscriptions
    PROVE  StartsWith(SubscriptionQueue(p[1], p[2]), SubPrefix(p[1]))
<1> DEFINE S == STRING \cup {"topic", "sub"}
           pre == SubPrefix(p[1])
<1>1. p[1] \in Seq(STRING) /\ p[2] \in Seq(STRING) /\ Len(p[2]) > 0
  BY ServiceBusConstants
<1>2. "topic" \in S /\ "sub" \in S /\ STRING \subseteq S
  OBVIOUS
<1> HIDE DEF S
<1>3. p[1] \in Seq(S) /\ p[2] \in Seq(S)
  BY <1>1, <1>2, SeqMonotonic
<1>4. pre \in Seq(S)
  <2>1. <<"topic">> \in Seq(S) /\ <<"sub">> \in Seq(S)
    BY <1>2
  <2>2. <<"topic">> \o p[1] \in Seq(S)
    BY <1>3, <2>1
  <2> QED BY <2>1, <2>2 DEF SubPrefix
<1>5. SubscriptionQueue(p[1], p[2]) = pre \o p[2]
  BY Zenon DEF SubPrefix, SubscriptionQueue
<1> HIDE DEF pre
<1>6. Len(pre \o p[2]) > Len(pre) /\ SubSeq(pre \o p[2], 1, Len(pre)) = pre
  BY <1>1, <1>3, <1>4
<1> QED BY <1>5, <1>6 DEF StartsWith, pre

LEMMA StepQueues ==
    ASSUME HomesOK, MessagesHaveQueue, [Next]_vars
    PROVE  HomesOK' /\ MessagesHaveQueue'
<1> USE DEF HomesOK, MessagesHaveQueue, Existing, VirtualQueues
<1>1. CASE \E q \in Queues : CreateQueue(q)
  BY <1>1 DEF CreateQueue
<1>2. CASE \E q \in Queues : DeleteQueue(q)
  BY <1>2 DEF DeleteQueue, Restrict
<1>3. CASE \E q \in Queues : SendMessage(q)
  <2> PICK q \in Queues : SendMessage(q)
    BY <1>3
  <2>1. q \in queues /\ UNCHANGED <<queues, topics, subs>>
    BY DEF SendMessage
  <2>2. DOMAIN messages' = DOMAIN messages \cup {<<q, nextMessage>>}
    BY DEF SendMessage, Insert, HomeQueue
  <2> QED BY <2>1, <2>2
<1>4. CASE \E t \in Topics : CreateTopic(t)
  BY <1>4 DEF CreateTopic
<1>5. CASE \E t \in Topics : DeleteTopic(t)
  <2> PICK t \in Topics : DeleteTopic(t)
    BY <1>5
  <2>1. /\ queues' = queues /\ subs' = {p \in subs : p[1] # t}
        /\ DOMAIN messages' = {m \in DOMAIN messages : ~StartsWith(m[1], SubPrefix(t))}
    BY DEF DeleteTopic, Restrict
  <2>2. \A p \in subs \ subs' : StartsWith(SubscriptionQueue(p[1], p[2]), SubPrefix(t))
    BY <2>1, PrefixFound
  <2> QED BY <2>1, <2>2
<1>6. CASE \E t \in Topics : SendTopicMessage(t)
  <2> PICK t \in Topics : SendTopicMessage(t)
    BY <1>6
  <2>1. UNCHANGED <<queues, topics, subs>>
    BY DEF SendTopicMessage
  <2>2. DOMAIN messages' = DOMAIN messages \cup
           {<<HomeQueue(h), nextMessage>> : h \in {p \in subs : p[1] = t}}
    BY DEF SendTopicMessage, Insert
  <2>3. \A p \in subs : Len(p) = 2
    BY ServiceBusConstants
  <2>4. \A p \in subs : HomeQueue(p) \in VirtualQueues
    BY <2>3 DEF HomeQueue
  <2> QED BY <2>1, <2>2, <2>4
<1>7. CASE \E p \in Subscriptions : CreateSubscription(p[1], p[2])
  BY <1>7, ServiceBusConstants DEF CreateSubscription
<1>8. CASE \E p \in Subscriptions : DeleteSubscription(p[1], p[2])
  BY <1>8, ServiceBusConstants DEF DeleteSubscription, Restrict
<1>9. CASE \E c \in Receivers, q \in Existing : StartReceive(c, q)
  BY <1>9 DEF StartReceive, tables
<1>10. CASE \E c \in Receivers, lim \in Limits : ReceiveMessages(c, lim)
  BY <1>10 DEF ReceiveMessages
<1>11. CASE \E m \in known : CompleteMessage(m)
  BY <1>11 DEF CompleteMessage, Restrict
<1>12. CASE \E m \in known : AbandonMessage(m) \/ DeadletterMessage(m)
  BY <1>12 DEF AbandonMessage, DeadletterMessage, Settle
<1>13. CASE Restart \/ UNCHANGED vars
  BY <1>13 DEF Restart, tables, vars
<1> QED
  BY <1>1, <1>2, <1>3, <1>4, <1>5, <1>6, <1>7, <1>8, <1>9, <1>10, <1>11, <1>12,
     <1>13 DEF Next

\* No message outlives the queue or subscription it is in, whatever names the
\* topics and subscriptions have (delete_queue, delete_topic, delete_subscription).
THEOREM NoOrphans == Spec => []MessagesHaveQueue
<1>1. Init => HomesOK /\ MessagesHaveQueue
  BY DEF Init, HomesOK, MessagesHaveQueue
<1>2. HomesOK /\ MessagesHaveQueue /\ [Next]_vars => HomesOK' /\ MessagesHaveQueue'
  BY StepQueues
<1> QED BY <1>1, <1>2, PTL DEF Spec

-----------------------------------------------------------------------------
(* Messages are kept until they are completed *)

\* A name without the part y.
Without(x, y) == \A i \in 1..Len(x) : x[i] # y

\* z begins as p does.
Begins(z, p) == Len(p) <= Len(z) /\ \A i \in 1..Len(p) : z[i] = p[i]

LEMMA ConcatBegins ==
    ASSUME NEW S, NEW p \in Seq(S), NEW s \in Seq(S)
    PROVE  p \o s \in Seq(S) /\ Begins(p \o s, p)
<1>1. /\ p \o s \in Seq(S) /\ Len(p \o s) = Len(p) + Len(s)
      /\ \A i \in 1 .. Len(p) + Len(s) : (p \o s)[i] = IF i <= Len(p) THEN p[i] ELSE s[i - Len(p)]
  BY ConcatProperties
<1>2. Len(p) \in Nat /\ Len(s) \in Nat
  OBVIOUS
<1> QED BY <1>1, <1>2 DEF Begins

LEMMA PrefixParts ==
    ASSUME NEW S, NEW x \in S, NEW y \in S, NEW t \in Seq(S),
           NEW p, p = <<x>> \o t \o <<y>>
    PROVE  /\ p \in Seq(S) /\ Len(p) = Len(t) + 2 /\ p[Len(t) + 2] = y
           /\ \A i \in 1..Len(t) : p[i + 1] = t[i]
<1> DEFINE a == <<x>>
           b == <<y>>
           c == a \o t
<1>1. a \in Seq(S) /\ Len(a) = 1 /\ b \in Seq(S) /\ Len(b) = 1 /\ b[1] = y
  OBVIOUS
<1>2. p = c \o b
  OBVIOUS
<1>3. Len(t) \in Nat
  OBVIOUS
<1> HIDE DEF a, b
<1>4. /\ c \in Seq(S) /\ Len(c) = Len(a) + Len(t)
      /\ \A i \in 1 .. Len(a) + Len(t) : c[i] = IF i <= Len(a) THEN a[i] ELSE t[i - Len(a)]
  BY <1>1, ConcatProperties
<1>5. \A i \in 1..Len(t) : c[i + 1] = t[i]
  <2> TAKE i \in 1..Len(t)
  <2>1. i + 1 \in 1 .. Len(a) + Len(t) /\ ~(i + 1 <= Len(a)) /\ i + 1 - Len(a) = i
    BY <1>1, <1>3
  <2> QED BY <1>4, <2>1
<1> HIDE DEF c
<1>6. /\ p \in Seq(S) /\ Len(p) = Len(c) + Len(b)
      /\ \A i \in 1 .. Len(c) + Len(b) : p[i] = IF i <= Len(c) THEN c[i] ELSE b[i - Len(c)]
  BY <1>1, <1>2, <1>4, ConcatProperties
<1>7. p[Len(t) + 2] = y
  <2>1. Len(t) + 2 \in 1 .. Len(c) + Len(b) /\ ~(Len(t) + 2 <= Len(c)) /\ Len(t) + 2 - Len(c) = 1
    BY <1>1, <1>3, <1>4
  <2> QED BY <1>1, <1>6, <2>1
<1>8. \A i \in 1..Len(t) : p[i + 1] = t[i]
  <2> TAKE i \in 1..Len(t)
  <2>1. i + 1 \in 1 .. Len(c) + Len(b) /\ i + 1 <= Len(c)
    BY <1>1, <1>3, <1>4
  <2> QED BY <1>5, <1>6, <2>1
<1> QED BY <1>1, <1>3, <1>4, <1>6, <1>7, <1>8

\* Of two topics whose names lack the part that ends their prefixes, only one's prefix
\* begins a name.
LEMMA PrefixShorter ==
    ASSUME NEW S, NEW x \in S, NEW y \in S, NEW t \in Seq(S), NEW u \in Seq(S),
           Without(u, y), NEW z,
           Begins(z, <<x>> \o t \o <<y>>), Begins(z, <<x>> \o u \o <<y>>)
    PROVE  ~(Len(t) < Len(u))
<1> SUFFICES ASSUME Len(t) < Len(u) PROVE FALSE
  OBVIOUS
<1> DEFINE p == <<x>> \o t \o <<y>>
           q == <<x>> \o u \o <<y>>
<1>1. Len(p) = Len(t) + 2 /\ p[Len(t) + 2] = y
  BY PrefixParts
<1>2. Len(q) = Len(u) + 2 /\ \A i \in 1..Len(u) : q[i + 1] = u[i]
  BY PrefixParts
<1>3. Begins(z, p) /\ Begins(z, q)
  OBVIOUS
<1> HIDE DEF p, q
<1>4. Len(t) \in Nat /\ Len(u) \in Nat
  OBVIOUS
<1> DEFINE k == Len(t) + 1
<1>5. k \in 1..Len(u) /\ k + 1 = Len(t) + 2 /\ k + 1 \in 1..Len(p) /\ k + 1 \in 1..Len(q)
  BY <1>1, <1>2, <1>4
<1> HIDE DEF k
<1>6. z[k + 1] = p[k + 1] /\ z[k + 1] = q[k + 1]
  BY <1>3, <1>5 DEF Begins
<1>7. q[k + 1] = u[k] /\ p[k + 1] = y
  BY <1>1, <1>2, <1>5
<1> QED BY <1>5, <1>6, <1>7 DEF Without

LEMMA PrefixUnique ==
    ASSUME NEW S, NEW x \in S, NEW y \in S, NEW t \in Seq(S), NEW u \in Seq(S),
           Without(t, y), Without(u, y), NEW z,
           Begins(z, <<x>> \o t \o <<y>>), Begins(z, <<x>> \o u \o <<y>>)
    PROVE  t = u
<1>1. ~(Len(t) < Len(u)) /\ ~(Len(u) < Len(t)) /\ Len(t) \in Nat /\ Len(u) \in Nat
  BY PrefixShorter
<1>2. Len(t) = Len(u)
  BY <1>1
<1> DEFINE p == <<x>> \o t \o <<y>>
           q == <<x>> \o u \o <<y>>
<1>3. Len(p) = Len(t) + 2 /\ \A i \in 1..Len(t) : p[i + 1] = t[i]
  BY PrefixParts
<1>4. Len(q) = Len(u) + 2 /\ \A i \in 1..Len(u) : q[i + 1] = u[i]
  BY PrefixParts
<1>5. Begins(z, p) /\ Begins(z, q)
  OBVIOUS
<1> HIDE DEF p, q
<1>6. \A i \in 1..Len(t) : t[i] = u[i]
  <2> TAKE i \in 1..Len(t)
  <2>1. i \in 1..Len(u) /\ i + 1 \in 1..Len(p) /\ i + 1 \in 1..Len(q)
    BY <1>1, <1>2, <1>3, <1>4
  <2>2. z[i + 1] = p[i + 1] /\ z[i + 1] = q[i + 1]
    BY <1>5, <2>1 DEF Begins
  <2> QED BY <1>3, <1>4, <2>1, <2>2
<1> QED BY <1>2, <1>6, SeqEqual

\* Names that no client spells with a part "sub".
PlainNames ==
    \A x \in Queues \cup Topics : Without(x, "sub")

\* What the names of virtual queues tell apart.
LEMMA VirtualApart ==
    ASSUME PlainNames, NEW p \in Subscriptions
    PROVE  /\ \A q \in Queues : q # SubscriptionQueue(p[1], p[2])
           /\ \A r \in Subscriptions :
                 SubscriptionQueue(p[1], p[2]) = SubscriptionQueue(r[1], r[2]) => p = r
           /\ \A t \in Topics :
                 StartsWith(SubscriptionQueue(p[1], p[2]), SubPrefix(t)) => p[1] = t
<1> DEFINE S == STRING \cup {"topic", "sub"}
<1>1. "topic" \in S /\ "sub" \in S /\ STRING \subseteq S
  OBVIOUS
<1> HIDE DEF S
<1>2. /\ \A r \in Subscriptions : r[1] \in Topics /\ r[1] \in Seq(STRING) /\ r[2] \in Seq(STRING)
      /\ \A r \in Subscriptions : r = <<r[1], r[2]>>
      /\ \A t \in Topics : t \in Seq(STRING)
  BY ServiceBusConstants
<1>3. /\ \A r \in Subscriptions : r[1] \in Seq(S) /\ r[2] \in Seq(S)
      /\ \A t \in Topics : t \in Seq(S)
  BY <1>1, <1>2, SeqMonotonic
<1>4. \A t \in Topics : SubPrefix(t) = <<"topic">> \o t \o <<"sub">>
  BY DEF SubPrefix
<1>5. ASSUME NEW t \in Topics
      PROVE  /\ SubPrefix(t) \in Seq(S) /\ Len(SubPrefix(t)) = Len(t) + 2
             /\ SubPrefix(t)[Len(t) + 2] = "sub"
  <2> DEFINE x == "topic"
             y == "sub"
             pre == SubPrefix(t)
  <2>1. x \in S /\ y \in S /\ t \in Seq(S) /\ pre = <<x>> \o t \o <<y>>
    BY <1>1, <1>3, <1>4
  <2> HIDE DEF x, y, pre
  <2>2. pre \in Seq(S) /\ Len(pre) = Len(t) + 2 /\ pre[Len(t) + 2] = y
    BY <2>1, PrefixParts
  <2> QED BY <2>2 DEF y, pre
<1>6. ASSUME NEW r \in Subscriptions
      PROVE  /\ SubscriptionQueue(r[1], r[2]) = SubPrefix(r[1]) \o r[2]
             /\ SubscriptionQueue(r[1], r[2]) \in Seq(S)
             /\ Begins(SubscriptionQueue(r[1], r[2]), SubPrefix(r[1]))
  <2>1. SubscriptionQueue(r[1], r[2]) = SubPrefix(r[1]) \o r[2]
    BY Zenon DEF SubscriptionQueue, SubPrefix
  <2>2. SubPrefix(r[1]) \in Seq(S) /\ r[2] \in Seq(S)
    BY <1>2, <1>3, <1>5
  <2> QED BY <2>1, <2>2, ConcatBegins
<1>7. ASSUME NEW z, NEW t \in Topics, NEW u \in Topics,
             Begins(z, SubPrefix(t)), Begins(z, SubPrefix(u))
      PROVE  t = u
  <2>1. Without(t, "sub") /\ Without(u, "sub")
    BY DEF PlainNames
  <2>2. Begins(z, <<"topic">> \o t \o <<"sub">>) /\ Begins(z, <<"topic">> \o u \o <<"sub">>)
    BY <1>4, <1>7
  <2> QED BY <1>1, <1>3, <2>1, <2>2, PrefixUnique
<1>8. ASSUME NEW q \in Queues, q = SubscriptionQueue(p[1], p[2])
      PROVE  FALSE
  <2>0. p[1] \in Seq(S)
    BY <1>3
  <2>1. Begins(q, SubPrefix(p[1])) /\ p[1] \in Topics /\ Len(p[1]) \in Nat
    <3>1. Begins(q, SubPrefix(p[1]))
      BY <1>6, <1>8
    <3>2. p[1] \in Topics
      BY <1>2
    <3>3. Len(p[1]) \in Nat
      BY <2>0
    <3> QED BY <3>1, <3>2, <3>3
  <2> DEFINE k == Len(p[1]) + 2
  <2>2. k \in Nat \ {0} /\ k <= Len(q) /\ k \in 1..Len(SubPrefix(p[1])) /\ SubPrefix(p[1])[k] = "sub"
    BY <1>5, <2>1 DEF Begins
  <2>3. q[k] = "sub"
    BY <2>1, <2>2 DEF Begins
  <2>4. q \in Seq(S)
    BY <1>6, <1>8
  <2>5. k \in 1..Len(q)
    BY <2>2, <2>4
  <2> HIDE DEF k
  <2> QED BY <2>3, <2>5 DEF PlainNames, Without
<1>9. ASSUME NEW r \in Subscriptions,
             SubscriptionQueue(p[1], p[2]) = SubscriptionQueue(r[1], r[2])
      PROVE  p = r
  <2>1. p[1] = r[1]
    BY <1>2, <1>6, <1>7, <1>9
  <2>2. SubPrefix(p[1]) \o p[2] = SubPrefix(p[1]) \o r[2]
    BY <1>6, <1>9, <2>1
  <2>3. SubPrefix(p[1]) \in Seq(S) /\ p[2] \in Seq(S) /\ r[2] \in Seq(S)
    BY <1>2, <1>3, <1>5
  <2>4. p[2] = r[2]
    <3>1. \A s, t, v \in Seq(S) : s \o t = s \o v => t = v
      BY ConcatSimplifications
    <3> DEFINE s == SubPrefix(p[1])
    <3>2. s \o p[2] = s \o r[2] /\ s \in Seq(S)
      BY <2>2, <2>3
    <3> HIDE DEF s
    <3> QED BY <2>3, <3>1, <3>2
  <2> QED BY <1>2, <2>1, <2>4
<1>10. ASSUME NEW t \in Topics, StartsWith(SubscriptionQueue(p[1], p[2]), SubPrefix(t))
       PROVE  p[1] = t
  <2> DEFINE z == SubscriptionQueue(p[1], p[2])
             pre == SubPrefix(t)
  <2>1. z \in Seq(S) /\ Begins(z, SubPrefix(p[1])) /\ pre \in Seq(S)
    BY <1>5, <1>6
  <2>2. Len(pre) < Len(z) /\ SubSeq(z, 1, Len(pre)) = pre
    BY <1>10 DEF StartsWith
  <2> HIDE DEF z, pre
  <2>3. Begins(z, pre)
    BY <2>1, <2>2 DEF Begins
  <2> QED BY <1>2, <1>7, <2>1, <2>3 DEF pre
<1> QED BY <1>8, <1>9, <1>10

\* No queue looks like one of a topic's.
LEMMA QueueApart ==
    ASSUME PlainNames, NEW q \in Queues, NEW t \in Topics, StartsWith(q, SubPrefix(t))
    PROVE  FALSE
<1> DEFINE S == STRING \cup {"topic", "sub"}
           x == "topic"
           y == "sub"
           pre == SubPrefix(t)
           k == Len(t) + 2
<1>1. x \in S /\ y \in S /\ STRING \subseteq S
  OBVIOUS
<1> HIDE DEF S
<1>2. t \in Seq(STRING) /\ q \in Seq(STRING)
  BY ServiceBusConstants
<1>3. t \in Seq(S) /\ q \in Seq(S)
  BY <1>1, <1>2, SeqMonotonic
<1>4. pre = <<x>> \o t \o <<y>>
  BY DEF SubPrefix
<1>5. Len(pre) < Len(q) /\ SubSeq(q, 1, Len(pre)) = pre
  BY DEF StartsWith
<1>6. Without(q, y)
  BY DEF PlainNames
<1> HIDE DEF x, y, pre
<1>7. pre \in Seq(S) /\ Len(pre) = k /\ pre[k] = y
  BY <1>1, <1>3, <1>4, PrefixParts
<1>8. k \in Nat /\ k > 0
  BY <1>3
<1>9. k \in 1..Len(q) /\ q[k] = pre[k]
  BY <1>3, <1>5, <1>7, <1>8
<1> HIDE DEF k
<1> QED BY <1>6, <1>7, <1>9 DEF Without

\* Where the copy of a message that is owed to someone is.
AtHome(o) ==
    \/ \E q \in Queues : o.home = <<q>> /\ o.copy[1] = q
    \/ \E p \in Subscriptions : o.home = p /\ o.copy[1] = SubscriptionQueue(p[1], p[2])

OwedInv ==
    /\ subs \subseteq Subscriptions
    /\ \A o \in owed : AtHome(o) /\ o.copy \in DOMAIN messages

\* What a deletion takes is owed to nobody else.
LEMMA OwedRemoved ==
    ASSUME OwedInv, subs' \subseteq subs, NEW gone,
           owed' \subseteq owed, messages' = Restrict(messages, DOMAIN messages \ gone),
           \A o \in owed' : o.copy \notin gone
    PROVE  OwedInv'
<1>1. DOMAIN messages' = DOMAIN messages \ gone
  BY DEF Restrict
<1>2. \A o \in owed' : AtHome(o) /\ o.copy \in DOMAIN messages'
  BY <1>1 DEF OwedInv
<1>3. subs' \subseteq Subscriptions
  BY DEF OwedInv
<1> QED BY <1>2, <1>3 DEF OwedInv, AtHome

LEMMA OwedStands ==
    ASSUME OwedInv, subs' \subseteq Subscriptions, owed' = owed, DOMAIN messages' = DOMAIN messages
    PROVE  OwedInv'
BY DEF OwedInv, AtHome

LEMMA OwedInserted ==
    ASSUME OwedInv, subs' = subs, NEW H, Insert(H),
           \A h \in H : (\E q \in Queues : h = <<q>>) \/ h \in Subscriptions
    PROVE  OwedInv'
<1> DEFINE New(h) == [copy |-> <<HomeQueue(h), nextMessage>>, home |-> h]
<1>1. /\ owed' = owed \cup {New(h) : h \in H}
      /\ DOMAIN messages' = DOMAIN messages \cup {<<HomeQueue(h), nextMessage>> : h \in H}
  BY DEF Insert
<1>2. ASSUME NEW h \in H
      PROVE  AtHome(New(h)) /\ New(h).copy \in DOMAIN messages'
  <2>1. New(h).home = h /\ New(h).copy[1] = HomeQueue(h) /\ New(h).copy = <<HomeQueue(h), nextMessage>>
    OBVIOUS
  <2> HIDE DEF New
  <2>2. ASSUME NEW q \in Queues, h = <<q>>
        PROVE  AtHome(New(h))
    <3>1. HomeQueue(h) = q
      BY <2>2 DEF HomeQueue
    <3> QED BY <2>1, <2>2, <3>1 DEF AtHome
  <2>3. ASSUME h \in Subscriptions
        PROVE  AtHome(New(h))
    <3>1. h \in Topics \X (Seq(STRING) \ {<<>>})
      BY <2>3, ServiceBusConstants
    <3>2. Len(h) = 2
      BY <3>1
    <3>3. HomeQueue(h) = SubscriptionQueue(h[1], h[2])
      BY <3>2 DEF HomeQueue
    <3> QED BY <2>1, <2>3, <3>3 DEF AtHome
  <2>4. New(h).copy \in DOMAIN messages'
    BY <1>1, <2>1
  <2> QED BY <2>2, <2>3, <2>4
<1> HIDE DEF New
<1>3. \A o \in owed' : AtHome(o) /\ o.copy \in DOMAIN messages'
  BY <1>1, <1>2 DEF OwedInv
<1> QED BY <1>3 DEF OwedInv, AtHome

LEMMA OwedStep ==
    ASSUME PlainNames, OwedInv, [Next]_vars
    PROVE  OwedInv'
<1>0. subs \subseteq Subscriptions /\ \A p \in Subscriptions : p = <<p[1], p[2]>> /\ Len(p) = 2
  BY ServiceBusConstants DEF OwedInv
<1>1. ASSUME NEW q \in Queues, DeleteQueue(q)
      PROVE  OwedInv'
  <2> DEFINE gone == {m \in DOMAIN messages : m[1] = q}
  <2>1. messages' = Restrict(messages, DOMAIN messages \ gone)
    <3>1. DOMAIN messages \ gone = {m \in DOMAIN messages : m[1] # q}
      OBVIOUS
    <3> QED BY <1>1, <3>1 DEF DeleteQueue
  <2>2. owed' = {o \in owed : o.home # <<q>>} /\ subs' = subs
    BY <1>1 DEF DeleteQueue
  <2>3. ASSUME NEW o \in owed', o.copy \in gone PROVE FALSE
    <3>1. AtHome(o) /\ o.home # <<q>> /\ o.copy[1] = q
      BY <2>2, <2>3 DEF OwedInv
    <3> QED BY <3>1, VirtualApart DEF AtHome
  <2> QED BY <2>1, <2>2, <2>3, OwedRemoved
<1>2. ASSUME NEW t \in Topics, DeleteTopic(t)
      PROVE  OwedInv'
  <2> DEFINE gone == {m \in DOMAIN messages : StartsWith(m[1], SubPrefix(t))}
  <2>1. messages' = Restrict(messages, DOMAIN messages \ gone)
    <3>1. DOMAIN messages \ gone = {m \in DOMAIN messages : ~StartsWith(m[1], SubPrefix(t))}
      OBVIOUS
    <3> QED BY <1>2, <3>1 DEF DeleteTopic
  <2>2. owed' = {o \in owed : ~(Len(o.home) = 2 /\ o.home[1] = t)} /\ subs' \subseteq subs
    BY <1>2 DEF DeleteTopic
  <2>3. ASSUME NEW o \in owed', o.copy \in gone PROVE FALSE
    <3>1. AtHome(o) /\ ~(Len(o.home) = 2 /\ o.home[1] = t) /\ StartsWith(o.copy[1], SubPrefix(t))
      BY <2>2, <2>3 DEF OwedInv
    <3>2. ASSUME NEW q \in Queues, o.copy[1] = q PROVE FALSE
      BY <3>1, <3>2, QueueApart
    <3>3. ASSUME NEW p \in Subscriptions, o.home = p, o.copy[1] = SubscriptionQueue(p[1], p[2])
          PROVE  FALSE
      <4>1. p[1] = t
        BY <3>1, <3>3, VirtualApart
      <4> QED BY <1>0, <3>1, <3>3, <4>1
    <3> QED BY <3>1, <3>2, <3>3 DEF AtHome
  <2> HIDE DEF gone
  <2> QED BY <2>1, <2>2, <2>3, OwedRemoved
<1>3. ASSUME NEW p \in Subscriptions, DeleteSubscription(p[1], p[2])
      PROVE  OwedInv'
  <2> DEFINE v == SubscriptionQueue(p[1], p[2])
             gone == {m \in DOMAIN messages : m[1] = v}
  <2>1. messages' = Restrict(messages, DOMAIN messages \ gone)
    <3>1. DOMAIN messages \ gone = {m \in DOMAIN messages : m[1] # v}
      OBVIOUS
    <3> QED BY <1>3, <3>1 DEF DeleteSubscription
  <2>2. owed' = {o \in owed : o.home # p} /\ subs' \subseteq subs
    BY <1>0, <1>3 DEF DeleteSubscription
  <2>3. ASSUME NEW o \in owed', o.copy \in gone PROVE FALSE
    <3>1. AtHome(o) /\ o.home # p /\ o.copy[1] = v
      BY <2>2, <2>3 DEF OwedInv
    <3> HIDE DEF v
    <3>2. ASSUME NEW q \in Queues, o.copy[1] = q PROVE FALSE
      BY <3>1, <3>2, VirtualApart DEF v
    <3>3. ASSUME NEW r \in Subscriptions, o.home = r, o.copy[1] = SubscriptionQueue(r[1], r[2])
          PROVE  FALSE
      BY <3>1, <3>3, VirtualApart DEF v
    <3> QED BY <3>1, <3>2, <3>3 DEF AtHome
  <2> HIDE DEF gone
  <2> QED BY <2>1, <2>2, <2>3, OwedRemoved
<1>4. ASSUME NEW m \in known, CompleteMessage(m)
      PROVE  OwedInv'
  <2>1. /\ messages' = Restrict(messages, DOMAIN messages \ {m}) /\ subs' = subs
        /\ owed' = {o \in owed : o.copy # m}
    BY <1>4 DEF CompleteMessage
  <2>2. \A o \in owed' : o.copy \notin {m}
    BY <2>1
  <2> QED BY <2>1, <2>2, OwedRemoved
<1>5. ASSUME NEW q \in Queues, SendMessage(q)
      PROVE  OwedInv'
  <2>1. Insert({<<q>>}) /\ subs' = subs
    BY <1>5 DEF SendMessage
  <2>2. \A h \in {<<q>>} : \E x \in Queues : h = <<x>>
    OBVIOUS
  <2> QED BY <2>1, <2>2, OwedInserted
<1>6. ASSUME NEW t \in Topics, SendTopicMessage(t)
      PROVE  OwedInv'
  <2>1. Insert({p \in subs : p[1] = t}) /\ subs' = subs
    BY <1>6 DEF SendTopicMessage
  <2>2. \A h \in {p \in subs : p[1] = t} : h \in Subscriptions
    BY <1>0
  <2> QED BY <2>1, <2>2, OwedInserted
<1>7. ASSUME NEW p \in Subscriptions, CreateSubscription(p[1], p[2])
      PROVE  OwedInv'
  <2>1. subs' = subs \cup {p} /\ messages' = messages /\ owed' = owed
    BY <1>0, <1>7 DEF CreateSubscription
  <2> QED BY <1>0, <2>1, OwedStands
<1>8. CASE owed' = owed /\ DOMAIN messages' = DOMAIN messages /\ subs' = subs
  BY <1>0, <1>8, OwedStands
<1>9. CASE (\E q \in Queues : CreateQueue(q)) \/ (\E t \in Topics : CreateTopic(t))
  BY <1>8, <1>9 DEF CreateQueue, CreateTopic
<1>10. CASE \E c \in Receivers, q \in Existing : StartReceive(c, q)
  BY <1>8, <1>10 DEF StartReceive, tables
<1>11. CASE \E c \in Receivers, lim \in Limits : ReceiveMessages(c, lim)
  BY <1>8, <1>11 DEF ReceiveMessages
<1>12. CASE \E m \in known : AbandonMessage(m) \/ DeadletterMessage(m)
  BY <1>8, <1>12 DEF AbandonMessage, DeadletterMessage, Settle
<1>13. CASE Restart \/ UNCHANGED vars
  BY <1>8, <1>13 DEF Restart, tables, vars
<1> QED BY <1>1, <1>2, <1>3, <1>4, <1>5, <1>6, <1>7, <1>9, <1>10, <1>11, <1>12, <1>13 DEF Next

\* A message stays with the queue, or with every subscription, it was sent to until it is
\* completed or that very queue, subscription or topic is deleted, as long as no queue and no
\* topic has a name with the part "sub": then the prefix by which delete_topic deletes is one
\* of the virtual queues of its own subscriptions only (subscription_queue, delete_topic).
THEOREM Keeps == PlainNames => (Spec => []KeptUntilCompleted)
<1> SUFFICES ASSUME PlainNames PROVE Spec => []KeptUntilCompleted
  OBVIOUS
<1>1. Init => OwedInv
  BY DEF Init, OwedInv
<1>2. OwedInv /\ [Next]_vars => OwedInv'
  BY OwedStep
<1>3. OwedInv => KeptUntilCompleted
  BY DEF OwedInv, KeptUntilCompleted
<1> QED BY <1>1, <1>2, <1>3, PTL DEF Spec
====
