---------------------------- MODULE PubSubProofs ----------------------------
(* Theorems about PubSub: its table of copies implements Delivery, a copy is *)
(* kept until it is acknowledged, and a subscription starts empty.           *)
EXTENDS PubSub, TLAPS

\* What the proofs need of the tables.
RowsOK ==
    /\ nextMessage \in Nat \ {0}
    /\ made \subseteq Subscriptions \X Nat
    /\ \A a \in made : a[2] < nextMessage
    /\ DOMAIN ackables \subseteq made
    /\ \A a \in DOMAIN ackables : ackables[a] \in AckRows
    /\ DOMAIN subs \subseteq Subscriptions
    /\ \A s \in DOMAIN subs :
          subs[s] \in SubRows /\ subs[s].since <= nextMessage

LEMMA InitRows == Init => RowsOK
BY DEF Init, RowsOK

\* The clamp of create_subscription leaves no lease of zero seconds.
LEMMA DeadlinePositive ==
    ASSUME NEW d \in DeadlineInputs
    PROVE  AckDeadline(d) \in Nat \ {0}
BY PubSubConstants DEF AckDeadline

\* The steps that leave the copies alone.
LEMMA Standing ==
    ASSUME UNCHANGED <<ackables, made>>
    PROVE  UNCHANGED D!vars
<1>1. Waiting' = Waiting /\ Leased' = Leased
  BY DEF Waiting, Leased
<1> QED BY <1>1 DEF D!vars

LEMMA Creating ==
    ASSUME RowsOK, NEW s \in Subscriptions, NEW t \in Topics, NEW d \in DeadlineInputs,
           CreateSubscription(s, t, d)
    PROVE  RowsOK' /\ UNCHANGED D!vars
<1>1. /\ DOMAIN subs' = DOMAIN subs \cup {s}
      /\ subs'[s] = [topic |-> t, ack_deadline_seconds |-> AckDeadline(d),
                     since |-> nextMessage]
      /\ \A x \in DOMAIN subs : x # s => subs'[x] = subs[x]
      /\ UNCHANGED <<ackables, nextMessage, made>>
  BY DEF CreateSubscription
<1>2. subs'[s] \in SubRows
  BY <1>1, DeadlinePositive DEF SubRows, RowsOK
<1>3. RowsOK'
  BY <1>1, <1>2 DEF RowsOK
<1> QED BY <1>1, <1>3, Standing

LEMMA Deleting ==
    ASSUME RowsOK, NEW s \in Subscriptions, DeleteSubscription(s)
    PROVE  RowsOK' /\ D!End
<1>1. /\ DOMAIN subs' \subseteq DOMAIN subs
      /\ \A x \in DOMAIN subs' : subs'[x] = subs[x]
      /\ UNCHANGED <<nextMessage, made>>
  BY DEF DeleteSubscription, DropSubscription, Restrict
<1>2. /\ DOMAIN ackables' \subseteq DOMAIN ackables
      /\ \A a \in DOMAIN ackables' : ackables'[a] = ackables[a]
  BY DEF DeleteSubscription, Without, Restrict
<1>3. RowsOK'
  BY <1>1, <1>2 DEF RowsOK
<1>4. Waiting' \subseteq Waiting /\ Leased' \subseteq Leased
  BY <1>2 DEF Waiting, Leased
<1>5. \A a \in Waiting' \cup Leased' : ackables'[a] = ackables[a] /\ a \in Waiting \cup Leased
  BY <1>2, <1>4 DEF Waiting, Leased
<1>6. D!Counted({})
  BY <1>1, <1>5 DEF D!Counted
<1> QED BY <1>1, <1>3, <1>4, <1>6 DEF D!End

LEMMA CrashingDelete ==
    ASSUME RowsOK, NEW s \in Subscriptions, CrashInDelete(s)
    PROVE  RowsOK' /\ UNCHANGED D!vars
<1>1. /\ DOMAIN subs' \subseteq DOMAIN subs
      /\ \A x \in DOMAIN subs' : subs'[x] = subs[x]
      /\ UNCHANGED <<nextMessage, made, ackables>>
  BY DEF CrashInDelete, DropSubscription, Restrict
<1> QED BY <1>1, Standing DEF RowsOK

LEMMA Publishing ==
    ASSUME RowsOK, NEW t \in Topics, NEW n \in Batches, Publish(t, n)
    PROVE  RowsOK' /\ D!Publish
<1> DEFINE copies == {s \in DOMAIN subs : subs[s].topic = t}
                        \X (nextMessage .. (nextMessage + n - 1))
           fresh == [acked |-> FALSE, lease |-> 0, delivery_attempt |-> 0]
<1>1. n \in Nat \ {0}
  BY PubSubConstants
<1>2. /\ copies \subseteq Subscriptions \X Nat
      /\ \A a \in copies : a \notin made /\ a[2] < nextMessage + n
  BY <1>1 DEF RowsOK
<1>3. fresh \in AckRows /\ ~fresh.acked /\ fresh.lease = 0 /\ fresh.delivery_attempt = 0
  BY DEF AckRows
<1>4. /\ ackables' = [a \in DOMAIN ackables \cup copies |->
                         IF a \in copies THEN fresh ELSE ackables[a]]
      /\ made' = made \cup copies
      /\ nextMessage' = nextMessage + n
      /\ UNCHANGED subs
  BY DEF Publish
<1> HIDE DEF copies, fresh
<1>5. RowsOK'
  <2>1. nextMessage' \in Nat \ {0} /\ nextMessage <= nextMessage'
    BY <1>1, <1>4 DEF RowsOK
  <2>2. made' \subseteq Subscriptions \X Nat /\ DOMAIN ackables' \subseteq made'
    BY <1>2, <1>4 DEF RowsOK
  <2>3. \A a \in made : a[2] \in Nat
    BY DEF RowsOK
  <2>4. \A a \in made' : a[2] < nextMessage'
    BY <1>1, <1>2, <1>4, <2>3 DEF RowsOK
  <2>5. \A a \in DOMAIN ackables' : ackables'[a] \in AckRows
    BY <1>3, <1>4 DEF RowsOK
  <2>6. DOMAIN subs' \subseteq Subscriptions
        /\ \A s \in DOMAIN subs' : subs'[s] \in SubRows /\ subs'[s].since <= nextMessage'
    BY <1>1, <1>4 DEF RowsOK, SubRows
  <2> QED BY <2>1, <2>2, <2>4, <2>5, <2>6 DEF RowsOK
<1>6. made' \ made = copies
  BY <1>2, <1>4
<1>7. Waiting' = Waiting \cup copies /\ Leased' = Leased
  BY <1>2, <1>3, <1>4 DEF Waiting, Leased, RowsOK
<1>8. \A a \in Waiting \cup Leased : a \in DOMAIN ackables /\ a \in made /\ a \notin copies
  BY <1>2 DEF Waiting, Leased, RowsOK
<1>9. D!Counted({})
  BY <1>3, <1>4, <1>6, <1>7, <1>8 DEF D!Counted
<1> QED BY <1>4, <1>5, <1>6, <1>7, <1>9 DEF D!Publish

LEMMA Pulling ==
    ASSUME RowsOK, NEW s \in Subscriptions, NEW max \in Limits, Pull(s, max)
    PROVE  RowsOK' /\ D!HandOut
<1> DEFINE got == {a \in Deliverable(s) :
                      Cardinality({b \in Deliverable(s) : b[2] < a[2]}) < max}
           pulled(a) == [acked |-> ackables[a].acked,
                         lease |-> subs[s].ack_deadline_seconds,
                         delivery_attempt |-> ackables[a].delivery_attempt + 1]
<1>1. /\ ackables' = [a \in DOMAIN ackables |->
                         IF a \in got THEN pulled(a) ELSE ackables[a]]
      /\ UNCHANGED <<subs, nextMessage, made>>
  BY DEF Pull
<1>2. got \subseteq Waiting
  BY DEF Deliverable, Waiting
<1>3. subs[s].ack_deadline_seconds \in Nat \ {0}
  BY DEF Pull, RowsOK, SubRows
<1>4. \A a \in DOMAIN ackables :
         /\ pulled(a) \in AckRows
         /\ pulled(a).lease > 0
         /\ pulled(a).acked = ackables[a].acked
         /\ pulled(a).delivery_attempt = ackables[a].delivery_attempt + 1
  BY <1>3 DEF RowsOK, AckRows
<1> HIDE DEF got, pulled
<1>5. RowsOK'
  BY <1>1, <1>4 DEF RowsOK
<1>6. Waiting' = Waiting \ got /\ Leased' = Leased \cup got
  BY <1>1, <1>2, <1>4 DEF Waiting, Leased
<1>7. Waiting \ Waiting' = got
  BY <1>2, <1>6
<1>8. \A a \in Waiting \cup Leased : a \in DOMAIN ackables
  BY DEF Waiting, Leased
<1>9. D!Counted(Waiting \ Waiting')
  BY <1>1, <1>2, <1>4, <1>6, <1>7, <1>8 DEF D!Counted
<1> QED BY <1>1, <1>5, <1>6, <1>7, <1>9 DEF D!HandOut

LEMMA Acknowledging ==
    ASSUME RowsOK, NEW s, NEW m, Acknowledge(s, m)
    PROVE  RowsOK' /\ D!End
<1> DEFINE hit == {a \in DOMAIN ackables : Named(s, a) /\ a[2] = m}
           over(a) == [ackables[a] EXCEPT !.acked = TRUE]
<1>1. /\ ackables' = [a \in DOMAIN ackables |->
                         IF a \in hit THEN over(a) ELSE ackables[a]]
      /\ UNCHANGED <<subs, nextMessage, made>>
  BY DEF Acknowledge
<1>2. \A a \in DOMAIN ackables : over(a) \in AckRows /\ over(a).acked
  BY DEF RowsOK, AckRows
<1> HIDE DEF hit, over
<1>3. RowsOK'
  BY <1>1, <1>2 DEF RowsOK
<1>4. \A a \in Waiting' \cup Leased' : ackables'[a] = ackables[a] /\ a \in DOMAIN ackables
  BY <1>1, <1>2 DEF Waiting, Leased
<1>5. Waiting' \subseteq Waiting /\ Leased' \subseteq Leased
  BY <1>4 DEF Waiting, Leased
<1>6. D!Counted({})
  BY <1>1, <1>4, <1>5 DEF D!Counted
<1> QED BY <1>1, <1>3, <1>5, <1>6 DEF D!End

\* Leases only move between nothing and something.
LEMMA Leasing ==
    ASSUME RowsOK, UNCHANGED <<subs, nextMessage, made>>,
           NEW hit \in SUBSET DOMAIN ackables, NEW lease,
           \A a \in hit : lease[a] \in Nat,
           ackables' = [a \in DOMAIN ackables |->
              IF a \in hit THEN [ackables[a] EXCEPT !.lease = lease[a]] ELSE ackables[a]]
    PROVE  /\ RowsOK'
           /\ Waiting' \cup Leased' = Waiting \cup Leased
           /\ (\A a \in hit : lease[a] <= ackables[a].lease) => D!ComeBack
           /\ (\A a \in hit : lease[a] > 0) => D!Retake
<1>1. \A a \in DOMAIN ackables :
         /\ ackables'[a] \in AckRows
         /\ ackables'[a].acked = ackables[a].acked
         /\ ackables'[a].delivery_attempt = ackables[a].delivery_attempt
         /\ ackables'[a].lease = IF a \in hit THEN lease[a] ELSE ackables[a].lease
  BY DEF RowsOK, AckRows
<1>2. DOMAIN ackables' = DOMAIN ackables
  OBVIOUS
<1>3. RowsOK'
  BY <1>1, <1>2 DEF RowsOK
<1>4. \A a \in DOMAIN ackables : ackables[a].lease \in Nat /\ ackables'[a].lease \in Nat
  BY <1>1 DEF RowsOK, AckRows
<1>5. /\ Waiting' \cup Leased' = Waiting \cup Leased
      /\ Waiting \cap Leased = {} /\ Waiting' \cap Leased' = {}
  BY <1>1, <1>2, <1>4 DEF Waiting, Leased
<1>6. \A a \in Waiting \cup Leased : a \in DOMAIN ackables
  BY DEF Waiting, Leased
<1>7. D!Counted({})
  BY <1>1, <1>2, <1>5, <1>6 DEF D!Counted
<1>8. ASSUME \A a \in hit : lease[a] <= ackables[a].lease PROVE D!ComeBack
  <2>1. Leased' \subseteq Leased
    BY <1>1, <1>2, <1>4, <1>8 DEF Leased
  <2>2. Waiting' = Waiting \cup (Leased \ Leased')
    BY <1>5, <2>1
  <2> QED BY <1>7, <2>1, <2>2 DEF D!ComeBack
<1>9. ASSUME \A a \in hit : lease[a] > 0 PROVE D!Retake
  <2>1. Waiting' \subseteq Waiting
    BY <1>1, <1>2, <1>4, <1>9 DEF Waiting
  <2>2. Leased' = Leased \cup (Waiting \ Waiting')
    BY <1>5, <2>1
  <2> QED BY <1>7, <2>1, <2>2 DEF D!Retake
<1> QED BY <1>3, <1>5, <1>8, <1>9

LEMMA Modifying ==
    ASSUME RowsOK, NEW s, NEW m, NEW seconds, ModifyAckDeadline(s, m, seconds)
    PROVE  RowsOK' /\ D!Next
<1> DEFINE hit == {a \in DOMAIN ackables : Named(s, a) /\ a[2] = m /\ ~ackables[a].acked}
           lease == [a \in hit |-> seconds]
<1>1. /\ ackables' = [a \in DOMAIN ackables |->
            IF a \in hit THEN [ackables[a] EXCEPT !.lease = seconds] ELSE ackables[a]]
      /\ seconds \in Nat
      /\ UNCHANGED <<subs, nextMessage, made>>
  BY PubSubConstants DEF ModifyAckDeadline
<1>2. hit \in SUBSET DOMAIN ackables
  OBVIOUS
<1> HIDE DEF hit
<1>3. \A a \in hit : lease[a] = seconds
  OBVIOUS
<1>4. ackables' = [a \in DOMAIN ackables |->
            IF a \in hit THEN [ackables[a] EXCEPT !.lease = lease[a]] ELSE ackables[a]]
  BY <1>1, <1>3
<1> HIDE DEF lease
<1>5. /\ RowsOK'
      /\ (\A a \in hit : lease[a] <= ackables[a].lease) => D!ComeBack
      /\ (\A a \in hit : lease[a] > 0) => D!Retake
  BY <1>1, <1>2, <1>3, <1>4, Leasing
<1>6. \A a \in hit : ackables[a].lease \in Nat
  BY <1>2 DEF RowsOK, AckRows
<1> QED BY <1>1, <1>3, <1>5, <1>6 DEF D!Next

LEMMA Ticking ==
    ASSUME RowsOK, Tick
    PROVE  RowsOK' /\ D!ComeBack
<1> DEFINE hit == {a \in DOMAIN ackables : ackables[a].lease > 0}
           lease == [a \in hit |-> ackables[a].lease - 1]
<1>1. \A a \in hit : lease[a] \in Nat /\ lease[a] <= ackables[a].lease
  BY DEF RowsOK, AckRows
<1>2. /\ ackables' = [a \in DOMAIN ackables |->
            IF a \in hit THEN [ackables[a] EXCEPT !.lease = lease[a]] ELSE ackables[a]]
      /\ UNCHANGED <<subs, nextMessage, made>>
  BY DEF Tick
<1>3. hit \in SUBSET DOMAIN ackables
  OBVIOUS
<1> HIDE DEF hit, lease
<1> QED BY <1>1, <1>2, <1>3, Leasing

LEMMA StepRows ==
    ASSUME RowsOK, [Next]_vars
    PROVE  RowsOK' /\ [D!Next]_(D!vars)
<1>1. CASE \E t \in Topics : CreateTopic(t) \/ DeleteTopic(t)
  BY <1>1, Standing DEF CreateTopic, DeleteTopic, RowsOK
<1>2. CASE \E t \in Topics, n \in Batches : Publish(t, n)
  BY <1>2, Publishing DEF D!Next
<1>3. CASE \E s \in Subscriptions, t \in Topics, d \in DeadlineInputs :
              CreateSubscription(s, t, d)
  BY <1>3, Creating
<1>4. CASE \E s \in Subscriptions : DeleteSubscription(s)
  BY <1>4, Deleting DEF D!Next
<1>5. CASE \E s \in Subscriptions : CrashInDelete(s)
  BY <1>5, CrashingDelete
<1>6. CASE \E s \in Subscriptions, max \in Limits : Pull(s, max)
  BY <1>6, Pulling DEF D!Next
<1>7. CASE \E s \in Subscriptions, m \in 1 .. (nextMessage - 1) : Acknowledge(s, m)
  BY <1>7, Acknowledging DEF D!Next
<1>8. CASE \E s \in Subscriptions, m \in 1 .. (nextMessage - 1),
              seconds \in DeadlineInputs \ {None} : ModifyAckDeadline(s, m, seconds)
  BY <1>8, Modifying
<1>9. CASE Tick
  BY <1>9, Ticking DEF D!Next
<1>10. CASE UNCHANGED vars
  BY <1>10, Standing DEF vars, RowsOK
<1> QED
  BY <1>1, <1>2, <1>3, <1>4, <1>5, <1>6, <1>7, <1>8, <1>9, <1>10 DEF Next

\* The copies implement Delivery for any number of subscriptions, messages and
\* seconds: a leased one is pulled by nobody else, an acknowledged one never again.
THEOREM Implements == Spec => AtLeastOnce
<1>1. Init => D!Init
  BY DEF Init, D!Init, Waiting, Leased
<1>2. RowsOK /\ [Next]_vars => RowsOK' /\ [D!Next]_(D!vars)
  BY StepRows
<1> QED BY InitRows, <1>1, <1>2, PTL DEF Spec, AtLeastOnce, D!Spec

-----------------------------------------------------------------------------
(* What a subscription has *)

LEMMA StepKept ==
    ASSUME RowsOK, RowsOK', KeptUntilAcknowledged, OnlySinceCreated, [Next]_vars
    PROVE  KeptUntilAcknowledged' /\ OnlySinceCreated'
<1> USE DEF KeptUntilAcknowledged, OnlySinceCreated
<1>1. CASE \E t \in Topics : CreateTopic(t) \/ DeleteTopic(t)
  BY <1>1 DEF CreateTopic, DeleteTopic
<1>2. CASE \E t \in Topics, n \in Batches : Publish(t, n)
  <2> PICK t \in Topics, n \in Batches : Publish(t, n)
    BY <1>2
  <2> DEFINE copies == {s \in DOMAIN subs : subs[s].topic = t}
                        \X (nextMessage .. (nextMessage + n - 1))
  <2>1. n \in Nat \ {0}
    BY PubSubConstants
  <2>2. \A a \in copies : a[1] \in DOMAIN subs /\ subs[a[1]].since <= a[2]
    BY <2>1 DEF RowsOK, SubRows
  <2>3. /\ DOMAIN ackables' = DOMAIN ackables \cup copies
        /\ \A a \in DOMAIN ackables' :
              IF a \in copies THEN ~ackables'[a].acked ELSE ackables'[a] = ackables[a]
        /\ owed' = owed \cup copies
        /\ UNCHANGED <<subs, torn>>
    BY DEF Publish
  <2> HIDE DEF copies
  <2> QED BY <2>2, <2>3
<1>3. CASE \E s \in Subscriptions, t \in Topics, d \in DeadlineInputs :
              CreateSubscription(s, t, d)
  BY <1>3 DEF CreateSubscription
<1>4. CASE \E s \in Subscriptions : DeleteSubscription(s)
  BY <1>4 DEF DeleteSubscription, DropSubscription, Without, Restrict
<1>5. CASE \E s \in Subscriptions : CrashInDelete(s)
  BY <1>5 DEF CrashInDelete, DropSubscription, Restrict
<1>6. CASE \E s \in Subscriptions, max \in Limits : Pull(s, max)
  <2> PICK s \in Subscriptions, max \in Limits : Pull(s, max)
    BY <1>6
  <2>1. DOMAIN ackables' = DOMAIN ackables /\ UNCHANGED <<subs, owed, torn>>
    BY DEF Pull
  <2>2. \A a \in DOMAIN ackables : ackables'[a].acked = ackables[a].acked
    BY DEF Pull
  <2> QED BY <2>1, <2>2
<1>7. CASE \E s \in Subscriptions, m \in 1 .. (nextMessage - 1) : Acknowledge(s, m)
  <2> PICK s \in Subscriptions, m \in 1 .. (nextMessage - 1) : Acknowledge(s, m)
    BY <1>7
  <2>1. /\ DOMAIN ackables' = DOMAIN ackables /\ UNCHANGED <<subs, torn>>
        /\ owed' = owed \ {<<s, m>>}
    BY DEF Acknowledge
  <2>2. \A a \in DOMAIN ackables : a # <<s, m>> => ackables'[a] = ackables[a]
    BY DEF Acknowledge, Named, RowsOK
  <2> QED BY <2>1, <2>2
<1>8. CASE \E s \in Subscriptions, m \in 1 .. (nextMessage - 1),
              seconds \in DeadlineInputs \ {None} : ModifyAckDeadline(s, m, seconds)
  <2>1. DOMAIN ackables' = DOMAIN ackables /\ UNCHANGED <<subs, owed, torn>>
    BY <1>8 DEF ModifyAckDeadline
  <2>2. \A a \in DOMAIN ackables : ackables'[a].acked = ackables[a].acked
    BY <1>8 DEF ModifyAckDeadline, RowsOK, AckRows
  <2> QED BY <2>1, <2>2
<1>9. CASE Tick
  <2>1. DOMAIN ackables' = DOMAIN ackables /\ UNCHANGED <<subs, owed, torn>>
    BY <1>9 DEF Tick
  <2>2. \A a \in DOMAIN ackables : ackables'[a].acked = ackables[a].acked
    BY <1>9 DEF Tick, RowsOK, AckRows
  <2> QED BY <2>1, <2>2
<1>10. CASE UNCHANGED vars
  BY <1>10 DEF vars
<1> QED
  BY <1>1, <1>2, <1>3, <1>4, <1>5, <1>6, <1>7, <1>8, <1>9, <1>10 DEF Next

LEMMA Invariants == Spec => [](RowsOK /\ KeptUntilAcknowledged /\ OnlySinceCreated)
<1>1. Init => KeptUntilAcknowledged /\ OnlySinceCreated
  BY DEF Init, KeptUntilAcknowledged, OnlySinceCreated
<1>2. RowsOK /\ KeptUntilAcknowledged /\ OnlySinceCreated /\ [Next]_vars
         => (RowsOK /\ KeptUntilAcknowledged /\ OnlySinceCreated)'
  BY StepRows, StepKept
<1> QED BY InitRows, <1>1, <1>2, PTL DEF Spec

\* Fan-out: no subscription loses a copy to another's acknowledgement, to a late or
\* repeated one, or to the deletion of the topic; and it starts with what is published
\* after its creation, except where a crash cut a deletion of its name short.
THEOREM FanOut == Spec => []SubscriptionHolds
<1>1. KeptUntilAcknowledged /\ OnlySinceCreated => SubscriptionHolds
  BY DEF SubscriptionHolds
<1> QED BY <1>1, Invariants, PTL

=============================================================================
