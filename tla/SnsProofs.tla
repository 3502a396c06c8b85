----------------------------- MODULE SnsProofs -----------------------------
(***************************************************************************)
(* Theorems about SNS and S3 event notifications, for every number of      *)
(* clients, topics, queues and messages.                                   *)
(***************************************************************************)
EXTENDS Notify, FiniteSetTheorems, TLAPS

-----------------------------------------------------------------------------
(* The shape of the tables and of the requests *)

TopicRow(row, made) ==
    /\ DOMAIN row = {"attrs", "fifo_seq", "born"}
    /\ row.fifo_seq \in Nat /\ row.born \in Nat /\ row.born < made.topics

SubRow(s, row, made) ==
    /\ DOMAIN row = {"topic", "born", "endpoint", "filter", "redrive"}
    /\ s \in Nat /\ s <= made.subs

InfoRow(m, row, made) ==
    /\ DOMAIN row = {"topic", "born", "seq", "passes", "earlier", "tried", "due"}
    /\ m \in Nat /\ m <= made.messages /\ row.seq \in Nat

Fanning == {"fan", "redrive"}
Publishing == {"sequence", "list"} \cup Fanning

Shape(r) ==
    \/ r = SnsIdle
    \/ r.at = "create" /\ DOMAIN r = {"at", "topic"}
    \/ r.at = "attribute" /\ DOMAIN r = {"at", "topic", "name", "overtaken", "attrs"}
       /\ r.overtaken \in BOOLEAN
    \/ r.at = "look" /\ DOMAIN r = {"at", "topic", "born", "endpoint"}
    \/ r.at = "insert" /\ DOMAIN r = {"at", "topic", "born", "endpoint", "made"}
    \/ r.at \in {"sequence", "list"} /\ DOMAIN r = {"at", "id", "topic", "passes"}
    \/ r.at \in Fanning /\ DOMAIN r = {"at", "id", "topic", "passes", "rest", "delivered", "to"}

ShapeInv ==
    /\ DOMAIN snsReq = SnsClients
    /\ snsMade \in [topics : Nat, subs : Nat, messages : Nat]
    /\ \A x \in DOMAIN snsTopics : TopicRow(snsTopics[x], snsMade)
    /\ \A s \in DOMAIN snsSubs : SubRow(s, snsSubs[s], snsMade)
    /\ \A m \in DOMAIN snsInfo : InfoRow(m, snsInfo[m], snsMade)
    /\ \A c \in SnsClients : Shape(snsReq[c])
    /\ \A c \in SnsClients : snsReq[c].at \in Publishing => snsReq[c].id \in DOMAIN snsInfo

\* The request of one client goes on.
LEMMA ReqGoes ==
    ASSUME DOMAIN snsReq = SnsClients, NEW c \in SnsClients, NEW x, SnsGo(c, x)
    PROVE  DOMAIN snsReq' = SnsClients
           /\ \A d \in SnsClients : snsReq'[d] = IF d = c THEN x ELSE snsReq[d]
  BY DEF SnsGo

\* What is counted grows.
LEMMA MadeGrows ==
    ASSUME snsMade \in [topics : Nat, subs : Nat, messages : Nat],
           NEW what \in {"topics", "subs", "messages"}, snsMade' = Counted(what)
    PROVE  /\ snsMade' \in [topics : Nat, subs : Nat, messages : Nat]
           /\ snsMade'.topics = IF what = "topics" THEN snsMade.topics + 1 ELSE snsMade.topics
           /\ snsMade'.subs = IF what = "subs" THEN snsMade.subs + 1 ELSE snsMade.subs
           /\ snsMade'.messages = IF what = "messages" THEN snsMade.messages + 1 ELSE snsMade.messages
  BY DEF Counted

\* The rows of messages keep their shape when what is due is taken back.
LEMMA InfoDue ==
    ASSUME ShapeInv, NEW gone, NoLongerDue(gone)
    PROVE  /\ DOMAIN snsInfo' = DOMAIN snsInfo
           /\ \A m \in DOMAIN snsInfo :
                 /\ DOMAIN snsInfo'[m] = DOMAIN snsInfo[m]
                 /\ snsInfo'[m].topic = snsInfo[m].topic /\ snsInfo'[m].born = snsInfo[m].born
                 /\ snsInfo'[m].seq = snsInfo[m].seq /\ snsInfo'[m].passes = snsInfo[m].passes
                 /\ snsInfo'[m].earlier = snsInfo[m].earlier /\ snsInfo'[m].tried = snsInfo[m].tried
                 /\ snsInfo'[m].due = snsInfo[m].due \ gone
  <1>1. snsInfo' = [m \in DOMAIN snsInfo |-> [snsInfo[m] EXCEPT !.due = snsInfo[m].due \ gone]]
    BY DEF NoLongerDue
  <1>2. \A m \in DOMAIN snsInfo :
           DOMAIN snsInfo[m] = {"topic", "born", "seq", "passes", "earlier", "tried", "due"}
    BY DEF ShapeInv, InfoRow
  <1> QED
    BY <1>1, <1>2

\* Requests that were overtaken know it, and nothing else changes about them.
LEMMA Overtaken ==
    ASSUME ShapeInv, NEW b, NEW topic, snsReq' = Overtake(b, topic)
    PROVE  /\ DOMAIN snsReq' = SnsClients
           /\ \A d \in SnsClients :
                 /\ Shape(snsReq'[d])
                 /\ d = b => snsReq'[d] = SnsIdle
                 /\ d # b /\ snsReq[d].at # "attribute" => snsReq'[d] = snsReq[d]
                 /\ d # b /\ snsReq[d].at = "attribute" =>
                       LET r == snsReq[d] IN
                       /\ snsReq'[d].at = "attribute" /\ snsReq'[d].topic = r.topic
                       /\ snsReq'[d].name = r.name /\ snsReq'[d].attrs = r.attrs
                       /\ snsReq'[d].overtaken = (r.overtaken \/ r.topic = topic)
  <1> SUFFICES ASSUME NEW d \in SnsClients
               PROVE  /\ Shape(snsReq'[d])
                      /\ d = b => snsReq'[d] = SnsIdle
                      /\ d # b /\ snsReq[d].at # "attribute" => snsReq'[d] = snsReq[d]
                      /\ d # b /\ snsReq[d].at = "attribute" =>
                            LET r == snsReq[d] IN
                            /\ snsReq'[d].at = "attribute" /\ snsReq'[d].topic = r.topic
                            /\ snsReq'[d].name = r.name /\ snsReq'[d].attrs = r.attrs
                            /\ snsReq'[d].overtaken = (r.overtaken \/ r.topic = topic)
    BY DEF Overtake
  <1> DEFINE r == snsReq[d]
             x == [r EXCEPT !.overtaken = TRUE]
  <1>1. snsReq'[d] = IF d = b THEN SnsIdle
                     ELSE IF r.at = "attribute" /\ r.topic = topic THEN x ELSE r
    BY DEF Overtake
  <1>2. Shape(r)
    BY DEF ShapeInv
  <1>3. CASE d = b
    BY <1>1, <1>3 DEF Shape
  <1>4. CASE d # b /\ r.at # "attribute"
    BY <1>1, <1>2, <1>4
  <1>5. CASE d # b /\ r.at = "attribute"
    <2>1. DOMAIN r = {"at", "topic", "name", "overtaken", "attrs"} /\ r.overtaken \in BOOLEAN
      BY <1>2, <1>5 DEF Shape, SnsIdle, Fanning
    <2>2. /\ DOMAIN x = DOMAIN r /\ x.at = "attribute" /\ x.topic = r.topic /\ x.name = r.name
          /\ x.attrs = r.attrs /\ x.overtaken = TRUE
      BY <2>1, <1>5
    <2> HIDE DEF x, r
    <2>3. Shape(x)
      BY <2>1, <2>2 DEF Shape
    <2>4. CASE r.topic = topic
      BY <2>1, <2>2, <2>3, <2>4, <1>1, <1>5 DEF r
    <2>5. CASE r.topic # topic
      BY <2>1, <2>5, <1>1, <1>2, <1>5 DEF r
    <2> QED
      BY <2>4, <2>5
  <1> QED
    BY <1>3, <1>4, <1>5

\* NextSequence, field by field.
LEMMA SequenceTaken ==
    ASSUME ShapeInv, NEW c \in SnsClients, NextSequence(c), snsReq[c].id \in DOMAIN snsInfo,
           snsReq[c].topic \in DOMAIN snsTopics
    PROVE  LET r == snsReq[c] IN
           /\ snsReq'[c].at = "list" /\ DOMAIN snsReq'[c] = {"at", "id", "topic", "passes"}
           /\ snsReq'[c].id = r.id /\ snsReq'[c].topic = r.topic /\ snsReq'[c].passes = r.passes
           /\ DOMAIN snsTopics' = DOMAIN snsTopics /\ DOMAIN snsInfo' = DOMAIN snsInfo
           /\ \A x \in DOMAIN snsTopics :
                 /\ DOMAIN snsTopics'[x] = DOMAIN snsTopics[x]
                 /\ snsTopics'[x].attrs = snsTopics[x].attrs /\ snsTopics'[x].born = snsTopics[x].born
                 /\ snsTopics'[x].fifo_seq =
                       IF x = r.topic THEN snsTopics[x].fifo_seq + 1 ELSE snsTopics[x].fifo_seq
           /\ \A m \in DOMAIN snsInfo \ {r.id} : snsInfo'[m] = snsInfo[m]
           /\ LET i == snsInfo[r.id] j == snsInfo'[r.id] IN
                 /\ DOMAIN j = DOMAIN i /\ j.topic = i.topic /\ j.passes = i.passes
                 /\ j.earlier = i.earlier /\ j.tried = i.tried /\ j.due = i.due
                 /\ j.seq = snsTopics[r.topic].fifo_seq + 1 /\ j.born = snsTopics[r.topic].born
  <1> DEFINE r == snsReq[c]
             row == snsTopics[r.topic]
             new == [row EXCEPT !.fifo_seq = row.fifo_seq + 1]
             i == snsInfo[r.id]
             j == [i EXCEPT !.seq = new.fifo_seq, !.born = row.born]
             x == [r EXCEPT !.at = "list"]
  <1>1. r.at = "sequence" /\ DOMAIN r = {"at", "id", "topic", "passes"}
    BY DEF NextSequence, ShapeInv, Shape, SnsIdle, Fanning
  <1>2. snsTopics' = [snsTopics EXCEPT ![r.topic] = new]
    BY DEF NextSequence, Increased
  <1>3. snsTopics'[r.topic] = new
    BY <1>2
  <1>4. snsReq' = [snsReq EXCEPT ![c] = x] /\ snsInfo' = [snsInfo EXCEPT ![r.id] = j]
    BY <1>3 DEF NextSequence, SnsGo
  <1>5. DOMAIN row = {"attrs", "fifo_seq", "born"}
    BY DEF ShapeInv, TopicRow
  <1>6. DOMAIN i = {"topic", "born", "seq", "passes", "earlier", "tried", "due"}
    BY DEF ShapeInv, InfoRow
  <1>7. /\ DOMAIN new = DOMAIN row /\ new.attrs = row.attrs /\ new.born = row.born
        /\ new.fifo_seq = row.fifo_seq + 1
    BY <1>5
  <1>8. /\ DOMAIN x = DOMAIN r /\ x.at = "list" /\ x.id = r.id /\ x.topic = r.topic /\ x.passes = r.passes
        /\ snsReq'[c] = x
    BY <1>1, <1>4 DEF ShapeInv
  <1> HIDE DEF new, x
  <1>9. /\ DOMAIN j = DOMAIN i /\ j.topic = i.topic /\ j.passes = i.passes /\ j.earlier = i.earlier
        /\ j.tried = i.tried /\ j.due = i.due /\ j.seq = new.fifo_seq /\ j.born = row.born
        /\ snsInfo'[r.id] = j
    BY <1>4, <1>6
  <1>10. /\ DOMAIN snsInfo' = DOMAIN snsInfo
         /\ \A m \in DOMAIN snsInfo \ {r.id} : snsInfo'[m] = snsInfo[m]
    BY <1>4
  <1>11. /\ DOMAIN snsTopics' = DOMAIN snsTopics
         /\ \A y \in DOMAIN snsTopics : snsTopics'[y] = IF y = r.topic THEN new ELSE snsTopics[y]
    BY <1>2
  <1> HIDE DEF j
  <1>12. \A y \in DOMAIN snsTopics :
                 /\ DOMAIN snsTopics'[y] = DOMAIN snsTopics[y]
                 /\ snsTopics'[y].attrs = snsTopics[y].attrs /\ snsTopics'[y].born = snsTopics[y].born
                 /\ snsTopics'[y].fifo_seq =
                       IF y = r.topic THEN snsTopics[y].fifo_seq + 1 ELSE snsTopics[y].fifo_seq
    BY <1>7, <1>11
  <1> QED
    BY <1>1, <1>7, <1>8, <1>9, <1>10, <1>11, <1>12

\* Deliver, field by field.
LEMMA DeliverDone ==
    ASSUME ShapeInv, NEW c \in SnsClients, NEW s, Deliver(c, s), snsReq[c].id \in DOMAIN snsInfo
    PROVE  LET r == snsReq[c]
               y == snsReq'[c] IN
           /\ r.at = "fan" /\ s \in DOMAIN r.rest
           /\ DOMAIN snsReq' = SnsClients /\ \A d \in SnsClients \ {c} : snsReq'[d] = snsReq[d]
           /\ y.at \in Fanning /\ DOMAIN y = DOMAIN r /\ Shape(y)
           /\ y.id = r.id /\ y.topic = r.topic /\ y.passes = r.passes
           /\ DOMAIN y.rest = DOMAIN r.rest \ {s}
           /\ \A e \in DOMAIN y.rest : y.rest[e] = r.rest[e]
           /\ DOMAIN snsInfo' = DOMAIN snsInfo
           /\ \A m \in DOMAIN snsInfo \ {r.id} : snsInfo'[m] = snsInfo[m]
           /\ LET i == snsInfo[r.id] j == snsInfo'[r.id] IN
                 /\ DOMAIN j = DOMAIN i /\ j.topic = i.topic /\ j.passes = i.passes /\ j.born = i.born
                 /\ j.earlier = i.earlier /\ j.seq = i.seq /\ j.due = i.due
                 /\ j.tried = IF PassesFilter(r.rest[s], r.passes) THEN i.tried \cup {s} ELSE i.tried
           /\ sqsQueues' = sqsQueues \/ \E q \in DOMAIN sqsQueues : Arrive(q, r.id)
  <1> DEFINE r == snsReq[c]
             sub == r.rest[s]
             left == [r EXCEPT !.rest = Restrict(r.rest, DOMAIN r.rest \ {s})]
             one == [left EXCEPT !.delivered = left.delivered + 1]
             two == [left EXCEPT !.at = "redrive", !.to = sub.redrive]
             i == snsInfo[r.id]
             j == [i EXCEPT !.tried = i.tried \cup {s}]
             y == snsReq'[c]
  <1>1. r.at = "fan" /\ s \in DOMAIN r.rest
    BY DEF Deliver
  <1>2. DOMAIN r = {"at", "id", "topic", "passes", "rest", "delivered", "to"}
    BY <1>1 DEF ShapeInv, Shape, SnsIdle, Fanning
  <1>3. /\ DOMAIN left = DOMAIN r /\ left.at = "fan" /\ left.id = r.id /\ left.topic = r.topic
        /\ left.passes = r.passes /\ left.rest = Restrict(r.rest, DOMAIN r.rest \ {s})
    BY <1>1, <1>2
  <1>4. DOMAIN i = {"topic", "born", "seq", "passes", "earlier", "tried", "due"}
    BY DEF ShapeInv, InfoRow
  <1>5. /\ DOMAIN j = DOMAIN i /\ j.topic = i.topic /\ j.passes = i.passes /\ j.earlier = i.earlier
        /\ j.born = i.born /\ j.seq = i.seq /\ j.due = i.due /\ j.tried = i.tried \cup {s}
    BY <1>4
  <1>6. /\ SnsGo(c, left) \/ SnsGo(c, one) \/ SnsGo(c, two)
        /\ PassesFilter(sub, r.passes) => snsInfo' = [snsInfo EXCEPT ![r.id] = j]
        /\ ~PassesFilter(sub, r.passes) => snsInfo' = snsInfo
        /\ sqsQueues' = sqsQueues \/ \E q \in DOMAIN sqsQueues : Arrive(q, r.id)
    <2>1. CASE ~PassesFilter(sub, r.passes)
      BY <2>1 DEF Deliver
    <2>2. CASE PassesFilter(sub, r.passes) /\ sub.endpoint \in DOMAIN sqsQueues \cup {None}
      BY <2>2 DEF Deliver, Tried
    <2>3. CASE PassesFilter(sub, r.passes) /\ sub.endpoint \notin DOMAIN sqsQueues \cup {None}
      BY <2>3 DEF Deliver, Tried
    <2> QED
      BY <2>1, <2>2, <2>3
  <1> HIDE DEF left
  <1>7. /\ DOMAIN one = DOMAIN r /\ one.at = "fan" /\ one.id = r.id /\ one.topic = r.topic
        /\ one.passes = r.passes /\ one.rest = left.rest
        /\ DOMAIN two = DOMAIN r /\ two.at = "redrive" /\ two.id = r.id /\ two.topic = r.topic
        /\ two.passes = r.passes /\ two.rest = left.rest
    BY <1>2, <1>3
  <1> HIDE DEF one, two
  <1>8. /\ DOMAIN snsReq' = SnsClients /\ \A d \in SnsClients \ {c} : snsReq'[d] = snsReq[d]
        /\ y \in {left, one, two}
    BY <1>6, ReqGoes DEF ShapeInv
  <1>9. /\ y.at \in Fanning /\ DOMAIN y = DOMAIN r /\ y.id = r.id /\ y.topic = r.topic
        /\ y.passes = r.passes /\ y.rest = left.rest
    BY <1>3, <1>7, <1>8 DEF Fanning
  <1>10. Shape(y)
    BY <1>2, <1>9 DEF Shape
  <1>11. DOMAIN left.rest = DOMAIN r.rest \ {s} /\ \A e \in DOMAIN left.rest : left.rest[e] = r.rest[e]
    BY <1>3 DEF Restrict
  <1>12. /\ DOMAIN snsInfo' = DOMAIN snsInfo
         /\ \A m \in DOMAIN snsInfo \ {r.id} : snsInfo'[m] = snsInfo[m]
         /\ snsInfo'[r.id] = IF PassesFilter(sub, r.passes) THEN j ELSE i
    BY <1>6
  <1> HIDE DEF y, j
  <1>13. LET k == snsInfo'[r.id] IN
                 /\ DOMAIN k = DOMAIN i /\ k.topic = i.topic /\ k.passes = i.passes /\ k.born = i.born
                 /\ k.earlier = i.earlier /\ k.seq = i.seq /\ k.due = i.due
                 /\ k.tried = IF PassesFilter(sub, r.passes) THEN i.tried \cup {s} ELSE i.tried
    BY <1>5, <1>12
  <1> QED
    BY <1>1, <1>6, <1>8, <1>9, <1>10, <1>11, <1>12, <1>13 DEF y

\* The beginning of a publish, field by field.
Started(c, topic, m, passes, earlier) ==
    /\ DOMAIN snsReq' = SnsClients /\ \A d \in SnsClients \ {c} : snsReq'[d] = snsReq[d]
    /\ snsReq'[c].at \in {"sequence", "list"} /\ Shape(snsReq'[c]) /\ snsReq'[c].id = m
    /\ snsReq'[c].topic = topic /\ snsReq'[c].passes = passes
    /\ topic \notin FifoTopics => snsReq'[c].at = "list"
    /\ DOMAIN snsInfo' = DOMAIN snsInfo \cup {m}
    /\ \A n \in DOMAIN snsInfo \ {m} : snsInfo'[n] = snsInfo[n]
    /\ DOMAIN snsInfo'[m] = {"topic", "born", "seq", "passes", "earlier", "tried", "due"}
    /\ snsInfo'[m].topic = topic /\ snsInfo'[m].passes = passes
    /\ snsInfo'[m].born = snsTopics[topic].born /\ snsInfo'[m].earlier = earlier
    /\ snsInfo'[m].seq = 0 /\ snsInfo'[m].due = SubsOf(topic) /\ snsInfo'[m].tried = {}

LEMMA PublishStarted ==
    ASSUME ShapeInv, NEW c \in SnsClients, NEW topic, NEW m, NEW passes, NEW earlier,
           StartPublish(c, topic, m, passes, earlier)
    PROVE  Started(c, topic, m, passes, earlier)
  <1> DEFINE y == [at |-> IF topic \in FifoTopics THEN "sequence" ELSE "list",
                   id |-> m, topic |-> topic, passes |-> passes]
             j == [topic |-> topic, born |-> snsTopics[topic].born, seq |-> 0, passes |-> passes,
                   earlier |-> earlier, tried |-> {},
                   due |-> {s \in DOMAIN snsSubs : snsSubs[s].topic = topic}]
  <1>1. SnsGo(c, y) /\ snsInfo' = Record(snsInfo, m, j)
    BY DEF StartPublish
  <1>2. /\ y.at \in {"sequence", "list"} /\ DOMAIN y = {"at", "id", "topic", "passes"}
        /\ y.id = m /\ y.topic = topic /\ y.passes = passes
        /\ topic \notin FifoTopics => y.at = "list"
    OBVIOUS
  <1>3. /\ DOMAIN j = {"topic", "born", "seq", "passes", "earlier", "tried", "due"}
        /\ j.topic = topic /\ j.passes = passes /\ j.born = snsTopics[topic].born
        /\ j.earlier = earlier /\ j.seq = 0 /\ j.due = SubsOf(topic) /\ j.tried = {}
    BY DEF SubsOf
  <1> HIDE DEF y, j
  <1>4. /\ DOMAIN snsReq' = SnsClients /\ snsReq'[c] = y
        /\ \A d \in SnsClients \ {c} : snsReq'[d] = snsReq[d]
    BY <1>1, ReqGoes DEF ShapeInv
  <1>5. /\ DOMAIN snsInfo' = DOMAIN snsInfo \cup {m} /\ snsInfo'[m] = j
        /\ \A n \in DOMAIN snsInfo \ {m} : snsInfo'[n] = snsInfo[n]
    BY <1>1 DEF Record
  <1>6. Shape(y)
    BY <1>2 DEF Shape
  <1> QED
    BY <1>2, <1>3, <1>4, <1>5, <1>6 DEF Started

\* ListSubscriptions and SendToRedrive, field by field.
LEMMA Listed ==
    ASSUME ShapeInv, NEW c \in SnsClients, ListSubscriptions(c)
    PROVE  LET r == snsReq[c]
               y == snsReq'[c] IN
           /\ r.at = "list"
           /\ DOMAIN snsReq' = SnsClients /\ \A d \in SnsClients \ {c} : snsReq'[d] = snsReq[d]
           /\ y.at = "fan" /\ Shape(y) /\ y.id = r.id /\ y.topic = r.topic /\ y.passes = r.passes
           /\ DOMAIN y.rest = SubsOf(r.topic) /\ \A s \in DOMAIN y.rest : y.rest[s] = snsSubs[s]
  <1> DEFINE r == snsReq[c]
             y == [at |-> "fan", id |-> r.id, topic |-> r.topic, passes |-> r.passes,
                   rest |-> Restrict(snsSubs, SubsOf(r.topic)), delivered |-> 0, to |-> None]
  <1>1. r.at = "list" /\ SnsGo(c, y)
    BY DEF ListSubscriptions
  <1>2. /\ DOMAIN y = {"at", "id", "topic", "passes", "rest", "delivered", "to"} /\ y.at = "fan"
        /\ y.id = r.id /\ y.topic = r.topic /\ y.passes = r.passes
        /\ y.rest = Restrict(snsSubs, SubsOf(r.topic))
    OBVIOUS
  <1> HIDE DEF y
  <1>3. /\ DOMAIN snsReq' = SnsClients /\ snsReq'[c] = y
        /\ \A d \in SnsClients \ {c} : snsReq'[d] = snsReq[d]
    BY <1>1, ReqGoes DEF ShapeInv
  <1>4. Shape(y)
    BY <1>2 DEF Shape, Fanning
  <1>5. DOMAIN y.rest = SubsOf(r.topic) /\ \A s \in DOMAIN y.rest : y.rest[s] = snsSubs[s]
    BY <1>2 DEF Restrict
  <1> QED
    BY <1>1, <1>2, <1>3, <1>4, <1>5

LEMMA Redriven ==
    ASSUME ShapeInv, NEW c \in SnsClients, SendToRedrive(c)
    PROVE  LET r == snsReq[c]
               y == snsReq'[c] IN
           /\ r.at = "redrive"
           /\ DOMAIN snsReq' = SnsClients /\ \A d \in SnsClients \ {c} : snsReq'[d] = snsReq[d]
           /\ y.at = "fan" /\ Shape(y) /\ y.id = r.id /\ y.topic = r.topic /\ y.passes = r.passes
           /\ y.rest = r.rest
           /\ sqsQueues' = sqsQueues \/ \E q \in DOMAIN sqsQueues : Arrive(q, r.id)
  <1> DEFINE r == snsReq[c]
             y == [r EXCEPT !.at = "fan", !.to = None]
  <1>1. /\ r.at = "redrive" /\ SnsGo(c, y)
        /\ sqsQueues' = sqsQueues \/ \E q \in DOMAIN sqsQueues : Arrive(q, r.id)
    BY DEF SendToRedrive
  <1>2. DOMAIN r = {"at", "id", "topic", "passes", "rest", "delivered", "to"}
    BY <1>1 DEF ShapeInv, Shape, SnsIdle, Fanning
  <1>3. /\ DOMAIN y = DOMAIN r /\ y.at = "fan" /\ y.id = r.id /\ y.topic = r.topic /\ y.passes = r.passes
        /\ y.rest = r.rest
    BY <1>2
  <1> HIDE DEF y
  <1>4. /\ DOMAIN snsReq' = SnsClients /\ snsReq'[c] = y
        /\ \A d \in SnsClients \ {c} : snsReq'[d] = snsReq[d]
    BY <1>1, ReqGoes DEF ShapeInv
  <1>5. Shape(y)
    BY <1>2, <1>3 DEF Shape, Fanning
  <1> QED
    BY <1>1, <1>3, <1>4, <1>5

MadeType == [topics : Nat, subs : Nat, messages : Nat]

\* What a step leaves alone keeps its shape.
LEMMA ShapeKept ==
    ASSUME ShapeInv, DOMAIN snsReq' = SnsClients, snsMade' \in MadeType,
           snsMade.topics <= snsMade'.topics, snsMade.subs <= snsMade'.subs,
           snsMade.messages <= snsMade'.messages,
           \A x \in DOMAIN snsTopics' :
              (x \in DOMAIN snsTopics /\ snsTopics'[x] = snsTopics[x]) \/ TopicRow(snsTopics'[x], snsMade'),
           \A s \in DOMAIN snsSubs' :
              (s \in DOMAIN snsSubs /\ snsSubs'[s] = snsSubs[s]) \/ SubRow(s, snsSubs'[s], snsMade'),
           DOMAIN snsInfo \subseteq DOMAIN snsInfo',
           \A m \in DOMAIN snsInfo' :
              (m \in DOMAIN snsInfo /\ snsInfo'[m] = snsInfo[m]) \/ InfoRow(m, snsInfo'[m], snsMade'),
           \A d \in SnsClients :
              \/ snsReq'[d] = snsReq[d]
              \/ Shape(snsReq'[d]) /\ (snsReq'[d].at \in Publishing => snsReq'[d].id \in DOMAIN snsInfo')
    PROVE  ShapeInv'
  <1>0. snsMade \in MadeType
    BY DEF ShapeInv, MadeType
  <1>1. \A x \in DOMAIN snsTopics' : TopicRow(snsTopics'[x], snsMade')
    <2>1. \A row : TopicRow(row, snsMade) => TopicRow(row, snsMade')
      BY <1>0 DEF TopicRow, MadeType
    <2> QED
      BY <2>1 DEF ShapeInv
  <1>2. \A s \in DOMAIN snsSubs' : SubRow(s, snsSubs'[s], snsMade')
    <2>1. \A s, row : SubRow(s, row, snsMade) => SubRow(s, row, snsMade')
      BY <1>0 DEF SubRow, MadeType
    <2> QED
      BY <2>1 DEF ShapeInv
  <1>3. \A m \in DOMAIN snsInfo' : InfoRow(m, snsInfo'[m], snsMade')
    <2>1. \A m, row : InfoRow(m, row, snsMade) => InfoRow(m, row, snsMade')
      BY <1>0 DEF InfoRow, MadeType
    <2> QED
      BY <2>1 DEF ShapeInv
  <1>4. \A d \in SnsClients : Shape(snsReq'[d])
    BY DEF ShapeInv
  <1>5. \A d \in SnsClients : snsReq'[d].at \in Publishing => snsReq'[d].id \in DOMAIN snsInfo'
    BY DEF ShapeInv
  <1> QED
    BY <1>1, <1>2, <1>3, <1>4, <1>5 DEF ShapeInv, MadeType

\* A step that changes nothing but one request.
LEMMA ShapeGoes ==
    ASSUME ShapeInv, NEW c \in SnsClients, NEW y, SnsGo(c, y), Shape(y),
           y.at \in Publishing => y.id \in DOMAIN snsInfo,
           snsMade' = snsMade, snsTopics' = snsTopics, snsSubs' = snsSubs, snsInfo' = snsInfo
    PROVE  ShapeInv'
  <1>1. DOMAIN snsReq' = SnsClients /\ \A d \in SnsClients : snsReq'[d] = IF d = c THEN y ELSE snsReq[d]
    BY ReqGoes DEF ShapeInv
  <1>2. snsMade \in MadeType /\ snsMade.topics <= snsMade.topics /\ snsMade.subs <= snsMade.subs
        /\ snsMade.messages <= snsMade.messages
    BY DEF ShapeInv, MadeType
  <1> QED
    BY <1>1, <1>2, ShapeKept

LEMMA IdleShape == Shape(SnsIdle) /\ SnsIdle.at = "idle" /\ SnsIdle.at \notin Publishing
  BY DEF Shape, SnsIdle, Publishing, Fanning

LEMMA MadeSame ==
    ASSUME ShapeInv, snsMade' = snsMade
    PROVE  /\ snsMade' \in MadeType /\ snsMade.topics <= snsMade'.topics /\ snsMade.subs <= snsMade'.subs
           /\ snsMade.messages <= snsMade'.messages
  BY DEF ShapeInv, MadeType

LEMMA MadeMore ==
    ASSUME ShapeInv, NEW what \in {"topics", "subs", "messages"}, snsMade' = Counted(what)
    PROVE  /\ snsMade' \in MadeType /\ snsMade.topics <= snsMade'.topics /\ snsMade.subs <= snsMade'.subs
           /\ snsMade.messages <= snsMade'.messages
  <1>1. /\ snsMade' \in MadeType
        /\ snsMade'.topics = IF what = "topics" THEN snsMade.topics + 1 ELSE snsMade.topics
        /\ snsMade'.subs = IF what = "subs" THEN snsMade.subs + 1 ELSE snsMade.subs
        /\ snsMade'.messages = IF what = "messages" THEN snsMade.messages + 1 ELSE snsMade.messages
    BY MadeGrows DEF ShapeInv, MadeType
  <1>2. snsMade \in MadeType
    BY DEF ShapeInv, MadeType
  <1>3. snsMade.topics \in Nat /\ snsMade.subs \in Nat /\ snsMade.messages \in Nat
    BY <1>2 DEF MadeType
  <1> QED
    BY <1>1, <1>3

LEMMA ShapeTopics ==
    ASSUME ShapeInv, TopicRequest
    PROVE  ShapeInv'
  <1>1. ASSUME NEW t \in Topics, DeleteTopic(t) PROVE ShapeInv'
    <2>1. /\ snsTopics' = Restrict(snsTopics, DOMAIN snsTopics \ {t})
          /\ snsSubs' = Restrict(snsSubs, SubsKept(t)) /\ snsMade' = snsMade
          /\ snsReq' = Overtake(None, t)
      BY <1>1 DEF DeleteTopic
    <2>2. /\ \A x \in DOMAIN snsTopics' : x \in DOMAIN snsTopics /\ snsTopics'[x] = snsTopics[x]
          /\ \A s \in DOMAIN snsSubs' : s \in DOMAIN snsSubs /\ snsSubs'[s] = snsSubs[s]
      BY <2>1 DEF Restrict, SubsKept
    <2>3. DOMAIN snsInfo' = DOMAIN snsInfo /\ \A m \in DOMAIN snsInfo' : InfoRow(m, snsInfo'[m], snsMade')
      <3> DEFINE gone == {s \in DOMAIN snsSubs : snsSubs[s].topic = t}
      <3>1. NoLongerDue(gone)
        BY <1>1 DEF DeleteTopic
      <3> HIDE DEF gone
      <3>2. DOMAIN snsInfo' = DOMAIN snsInfo /\ \A m \in DOMAIN snsInfo :
               DOMAIN snsInfo'[m] = DOMAIN snsInfo[m] /\ snsInfo'[m].seq = snsInfo[m].seq
        BY <3>1, InfoDue
      <3> QED
        BY <2>1, <3>2 DEF ShapeInv, InfoRow
    <2>4. DOMAIN snsReq' = SnsClients /\ \A d \in SnsClients :
             \/ snsReq'[d] = snsReq[d] \/ snsReq'[d] = SnsIdle
             \/ Shape(snsReq'[d]) /\ snsReq'[d].at = "attribute"
      BY <2>1, Overtaken
    <2>5. DOMAIN snsReq' = SnsClients /\ \A d \in SnsClients :
             \/ snsReq'[d] = snsReq[d]
             \/ Shape(snsReq'[d]) /\ snsReq'[d].at \notin Publishing
      BY <2>4, IdleShape DEF Publishing, Fanning
    <2> QED
      BY <2>1, <2>2, <2>3, <2>5, MadeSame, ShapeKept
  <1>2. ASSUME NEW c \in SnsClients, InsertTopic(c) PROVE ShapeInv'
    <2> DEFINE name == snsReq[c].topic
               row == [attrs |-> {}, fifo_seq |-> 0, born |-> snsMade.topics]
    <2>1. SnsGo(c, SnsIdle) /\ snsSubs' = snsSubs /\ snsInfo' = snsInfo
      BY <1>2 DEF InsertTopic
    <2>2. CASE TopicFree(name)
      <3>1. snsMade' = Counted("topics") /\ snsTopics' = Record(snsTopics, name, row)
        BY <1>2, <2>2 DEF InsertTopic
      <3>2. snsMade'.topics = snsMade.topics + 1 /\ snsMade.topics \in Nat
        BY <3>1, MadeGrows DEF ShapeInv
      <3>3. TopicRow(row, snsMade')
        BY <3>2 DEF TopicRow
      <3> HIDE DEF row
      <3>4. \A x \in DOMAIN snsTopics' : snsTopics'[x] = row \/ (x \in DOMAIN snsTopics /\ snsTopics'[x] = snsTopics[x])
        BY <3>1 DEF Record
      <3>5. DOMAIN snsReq' = SnsClients /\ \A d \in SnsClients : snsReq'[d] = snsReq[d] \/ snsReq'[d] = SnsIdle
        BY <2>1, ReqGoes DEF ShapeInv
      <3>6. /\ snsMade' \in MadeType /\ snsMade.topics <= snsMade'.topics /\ snsMade.subs <= snsMade'.subs
            /\ snsMade.messages <= snsMade'.messages
        BY <3>1, MadeMore
      <3> QED
        BY <2>1, <3>3, <3>4, <3>5, <3>6, IdleShape, ShapeKept
    <2>3. CASE ~TopicFree(name)
      BY <1>2, <2>1, <2>3, IdleShape, ShapeGoes DEF InsertTopic
    <2> QED
      BY <2>2, <2>3
  <1>3. ASSUME NEW c \in SnsClients, WriteTopicAttributes(c) PROVE ShapeInv'
    <2> DEFINE r == snsReq[c]
    <2>1. /\ snsTopics' = [x \in DOMAIN snsTopics |->
                IF x = r.topic THEN [snsTopics[x] EXCEPT !.attrs = r.attrs] ELSE snsTopics[x]]
          /\ snsReq' = Overtake(c, r.topic)
          /\ snsSubs' = snsSubs /\ snsMade' = snsMade /\ snsInfo' = snsInfo
      BY <1>3 DEF WriteTopicAttributes, AttributesStored
    <2>2. \A x \in DOMAIN snsTopics' : TopicRow(snsTopics'[x], snsMade')
      <3> SUFFICES ASSUME NEW x \in DOMAIN snsTopics PROVE TopicRow(snsTopics'[x], snsMade)
        BY <2>1
      <3>1. TopicRow(snsTopics[x], snsMade)
        BY DEF ShapeInv
      <3>2. TopicRow([snsTopics[x] EXCEPT !.attrs = r.attrs], snsMade)
        BY <3>1 DEF TopicRow
      <3> QED
        BY <2>1, <3>1, <3>2
    <2>4. DOMAIN snsReq' = SnsClients /\ \A d \in SnsClients :
             \/ snsReq'[d] = snsReq[d] \/ snsReq'[d] = SnsIdle
             \/ Shape(snsReq'[d]) /\ snsReq'[d].at = "attribute"
      BY <2>1, Overtaken
    <2>5. DOMAIN snsReq' = SnsClients /\ \A d \in SnsClients :
             \/ snsReq'[d] = snsReq[d]
             \/ Shape(snsReq'[d]) /\ snsReq'[d].at \notin Publishing
      BY <2>4, IdleShape DEF Publishing, Fanning
    <2> HIDE DEF r
    <2> QED
      BY <2>1, <2>2, <2>5, MadeSame, ShapeKept
  <1>4. ASSUME NEW c \in SnsClients, NEW t \in Topics, CreateTopic(c, t) PROVE ShapeInv'
    <2> DEFINE y == [at |-> "create", topic |-> t]
    <2>1. SnsGo(c, y) /\ snsMade' = snsMade /\ snsTopics' = snsTopics /\ snsSubs' = snsSubs /\ snsInfo' = snsInfo
      BY <1>4 DEF CreateTopic, snsTables
    <2>2. Shape(y) /\ y.at \notin Publishing
      BY DEF Shape, Publishing, Fanning
    <2> HIDE DEF y
    <2> QED
      BY <2>1, <2>2, ShapeGoes
  <1>5. ASSUME NEW c \in SnsClients, NEW t \in Topics, NEW a \in SnsAttrs, NEW on \in BOOLEAN,
               SetTopicAttribute(c, t, a, on)
        PROVE  ShapeInv'
    <2> DEFINE y == [at |-> "attribute", topic |-> t, name |-> a, overtaken |-> FALSE,
                     attrs |-> IF on THEN snsTopics[t].attrs \cup {a} ELSE snsTopics[t].attrs \ {a}]
    <2>1. SnsGo(c, y) /\ snsMade' = snsMade /\ snsTopics' = snsTopics /\ snsSubs' = snsSubs /\ snsInfo' = snsInfo
      BY <1>5 DEF SetTopicAttribute, snsTables
    <2>2. Shape(y) /\ y.at \notin Publishing
      BY DEF Shape, Publishing, Fanning
    <2> HIDE DEF y
    <2> QED
      BY <2>1, <2>2, ShapeGoes
  <1> QED
    BY <1>1, <1>2, <1>3, <1>4, <1>5 DEF TopicRequest

LEMMA ShapeSubscriptions ==
    ASSUME ShapeInv, SubscriptionRequest
    PROVE  ShapeInv'
  <1>0. ASSUME NEW s \in DOMAIN snsSubs, NoLongerDue({s}), snsReq' = snsReq, snsMade' = snsMade,
               snsTopics' = snsTopics,
               \A e \in DOMAIN snsSubs' : (e \in DOMAIN snsSubs /\ snsSubs'[e] = snsSubs[e])
                                          \/ SubRow(e, snsSubs'[e], snsMade)
        PROVE  ShapeInv'
    <2>1. DOMAIN snsInfo' = DOMAIN snsInfo /\ \A m \in DOMAIN snsInfo :
             DOMAIN snsInfo'[m] = DOMAIN snsInfo[m] /\ snsInfo'[m].seq = snsInfo[m].seq
      BY <1>0, InfoDue
    <2>2. \A m \in DOMAIN snsInfo' : InfoRow(m, snsInfo'[m], snsMade')
      BY <1>0, <2>1 DEF ShapeInv, InfoRow
    <2>3. DOMAIN snsReq' = SnsClients
      BY <1>0 DEF ShapeInv
    <2> QED
      BY <1>0, <2>1, <2>2, <2>3, MadeSame, ShapeKept
  <1>1. ASSUME NEW s \in DOMAIN snsSubs, Unsubscribe(s) PROVE ShapeInv'
    BY <1>0, <1>1 DEF Unsubscribe, Restrict
  <1>2. ASSUME NEW s \in DOMAIN snsSubs, NEW filter \in BOOLEAN, NEW redrive \in Redrives,
               SetSubscriptionAttribute(s, filter, redrive)
        PROVE  ShapeInv'
    <2> DEFINE row == [snsSubs[s] EXCEPT !.filter = filter, !.redrive = redrive]
    <2>1. /\ snsSubs' = [snsSubs EXCEPT ![s] = row] /\ NoLongerDue({s})
          /\ snsReq' = snsReq /\ snsMade' = snsMade /\ snsTopics' = snsTopics
      BY <1>2 DEF SetSubscriptionAttribute
    <2>2. SubRow(s, row, snsMade)
      BY DEF ShapeInv, SubRow
    <2> HIDE DEF row
    <2> QED
      BY <1>0, <2>1, <2>2
  <1>3. ASSUME NEW c \in SnsClients, LookForSubscription(c) PROVE ShapeInv'
    <2> DEFINE r == snsReq[c]
               y == [at |-> "insert", topic |-> r.topic, born |-> r.born,
                     endpoint |-> r.endpoint, made |-> snsMade.subs]
    <2>1. /\ SnsGo(c, SnsIdle) \/ SnsGo(c, y)
          /\ snsMade' = snsMade /\ snsTopics' = snsTopics /\ snsSubs' = snsSubs /\ snsInfo' = snsInfo
      BY <1>3 DEF LookForSubscription, snsTables
    <2>2. Shape(y) /\ y.at \notin Publishing
      BY DEF Shape, Publishing, Fanning
    <2> HIDE DEF y
    <2> QED
      BY <2>1, <2>2, IdleShape, ShapeGoes
  <1>4. ASSUME NEW c \in SnsClients, NEW t \in Topics, NEW q \in Endpoints, Subscribe(c, t, q)
        PROVE  ShapeInv'
    <2> DEFINE y == [at |-> "look", topic |-> t, born |-> snsTopics[t].born, endpoint |-> q]
    <2>1. SnsGo(c, y) /\ snsMade' = snsMade /\ snsTopics' = snsTopics /\ snsSubs' = snsSubs /\ snsInfo' = snsInfo
      BY <1>4 DEF Subscribe, snsTables
    <2>2. Shape(y) /\ y.at \notin Publishing
      BY DEF Shape, Publishing, Fanning
    <2> HIDE DEF y
    <2> QED
      BY <2>1, <2>2, ShapeGoes
  <1>5. ASSUME NEW c \in SnsClients, NEW filter \in BOOLEAN, NEW redrive \in Redrives,
               InsertSubscription(c, filter, redrive)
        PROVE  ShapeInv'
    <2> DEFINE r == snsReq[c]
               s == snsMade.subs + 1
               row == [topic |-> r.topic, born |-> r.born, endpoint |-> r.endpoint,
                       filter |-> filter, redrive |-> redrive]
    <2>1. /\ SnsGo(c, SnsIdle) /\ snsMade' = Counted("subs") /\ snsSubs' = Record(snsSubs, s, row)
          /\ snsTopics' = snsTopics /\ snsInfo' = snsInfo
      BY <1>5 DEF InsertSubscription
    <2>2. snsMade'.subs = snsMade.subs + 1 /\ snsMade.subs \in Nat
      BY <2>1, MadeGrows DEF ShapeInv
    <2>3. SubRow(s, row, snsMade')
      BY <2>2 DEF SubRow
    <2> HIDE DEF row, s
    <2>4. \A e \in DOMAIN snsSubs' : (e = s /\ snsSubs'[e] = row)
                                     \/ (e \in DOMAIN snsSubs /\ snsSubs'[e] = snsSubs[e])
      BY <2>1 DEF Record
    <2>5. DOMAIN snsReq' = SnsClients /\ \A d \in SnsClients : snsReq'[d] = snsReq[d] \/ snsReq'[d] = SnsIdle
      BY <2>1, ReqGoes DEF ShapeInv
    <2>6. /\ snsMade' \in MadeType /\ snsMade.topics <= snsMade'.topics /\ snsMade.subs <= snsMade'.subs
          /\ snsMade.messages <= snsMade'.messages
      BY <2>1, MadeMore
    <2> QED
      BY <2>1, <2>3, <2>4, <2>5, <2>6, IdleShape, ShapeKept
  <1> QED
    BY <1>1, <1>2, <1>3, <1>4, <1>5 DEF SubscriptionRequest

LEMMA ShapeFanOut ==
    ASSUME ShapeInv, NEW c \in SnsClients, FanOut(c)
    PROVE  ShapeInv'
  <1> DEFINE r == snsReq[c]
  <1>0. r.at \in Publishing => r.id \in DOMAIN snsInfo
    BY DEF ShapeInv
  <1>1. CASE NextSequence(c)
    <2>0. r.at = "sequence" /\ snsSubs' = snsSubs /\ snsMade' = snsMade
      BY <1>1 DEF NextSequence
    <2>1. CASE r.topic \in DOMAIN snsTopics
      <3>1. r.id \in DOMAIN snsInfo
        BY <2>0, <1>0 DEF Publishing
      <3>2. /\ snsReq'[c].at = "list" /\ DOMAIN snsReq'[c] = {"at", "id", "topic", "passes"}
            /\ snsReq'[c].id = r.id
            /\ DOMAIN snsTopics' = DOMAIN snsTopics /\ DOMAIN snsInfo' = DOMAIN snsInfo
            /\ \A x \in DOMAIN snsTopics :
                  /\ DOMAIN snsTopics'[x] = DOMAIN snsTopics[x] /\ snsTopics'[x].born = snsTopics[x].born
                  /\ snsTopics'[x].fifo_seq =
                        IF x = r.topic THEN snsTopics[x].fifo_seq + 1 ELSE snsTopics[x].fifo_seq
            /\ \A m \in DOMAIN snsInfo \ {r.id} : snsInfo'[m] = snsInfo[m]
            /\ DOMAIN snsInfo'[r.id] = DOMAIN snsInfo[r.id]
            /\ snsInfo'[r.id].seq = snsTopics[r.topic].fifo_seq + 1
        BY <1>1, <2>1, <3>1, SequenceTaken
      <3>3. \A x \in DOMAIN snsTopics' : TopicRow(snsTopics'[x], snsMade')
        BY <2>0, <3>2 DEF ShapeInv, TopicRow
      <3>4. InfoRow(r.id, snsInfo'[r.id], snsMade')
        <4>1. InfoRow(r.id, snsInfo[r.id], snsMade) /\ TopicRow(snsTopics[r.topic], snsMade)
          BY <2>1, <3>1 DEF ShapeInv
        <4> HIDE DEF r
        <4> QED
          BY <2>0, <3>2, <4>1 DEF InfoRow, TopicRow
      <3>5. Shape(snsReq'[c])
        BY <3>2 DEF Shape
      <3>6. DOMAIN snsReq' = SnsClients /\ \A d \in SnsClients \ {c} : snsReq'[d] = snsReq[d]
        BY <1>1, <2>1 DEF NextSequence, SnsGo, ShapeInv
      <3> QED
        BY <2>0, <3>1, <3>2, <3>3, <3>4, <3>5, <3>6, MadeSame, ShapeKept
    <2>2. CASE r.topic \notin DOMAIN snsTopics
      BY <1>1, <2>0, <2>2, IdleShape, ShapeGoes DEF NextSequence
    <2> QED
      BY <2>1, <2>2
  <1>2. CASE ListSubscriptions(c)
    <2>1. /\ r.at = "list" /\ DOMAIN snsReq' = SnsClients
          /\ \A d \in SnsClients \ {c} : snsReq'[d] = snsReq[d]
          /\ Shape(snsReq'[c]) /\ snsReq'[c].id = r.id
      BY <1>2, Listed
    <2>2. r.id \in DOMAIN snsInfo
      BY <2>1, <1>0 DEF Publishing
    <2>3. snsMade' = snsMade /\ snsTopics' = snsTopics /\ snsSubs' = snsSubs /\ snsInfo' = snsInfo
      BY <1>2 DEF ListSubscriptions, snsTables
    <2> QED
      BY <2>1, <2>2, <2>3, MadeSame, ShapeKept
  <1>3. CASE SendToRedrive(c)
    <2>1. /\ r.at = "redrive" /\ DOMAIN snsReq' = SnsClients
          /\ \A d \in SnsClients \ {c} : snsReq'[d] = snsReq[d]
          /\ Shape(snsReq'[c]) /\ snsReq'[c].id = r.id
      BY <1>3, Redriven
    <2>2. r.id \in DOMAIN snsInfo
      BY <2>1, <1>0 DEF Publishing, Fanning
    <2>3. snsMade' = snsMade /\ snsTopics' = snsTopics /\ snsSubs' = snsSubs /\ snsInfo' = snsInfo
      BY <1>3 DEF SendToRedrive
    <2> QED
      BY <2>1, <2>2, <2>3, MadeSame, ShapeKept
  <1>4. CASE RecordMessage(c)
    BY <1>4, IdleShape, ShapeGoes DEF RecordMessage
  <1>5. ASSUME NEW s, Deliver(c, s) PROVE ShapeInv'
    <2>0. r.id \in DOMAIN snsInfo
      BY <1>0, <1>5 DEF Deliver, Publishing, Fanning
    <2>1. /\ DOMAIN snsReq' = SnsClients /\ \A d \in SnsClients \ {c} : snsReq'[d] = snsReq[d]
          /\ Shape(snsReq'[c]) /\ snsReq'[c].id = r.id
          /\ DOMAIN snsInfo' = DOMAIN snsInfo
          /\ \A m \in DOMAIN snsInfo \ {r.id} : snsInfo'[m] = snsInfo[m]
          /\ DOMAIN snsInfo'[r.id] = DOMAIN snsInfo[r.id] /\ snsInfo'[r.id].seq = snsInfo[r.id].seq
      BY <2>0, <1>5, DeliverDone
    <2>2. snsMade' = snsMade /\ snsTopics' = snsTopics /\ snsSubs' = snsSubs
      BY <1>5 DEF Deliver
    <2>3. InfoRow(r.id, snsInfo'[r.id], snsMade')
      BY <2>0, <2>1, <2>2 DEF ShapeInv, InfoRow
    <2> QED
      BY <2>0, <2>1, <2>2, <2>3, MadeSame, ShapeKept
  <1> QED
    BY <1>1, <1>2, <1>3, <1>4, <1>5 DEF FanOut

NumberOf(m, made) == m \in Nat /\ m <= made.messages

\* A publish begins, for a message that is new or was only committed.
LEMMA ShapeStart ==
    ASSUME ShapeInv, NEW c \in SnsClients, NEW t, NEW m, NEW passes, NEW earlier,
           StartPublish(c, t, m, passes, earlier), NumberOf(m, snsMade'),
           snsMade' = snsMade \/ snsMade' = Counted("messages"),
           snsTopics' = snsTopics, snsSubs' = snsSubs
    PROVE  ShapeInv'
  <1>1. /\ DOMAIN snsReq' = SnsClients /\ \A d \in SnsClients \ {c} : snsReq'[d] = snsReq[d]
        /\ Shape(snsReq'[c]) /\ snsReq'[c].id = m
        /\ DOMAIN snsInfo' = DOMAIN snsInfo \cup {m}
        /\ \A n \in DOMAIN snsInfo \ {m} : snsInfo'[n] = snsInfo[n]
        /\ DOMAIN snsInfo'[m] = {"topic", "born", "seq", "passes", "earlier", "tried", "due"}
        /\ snsInfo'[m].seq = 0
    <2>1. Started(c, t, m, passes, earlier)
      BY PublishStarted
    <2> QED
      BY <2>1 DEF Started
  <1>2. InfoRow(m, snsInfo'[m], snsMade')
    BY <1>1 DEF InfoRow, NumberOf
  <1>3. /\ snsMade' \in MadeType /\ snsMade.topics <= snsMade'.topics /\ snsMade.subs <= snsMade'.subs
        /\ snsMade.messages <= snsMade'.messages
    BY MadeSame, MadeMore
  <1> QED
    BY <1>1, <1>2, <1>3, ShapeKept

LEMMA ShapePublish ==
    ASSUME ShapeInv, NEW c \in SnsClients, NEW t, NEW passes, NEW earlier, PublishAfter(c, t, passes, earlier)
    PROVE  ShapeInv'
  <1> DEFINE m == snsMade.messages + 1
  <1>1. /\ StartPublish(c, t, m, passes, earlier) /\ snsMade' = Counted("messages") /\ t \in DOMAIN snsTopics
        /\ snsTopics' = snsTopics /\ snsSubs' = snsSubs
    BY DEF PublishAfter
  <1>2. NumberOf(m, snsMade')
    BY <1>1, MadeGrows DEF ShapeInv, NumberOf
  <1> HIDE DEF m
  <1> QED
    BY <1>1, <1>2, ShapeStart

\* Nothing that has a shape changes, but requests may be lost.
LEMMA ShapeStill ==
    ASSUME ShapeInv, snsMade' = snsMade, snsTopics' = snsTopics, snsSubs' = snsSubs, snsInfo' = snsInfo,
           snsReq' = snsReq \/ snsReq' = [c \in SnsClients |-> SnsIdle]
    PROVE  ShapeInv'
  <1>1. DOMAIN snsReq' = SnsClients /\ \A d \in SnsClients : snsReq'[d] = snsReq[d] \/ snsReq'[d] = SnsIdle
    BY DEF ShapeInv
  <1> QED
    BY <1>1, IdleShape, MadeSame, ShapeKept

LEMMA ShapeInit == SnsInit => ShapeInv
  <1> SUFFICES ASSUME SnsInit PROVE ShapeInv
    OBVIOUS
  <1>1. /\ DOMAIN snsTopics = {} /\ DOMAIN snsSubs = {} /\ DOMAIN snsInfo = {}
        /\ snsReq = [c \in SnsClients |-> SnsIdle]
        /\ snsMade \in [topics : Nat, subs : Nat, messages : Nat]
    BY DEF SnsInit
  <1> QED
    BY <1>1, IdleShape DEF ShapeInv

LEMMA ShapeNext == ShapeInv /\ [SnsNext]_snsVars => ShapeInv'
  <1> SUFFICES ASSUME ShapeInv, [SnsNext]_snsVars PROVE ShapeInv'
    OBVIOUS
  <1>1. ASSUME NEW c \in SnsClients, NEW t, NEW passes, Publish(c, t, passes) PROVE ShapeInv'
    BY <1>1, ShapePublish DEF Publish
  <1>2. CASE PublishRequest
    BY <1>1, <1>2, ShapeFanOut DEF PublishRequest
  <1>3. CASE QueueRequest
    BY <1>3, ShapeStill DEF QueueRequest, CreateQueue, DeleteQueue
  <1>4. CASE CrashSns
    BY <1>4, ShapeStill DEF CrashSns, snsTables
  <1>5. CASE UNCHANGED snsVars
    BY <1>5, ShapeStill DEF snsVars
  <1> QED
    BY <1>2, <1>3, <1>4, <1>5, ShapeTopics, ShapeSubscriptions DEF SnsNext

-----------------------------------------------------------------------------
(* What topics and subscriptions keep *)

\* What a request on a topic or a subscription has read of the tables T and S.
TopicReq(r, T, S, made) ==
    /\ r.at = "attribute" /\ r.overtaken = FALSE /\ r.topic \in DOMAIN T =>
          T[r.topic].attrs \ {r.name} \subseteq r.attrs
    /\ r.at = "insert" =>
          /\ r.made \in Nat /\ r.made <= made.subs
          /\ \A e \in DOMAIN S : S[e].topic = r.topic /\ S[e].endpoint = r.endpoint => e > r.made

TopicsInv ==
    /\ EqualByOverlap /\ SubscribedToTheirTopic
    /\ \A c \in SnsClients : TopicReq(snsReq[c], snsTopics, snsSubs, snsMade)

\* A request that has read nothing of the kind.
LEMMA NothingRead ==
    ASSUME NEW r, NEW T, NEW S, NEW made, r.at \notin {"attribute", "insert"}
    PROVE  TopicReq(r, T, S, made)
  BY DEF TopicReq

\* A step that has nothing to do with attributes or subscriptions.
LEMMA TopicsFrame ==
    ASSUME TopicsInv, snsSubs' = snsSubs, snsLoose' = snsLoose, snsTwin' = snsTwin,
           snsMade'.subs = snsMade.subs, DOMAIN snsTopics' = DOMAIN snsTopics,
           \A x \in DOMAIN snsTopics : snsTopics'[x].attrs = snsTopics[x].attrs
                                       /\ snsTopics'[x].born = snsTopics[x].born,
           \A d \in SnsClients : snsReq'[d] = snsReq[d] \/ snsReq'[d].at \notin {"attribute", "insert"}
    PROVE  TopicsInv' /\ LostByOverlap
  <1>1. LostByOverlap
    BY DEF LostByOverlap
  <1>2. EqualByOverlap'
    BY DEF TopicsInv, EqualByOverlap
  <1>3. SubscribedToTheirTopic'
    BY DEF TopicsInv, SubscribedToTheirTopic
  <1>4. ASSUME NEW d \in SnsClients
        PROVE  TopicReq(snsReq'[d], snsTopics', snsSubs', snsMade')
    <2>1. CASE snsReq'[d] = snsReq[d]
      <3>1. TopicReq(snsReq[d], snsTopics, snsSubs, snsMade)
        BY DEF TopicsInv
      <3> QED
        BY <2>1, <3>1 DEF TopicReq
    <2>2. CASE snsReq'[d].at \notin {"attribute", "insert"}
      BY <2>2, NothingRead
    <2> QED
      BY <2>1, <2>2
  <1> QED
    BY <1>1, <1>2, <1>3, <1>4 DEF TopicsInv

LEMMA TopicsFanOut ==
    ASSUME ShapeInv, TopicsInv, NEW c \in SnsClients, FanOut(c)
    PROVE  TopicsInv' /\ LostByOverlap
  <1> DEFINE r == snsReq[c]
  <1>0. r.at \in Publishing => r.id \in DOMAIN snsInfo
    BY DEF ShapeInv
  <1>1. /\ snsSubs' = snsSubs /\ snsLoose' = snsLoose /\ snsTwin' = snsTwin /\ snsMade' = snsMade
    BY DEF FanOut, NextSequence, ListSubscriptions, SendToRedrive, RecordMessage, Deliver, snsTables
  <1>2. /\ DOMAIN snsTopics' = DOMAIN snsTopics
        /\ \A x \in DOMAIN snsTopics : snsTopics'[x].attrs = snsTopics[x].attrs
                                       /\ snsTopics'[x].born = snsTopics[x].born
    <2>1. CASE NextSequence(c) /\ r.topic \in DOMAIN snsTopics
      <3>1. r.id \in DOMAIN snsInfo
        BY <2>1, <1>0 DEF NextSequence, Publishing
      <3> QED
        BY <2>1, <3>1, SequenceTaken
    <2>2. CASE NextSequence(c) /\ r.topic \notin DOMAIN snsTopics
      BY <2>2 DEF NextSequence
    <2>3. CASE ~NextSequence(c)
      BY <2>3 DEF FanOut, ListSubscriptions, SendToRedrive, RecordMessage, Deliver, snsTables
    <2> QED
      BY <2>1, <2>2, <2>3
  <1>3. /\ \A d \in SnsClients \ {c} : snsReq'[d] = snsReq[d]
        /\ snsReq'[c].at \notin {"attribute", "insert"}
    <2>1. CASE NextSequence(c) /\ r.topic \in DOMAIN snsTopics
      <3>1. r.id \in DOMAIN snsInfo
        BY <2>1, <1>0 DEF NextSequence, Publishing
      <3>2. snsReq'[c].at = "list"
        BY <2>1, <3>1, SequenceTaken
      <3>3. \A d \in SnsClients \ {c} : snsReq'[d] = snsReq[d]
        BY <2>1 DEF NextSequence, SnsGo, ShapeInv
      <3> QED
        BY <3>2, <3>3
    <2>2. CASE (NextSequence(c) /\ r.topic \notin DOMAIN snsTopics) \/ RecordMessage(c)
      <3>1. SnsGo(c, SnsIdle)
        BY <2>2 DEF NextSequence, RecordMessage
      <3> QED
        BY <3>1, ReqGoes, IdleShape DEF ShapeInv
    <2>3. CASE ListSubscriptions(c)
      BY <2>3, Listed
    <2>4. CASE SendToRedrive(c)
      BY <2>4, Redriven
    <2>5. ASSUME NEW s, Deliver(c, s)
          PROVE  /\ \A d \in SnsClients \ {c} : snsReq'[d] = snsReq[d]
                 /\ snsReq'[c].at \notin {"attribute", "insert"}
      <3>1. r.id \in DOMAIN snsInfo
        BY <1>0, <2>5 DEF Deliver, Publishing, Fanning
      <3> QED
        BY <2>5, <3>1, DeliverDone DEF Fanning
    <2> QED
      BY <2>1, <2>2, <2>3, <2>4, <2>5 DEF FanOut
  <1> QED
    BY <1>1, <1>2, <1>3, TopicsFrame

LEMMA TopicsPublish ==
    ASSUME ShapeInv, TopicsInv, NEW c \in SnsClients, NEW t, NEW passes, NEW earlier,
           PublishAfter(c, t, passes, earlier)
    PROVE  TopicsInv' /\ LostByOverlap
  <1> DEFINE m == snsMade.messages + 1
  <1>1. /\ StartPublish(c, t, m, passes, earlier) /\ snsMade' = Counted("messages")
        /\ snsTopics' = snsTopics /\ snsSubs' = snsSubs /\ snsLoose' = snsLoose /\ snsTwin' = snsTwin
    BY DEF PublishAfter
  <1> HIDE DEF m
  <1>2. Started(c, t, m, passes, earlier)
    BY <1>1, PublishStarted
  <1>3. snsMade'.subs = snsMade.subs
    BY <1>1, MadeGrows DEF ShapeInv
  <1>4. \A d \in SnsClients : snsReq'[d] = snsReq[d] \/ snsReq'[d].at \notin {"attribute", "insert"}
    BY <1>2 DEF Started
  <1> QED
    BY <1>1, <1>3, <1>4, TopicsFrame

LEMMA TopicsTopics ==
    ASSUME ShapeInv, TopicsInv, TopicRequest
    PROVE  TopicsInv' /\ LostByOverlap
  <1>0. \A d \in SnsClients : TopicReq(snsReq[d], snsTopics, snsSubs, snsMade)
    BY DEF TopicsInv
  <1>1. ASSUME NEW t \in Topics, DeleteTopic(t) PROVE TopicsInv' /\ LostByOverlap
    <2>1. /\ snsTopics' = Restrict(snsTopics, DOMAIN snsTopics \ {t})
          /\ snsSubs' = Restrict(snsSubs, SubsKept(t)) /\ snsMade' = snsMade
          /\ snsReq' = Overtake(None, t) /\ snsLoose' = snsLoose /\ snsTwin' = snsTwin
      BY <1>1 DEF DeleteTopic
    <2>2. /\ DOMAIN snsTopics' = DOMAIN snsTopics \ {t}
          /\ \A x \in DOMAIN snsTopics' : snsTopics'[x] = snsTopics[x]
          /\ \A s \in DOMAIN snsSubs' : s \in DOMAIN snsSubs /\ snsSubs[s].topic # t /\ snsSubs'[s] = snsSubs[s]
      BY <2>1 DEF Restrict, SubsKept
    <2>3. LostByOverlap
      BY <2>2 DEF LostByOverlap
    <2>4. EqualByOverlap'
      BY <2>1, <2>2 DEF TopicsInv, EqualByOverlap
    <2>5. SubscribedToTheirTopic'
      BY <2>1, <2>2 DEF TopicsInv, SubscribedToTheirTopic
    <2>6. ASSUME NEW d \in SnsClients PROVE TopicReq(snsReq'[d], snsTopics', snsSubs', snsMade')
      <3>1. CASE snsReq'[d] = SnsIdle
        BY <3>1, NothingRead, IdleShape
      <3>2. CASE snsReq'[d] = snsReq[d]
        <4> DEFINE r == snsReq[d]
        <4>1. TopicReq(r, snsTopics, snsSubs, snsMade)
          BY <1>0
        <4> HIDE DEF r
        <4>2. TopicReq(r, snsTopics', snsSubs', snsMade')
          BY <4>1, <2>1, <2>2 DEF TopicReq
        <4> QED BY <3>2, <4>2 DEF r
      <3>3. CASE d # None /\ snsReq[d].at = "attribute"
        <4>1. /\ snsReq'[d].at = "attribute" /\ snsReq'[d].topic = snsReq[d].topic
              /\ snsReq'[d].name = snsReq[d].name /\ snsReq'[d].attrs = snsReq[d].attrs
              /\ snsReq'[d].overtaken = (snsReq[d].overtaken \/ snsReq[d].topic = t)
          BY <3>3, <2>1, Overtaken
        <4>2. snsReq'[d].overtaken = FALSE => snsReq[d].overtaken = FALSE
          <5>1. snsReq[d].overtaken \in BOOLEAN
            BY <3>3 DEF ShapeInv, Shape, SnsIdle, Fanning
          <5> QED
            BY <4>1, <5>1
        <4>3. ASSUME snsReq'[d].overtaken = FALSE, snsReq'[d].topic \in DOMAIN snsTopics'
              PROVE  snsTopics'[snsReq'[d].topic].attrs \ {snsReq'[d].name} \subseteq snsReq'[d].attrs
          <5>1. snsReq[d].topic \in DOMAIN snsTopics /\ snsTopics'[snsReq[d].topic] = snsTopics[snsReq[d].topic]
            BY <4>1, <4>3, <2>2
          <5>2. snsTopics[snsReq[d].topic].attrs \ {snsReq[d].name} \subseteq snsReq[d].attrs
            BY <4>2, <4>3, <5>1, <3>3, <1>0 DEF TopicReq
          <5> QED
            BY <4>1, <5>1, <5>2
        <4> QED
          BY <4>1, <4>3 DEF TopicReq
      <3> QED
        BY <3>1, <3>2, <3>3, <2>1, Overtaken
    <2> QED
      BY <2>3, <2>4, <2>5, <2>6 DEF TopicsInv
  <1>2. ASSUME NEW c \in SnsClients, InsertTopic(c) PROVE TopicsInv' /\ LostByOverlap
    <2> DEFINE name == snsReq[c].topic
               row == [attrs |-> {}, fifo_seq |-> 0, born |-> snsMade.topics]
    <2>1. SnsGo(c, SnsIdle) /\ snsSubs' = snsSubs /\ snsLoose' = snsLoose /\ snsTwin' = snsTwin
      BY <1>2 DEF InsertTopic
    <2>2. \A d \in SnsClients : snsReq'[d] = snsReq[d] \/ snsReq'[d] = SnsIdle
      BY <2>1, ReqGoes DEF ShapeInv
    <2>3. CASE TopicFree(name)
      <3>1. snsMade' = Counted("topics") /\ snsTopics' = Record(snsTopics, name, row) /\ name \notin DOMAIN snsTopics
        BY <1>2, <2>3 DEF InsertTopic, TopicFree
      <3>2. snsMade'.subs = snsMade.subs
        BY <3>1, MadeGrows DEF ShapeInv
      <3>3. row.attrs = {}
        OBVIOUS
      <3> HIDE DEF row, name
      <3>4. /\ DOMAIN snsTopics' = DOMAIN snsTopics \cup {name} /\ snsTopics'[name].attrs = {}
            /\ \A x \in DOMAIN snsTopics : snsTopics'[x] = snsTopics[x]
        BY <3>1, <3>3 DEF Record
      <3>5. LostByOverlap
        BY <3>4 DEF LostByOverlap
      <3>6. EqualByOverlap'
        BY <2>1 DEF TopicsInv, EqualByOverlap
      <3>7. SubscribedToTheirTopic'
        BY <2>1, <3>4 DEF TopicsInv, SubscribedToTheirTopic
      <3>8. ASSUME NEW d \in SnsClients PROVE TopicReq(snsReq'[d], snsTopics', snsSubs', snsMade')
        <4>1. CASE snsReq'[d] = SnsIdle
          BY <4>1, NothingRead, IdleShape
        <4>2. CASE snsReq'[d] = snsReq[d]
          BY <4>2, <1>0, <2>1, <3>2, <3>4 DEF TopicReq
        <4> QED
          BY <4>1, <4>2, <2>2
      <3> QED
        BY <3>5, <3>6, <3>7, <3>8 DEF TopicsInv
    <2>4. CASE ~TopicFree(name)
      <3>1. snsMade' = snsMade /\ snsTopics' = snsTopics
        BY <1>2, <2>4 DEF InsertTopic
      <3> QED
        BY <2>1, <2>2, <3>1, IdleShape, TopicsFrame
    <2> QED
      BY <2>3, <2>4
  <1>3. ASSUME NEW c \in SnsClients, WriteTopicAttributes(c) PROVE TopicsInv' /\ LostByOverlap
    <2> DEFINE r == snsReq[c]
    <2>1. /\ snsTopics' = [x \in DOMAIN snsTopics |->
                IF x = r.topic THEN [snsTopics[x] EXCEPT !.attrs = r.attrs] ELSE snsTopics[x]]
          /\ snsReq' = Overtake(c, r.topic) /\ r.at = "attribute"
          /\ snsSubs' = snsSubs /\ snsMade' = snsMade /\ snsLoose' = snsLoose /\ snsTwin' = snsTwin
      BY <1>3 DEF WriteTopicAttributes, AttributesStored
    <2>2. /\ DOMAIN snsTopics' = DOMAIN snsTopics
          /\ \A x \in DOMAIN snsTopics :
                /\ snsTopics'[x].born = snsTopics[x].born
                /\ snsTopics'[x].attrs = IF x = r.topic THEN r.attrs ELSE snsTopics[x].attrs
      BY <2>1 DEF ShapeInv, TopicRow
    <2>3. snsReq'[c] = SnsIdle /\ r.overtaken \in BOOLEAN
      BY <2>1, Overtaken DEF ShapeInv, Shape, SnsIdle, Fanning
    <2>4. LostByOverlap
      <3> SUFFICES ASSUME NEW name \in DOMAIN snsTopics \cap DOMAIN snsTopics',
                          NEW a \in snsTopics[name].attrs \ snsTopics'[name].attrs
                   PROVE  r.overtaken \/ r.name = a
        BY <2>1, <2>3 DEF LostByOverlap
      <3>1. name = r.topic /\ a \notin r.attrs
        BY <2>2
      <3>2. TopicReq(r, snsTopics, snsSubs, snsMade)
        BY <1>0
      <3> HIDE DEF r
      <3> QED
        BY <2>1, <2>3, <3>1, <3>2 DEF TopicReq
    <2>5. EqualByOverlap'
      BY <2>1 DEF TopicsInv, EqualByOverlap
    <2>6. SubscribedToTheirTopic'
      BY <2>1, <2>2 DEF TopicsInv, SubscribedToTheirTopic
    <2>7. ASSUME NEW d \in SnsClients PROVE TopicReq(snsReq'[d], snsTopics', snsSubs', snsMade')
      <3>1. CASE d = c
        BY <3>1, <2>3, NothingRead, IdleShape
      <3>2. CASE d # c /\ snsReq[d].at # "attribute"
        <4>1. snsReq'[d] = snsReq[d]
          BY <3>2, <2>1, Overtaken
        <4> QED
          BY <3>2, <4>1, <1>0, <2>1 DEF TopicReq
      <3>3. CASE d # c /\ snsReq[d].at = "attribute"
        <4>1. /\ snsReq'[d].at = "attribute" /\ snsReq'[d].topic = snsReq[d].topic
              /\ snsReq'[d].name = snsReq[d].name /\ snsReq'[d].attrs = snsReq[d].attrs
              /\ snsReq'[d].overtaken = (snsReq[d].overtaken \/ snsReq[d].topic = r.topic)
          BY <3>3, <2>1, Overtaken
        <4>2. snsReq'[d].overtaken = FALSE => snsReq[d].overtaken = FALSE /\ snsReq[d].topic # r.topic
          <5>1. snsReq[d].overtaken \in BOOLEAN
            BY <3>3 DEF ShapeInv, Shape, SnsIdle, Fanning
          <5> QED
            BY <4>1, <5>1
        <4> HIDE DEF r
        <4>3. ASSUME snsReq'[d].overtaken = FALSE, snsReq'[d].topic \in DOMAIN snsTopics'
              PROVE  snsTopics'[snsReq'[d].topic].attrs \ {snsReq'[d].name} \subseteq snsReq'[d].attrs
          <5>1. /\ snsReq[d].topic \in DOMAIN snsTopics
                /\ snsTopics'[snsReq[d].topic].attrs = snsTopics[snsReq[d].topic].attrs
            BY <4>1, <4>2, <4>3, <2>2
          <5>2. snsTopics[snsReq[d].topic].attrs \ {snsReq[d].name} \subseteq snsReq[d].attrs
            BY <4>2, <4>3, <5>1, <3>3, <1>0 DEF TopicReq
          <5> QED
            BY <4>1, <5>1, <5>2
        <4> QED
          BY <4>1, <4>3 DEF TopicReq
      <3> QED
        BY <3>1, <3>2, <3>3
    <2> QED
      BY <2>4, <2>5, <2>6, <2>7 DEF TopicsInv
  <1>4. ASSUME NEW c \in SnsClients, NEW t \in Topics, CreateTopic(c, t) PROVE TopicsInv' /\ LostByOverlap
    <2> DEFINE y == [at |-> "create", topic |-> t]
    <2>1. /\ SnsGo(c, y) /\ y.at = "create" /\ snsMade' = snsMade /\ snsTopics' = snsTopics
          /\ snsSubs' = snsSubs /\ snsLoose' = snsLoose /\ snsTwin' = snsTwin
      BY <1>4 DEF CreateTopic, snsTables
    <2> HIDE DEF y
    <2>2. \A d \in SnsClients : snsReq'[d] = snsReq[d] \/ snsReq'[d] = y
      BY <2>1, ReqGoes DEF ShapeInv
    <2> QED
      BY <2>1, <2>2, TopicsFrame
  <1>5. ASSUME NEW c \in SnsClients, NEW t \in Topics, NEW a \in SnsAttrs, NEW on \in BOOLEAN,
               SetTopicAttribute(c, t, a, on)
        PROVE  TopicsInv' /\ LostByOverlap
    <2> DEFINE y == [at |-> "attribute", topic |-> t, name |-> a, overtaken |-> FALSE,
                     attrs |-> IF on THEN snsTopics[t].attrs \cup {a} ELSE snsTopics[t].attrs \ {a}]
    <2>1. /\ SnsGo(c, y) /\ snsMade' = snsMade /\ snsTopics' = snsTopics
          /\ snsSubs' = snsSubs /\ snsLoose' = snsLoose /\ snsTwin' = snsTwin
      BY <1>5 DEF SetTopicAttribute, snsTables
    <2>2. TopicReq(y, snsTopics, snsSubs, snsMade)
      BY DEF TopicReq
    <2> HIDE DEF y
    <2>3. \A d \in SnsClients : snsReq'[d] = snsReq[d] \/ snsReq'[d] = y
      BY <2>1, ReqGoes DEF ShapeInv
    <2>4. \A d \in SnsClients : TopicReq(snsReq'[d], snsTopics', snsSubs', snsMade')
      BY <1>0, <2>1, <2>2, <2>3
    <2>5. EqualByOverlap' /\ SubscribedToTheirTopic' /\ LostByOverlap
      BY <2>1 DEF TopicsInv, EqualByOverlap, SubscribedToTheirTopic, LostByOverlap
    <2> QED
      BY <2>4, <2>5 DEF TopicsInv
  <1> QED
    BY <1>1, <1>2, <1>3, <1>4, <1>5 DEF TopicRequest

LEMMA TopicsSubscriptions ==
    ASSUME ShapeInv, TopicsInv, SubscriptionRequest
    PROVE  TopicsInv' /\ LostByOverlap
  <1>0. \A d \in SnsClients : TopicReq(snsReq[d], snsTopics, snsSubs, snsMade)
    BY DEF TopicsInv
  <1>1. ASSUME snsReq' = snsReq, snsMade' = snsMade, snsTopics' = snsTopics,
               snsLoose' = snsLoose, snsTwin' = snsTwin,
               \A e \in DOMAIN snsSubs' :
                  /\ e \in DOMAIN snsSubs /\ snsSubs'[e].topic = snsSubs[e].topic
                  /\ snsSubs'[e].born = snsSubs[e].born /\ snsSubs'[e].endpoint = snsSubs[e].endpoint
        PROVE  TopicsInv' /\ LostByOverlap
    <2>1. LostByOverlap
      BY <1>1 DEF LostByOverlap
    <2>2. EqualByOverlap'
      BY <1>1 DEF TopicsInv, EqualByOverlap
    <2>3. SubscribedToTheirTopic'
      BY <1>1 DEF TopicsInv, SubscribedToTheirTopic
    <2>4. ASSUME NEW d \in SnsClients PROVE TopicReq(snsReq'[d], snsTopics', snsSubs', snsMade')
      BY <1>0, <1>1 DEF TopicReq
    <2> QED
      BY <2>1, <2>2, <2>3, <2>4 DEF TopicsInv
  <1>2. ASSUME NEW s \in DOMAIN snsSubs, Unsubscribe(s) PROVE TopicsInv' /\ LostByOverlap
    BY <1>1, <1>2 DEF Unsubscribe, Restrict
  <1>3. ASSUME NEW s \in DOMAIN snsSubs, NEW filter \in BOOLEAN, NEW redrive \in Redrives,
               SetSubscriptionAttribute(s, filter, redrive)
        PROVE  TopicsInv' /\ LostByOverlap
    <2> DEFINE row == [snsSubs[s] EXCEPT !.filter = filter, !.redrive = redrive]
    <2>1. /\ snsSubs' = [snsSubs EXCEPT ![s] = row] /\ snsReq' = snsReq /\ snsMade' = snsMade
          /\ snsTopics' = snsTopics /\ snsLoose' = snsLoose /\ snsTwin' = snsTwin
      BY <1>3 DEF SetSubscriptionAttribute
    <2>2. /\ row.topic = snsSubs[s].topic /\ row.born = snsSubs[s].born
          /\ row.endpoint = snsSubs[s].endpoint
      BY DEF ShapeInv, SubRow
    <2> HIDE DEF row
    <2> QED
      BY <1>1, <2>1, <2>2
  <1>4. ASSUME NEW c \in SnsClients, LookForSubscription(c) PROVE TopicsInv' /\ LostByOverlap
    <2> DEFINE r == snsReq[c]
               y == [at |-> "insert", topic |-> r.topic, born |-> r.born,
                     endpoint |-> r.endpoint, made |-> snsMade.subs]
    <2>1. /\ SnsGo(c, IF EqualSubs(r.topic, r.endpoint) # {} THEN SnsIdle ELSE y)
          /\ snsMade' = snsMade /\ snsTopics' = snsTopics
          /\ snsSubs' = snsSubs /\ snsLoose' = snsLoose /\ snsTwin' = snsTwin
      BY <1>4 DEF LookForSubscription, snsTables, Existing
    <2>2. CASE EqualSubs(r.topic, r.endpoint) # {}
      <3>1. \A d \in SnsClients : snsReq'[d] = snsReq[d] \/ snsReq'[d] = SnsIdle
        BY <2>1, <2>2, ReqGoes DEF ShapeInv
      <3> QED
        BY <2>1, <3>1, IdleShape, TopicsFrame
    <2>3. CASE EqualSubs(r.topic, r.endpoint) = {}
      <3>1. TopicReq(y, snsTopics, snsSubs, snsMade)
        <4>1. snsMade.subs \in Nat /\ snsMade.subs <= snsMade.subs
          BY DEF ShapeInv
        <4>2. \A e \in DOMAIN snsSubs : ~(snsSubs[e].topic = r.topic /\ snsSubs[e].endpoint = r.endpoint)
          BY <2>3 DEF EqualSubs
        <4> QED
          BY <4>1, <4>2 DEF TopicReq
      <3> HIDE DEF y
      <3>2. \A d \in SnsClients : snsReq'[d] = snsReq[d] \/ snsReq'[d] = y
        BY <2>1, <2>3, ReqGoes DEF ShapeInv
      <3>3. \A d \in SnsClients : TopicReq(snsReq'[d], snsTopics', snsSubs', snsMade')
        BY <1>0, <2>1, <3>1, <3>2
      <3>4. EqualByOverlap' /\ SubscribedToTheirTopic' /\ LostByOverlap
        BY <2>1 DEF TopicsInv, EqualByOverlap, SubscribedToTheirTopic, LostByOverlap
      <3> QED
        BY <3>3, <3>4 DEF TopicsInv
    <2> QED
      BY <2>2, <2>3
  <1>5. ASSUME NEW c \in SnsClients, NEW t \in Topics, NEW q \in Endpoints, Subscribe(c, t, q)
        PROVE  TopicsInv' /\ LostByOverlap
    <2> DEFINE y == [at |-> "look", topic |-> t, born |-> snsTopics[t].born, endpoint |-> q]
    <2>1. /\ SnsGo(c, y) /\ y.at = "look" /\ snsMade' = snsMade /\ snsTopics' = snsTopics
          /\ snsSubs' = snsSubs /\ snsLoose' = snsLoose /\ snsTwin' = snsTwin
      BY <1>5 DEF Subscribe, snsTables
    <2> HIDE DEF y
    <2>2. \A d \in SnsClients : snsReq'[d] = snsReq[d] \/ snsReq'[d] = y
      BY <2>1, ReqGoes DEF ShapeInv
    <2> QED
      BY <2>1, <2>2, TopicsFrame
  <1>6. ASSUME NEW c \in SnsClients, NEW filter \in BOOLEAN, NEW redrive \in Redrives,
               InsertSubscription(c, filter, redrive)
        PROVE  TopicsInv' /\ LostByOverlap
    <2> DEFINE r == snsReq[c]
               s == snsMade.subs + 1
               row == [topic |-> r.topic, born |-> r.born, endpoint |-> r.endpoint,
                       filter |-> filter, redrive |-> redrive]
    <2>1. /\ r.at = "insert" /\ SnsGo(c, SnsIdle) /\ snsMade' = Counted("subs")
          /\ snsSubs' = Record(snsSubs, s, row) /\ snsTopics' = snsTopics
          /\ snsLoose' = (IF r.topic \in DOMAIN snsTopics /\ snsTopics[r.topic].born = r.born
                          THEN snsLoose ELSE snsLoose \cup {s})
          /\ snsTwin' = (IF \E e \in EqualSubs(r.topic, r.endpoint) : e > r.made
                         THEN snsTwin \cup {s} ELSE snsTwin)
      BY <1>6 DEF InsertSubscription
    <2>2. /\ snsMade'.subs = snsMade.subs + 1 /\ snsMade.subs \in Nat /\ s \notin DOMAIN snsSubs
          /\ s > snsMade.subs
      BY <2>1, MadeGrows DEF ShapeInv, SubRow
    <2>3. row.topic = r.topic /\ row.born = r.born /\ row.endpoint = r.endpoint
      OBVIOUS
    <2>4. TopicReq(r, snsTopics, snsSubs, snsMade)
      BY <1>0
    <2> HIDE DEF row
    <2>5. ASSUME NEW d \in SnsClients PROVE TopicReq(snsReq'[d], snsTopics', snsSubs', snsMade')
      <3>1. snsReq'[d] = snsReq[d] \/ snsReq'[d] = SnsIdle
        BY <2>1, ReqGoes DEF ShapeInv
      <3>2. CASE snsReq'[d] = SnsIdle
        BY <3>2, NothingRead, IdleShape
      <3>3. CASE snsReq'[d] = snsReq[d]
        <4>1. TopicReq(snsReq[d], snsTopics, snsSubs, snsMade)
          BY <1>0
        <4>2. \A e \in DOMAIN snsSubs' : e = s \/ (e \in DOMAIN snsSubs /\ snsSubs'[e] = snsSubs[e])
          BY <2>1 DEF Record
        <4>3. ASSUME snsReq[d].at = "insert"
              PROVE  /\ snsReq[d].made \in Nat /\ snsReq[d].made <= snsMade'.subs /\ s > snsReq[d].made
          BY <4>1, <4>3, <2>2 DEF TopicReq
        <4>4. ASSUME snsReq[d].at = "insert", NEW e \in DOMAIN snsSubs', snsSubs'[e].topic = snsReq[d].topic,
                     snsSubs'[e].endpoint = snsReq[d].endpoint
              PROVE  e > snsReq[d].made
          BY <4>1, <4>2, <4>3, <4>4 DEF TopicReq
        <4>5. snsReq[d].at = "attribute" /\ snsReq[d].overtaken = FALSE /\ snsReq[d].topic \in DOMAIN snsTopics' =>
                 snsTopics'[snsReq[d].topic].attrs \ {snsReq[d].name} \subseteq snsReq[d].attrs
          BY <4>1, <2>1 DEF TopicReq
        <4> QED
          BY <3>3, <4>3, <4>4, <4>5 DEF TopicReq
      <3> QED
        BY <3>1, <3>2, <3>3
    <2> HIDE DEF s, r
    <2>6. /\ DOMAIN snsSubs' = DOMAIN snsSubs \cup {s} /\ snsSubs'[s] = row
          /\ \A e \in DOMAIN snsSubs : snsSubs'[e] = snsSubs[e]
      BY <2>1, <2>2 DEF Record
    <2>7. LostByOverlap
      BY <2>1 DEF LostByOverlap
    <2>8. SubscribedToTheirTopic'
      <3> SUFFICES ASSUME NEW e \in DOMAIN snsSubs' \ snsLoose'
                   PROVE  /\ snsSubs'[e].topic \in DOMAIN snsTopics
                          /\ snsTopics[snsSubs'[e].topic].born = snsSubs'[e].born
        BY <2>1 DEF SubscribedToTheirTopic
      <3>1. CASE e = s
        BY <3>1, <2>1, <2>3, <2>6
      <3>2. CASE e \in DOMAIN snsSubs
        BY <3>2, <2>1, <2>6 DEF TopicsInv, SubscribedToTheirTopic
      <3> QED
        BY <3>1, <3>2, <2>6
    <2>9. EqualByOverlap'
      <3>1. ASSUME NEW e \in DOMAIN snsSubs, s \notin snsTwin'
            PROVE  ~(snsSubs[e].topic = r.topic /\ snsSubs[e].endpoint = r.endpoint)
        <4>1. ~\E d \in EqualSubs(r.topic, r.endpoint) : d > r.made
          BY <3>1, <2>1
        <4>2. e \in EqualSubs(r.topic, r.endpoint) => e > r.made
          BY <2>1, <2>4 DEF TopicReq, EqualSubs
        <4> QED
          BY <4>1, <4>2 DEF EqualSubs
      <3> SUFFICES ASSUME NEW d \in DOMAIN snsSubs' \ snsTwin', NEW e \in DOMAIN snsSubs' \ snsTwin', d # e
                   PROVE  ~(snsSubs'[d].topic = snsSubs'[e].topic /\ snsSubs'[d].endpoint = snsSubs'[e].endpoint)
        BY DEF EqualByOverlap
      <3>2. CASE d = s
        BY <3>1, <3>2, <2>3, <2>6
      <3>3. CASE e = s
        BY <3>1, <3>3, <2>3, <2>6
      <3>4. CASE d # s /\ e # s
        <4>1. d \in DOMAIN snsSubs \ snsTwin /\ e \in DOMAIN snsSubs \ snsTwin
          BY <3>4, <2>1, <2>6
        <4> QED
          BY <4>1, <2>6 DEF TopicsInv, EqualByOverlap
      <3> QED
        BY <3>2, <3>3, <3>4
    <2> QED
      BY <2>5, <2>7, <2>8, <2>9 DEF TopicsInv
  <1> QED
    BY <1>2, <1>3, <1>4, <1>5, <1>6 DEF SubscriptionRequest

LEMMA TopicsNext ==
    ASSUME ShapeInv, TopicsInv, [SnsNext]_snsVars
    PROVE  TopicsInv' /\ (LostByOverlap \/ UNCHANGED snsVars)
  <1>1. ASSUME NEW c \in SnsClients, NEW t, NEW passes, Publish(c, t, passes)
        PROVE  TopicsInv' /\ LostByOverlap
    BY <1>1, TopicsPublish DEF Publish
  <1>2. CASE PublishRequest
    BY <1>1, <1>2, TopicsFanOut DEF PublishRequest
  <1>3. CASE QueueRequest \/ CrashSns
    <2>1. /\ snsMade' = snsMade /\ snsTopics' = snsTopics
          /\ snsSubs' = snsSubs /\ snsLoose' = snsLoose /\ snsTwin' = snsTwin
          /\ \A d \in SnsClients : snsReq'[d] = snsReq[d] \/ snsReq'[d] = SnsIdle
      BY <1>3 DEF QueueRequest, CreateQueue, DeleteQueue, CrashSns, snsTables
    <2> QED
      BY <2>1, IdleShape, TopicsFrame
  <1>4. CASE UNCHANGED snsVars
    <2>1. /\ snsMade' = snsMade /\ snsTopics' = snsTopics
          /\ snsSubs' = snsSubs /\ snsLoose' = snsLoose /\ snsTwin' = snsTwin
          /\ \A d \in SnsClients : snsReq'[d] = snsReq[d] \/ snsReq'[d] = SnsIdle
      BY <1>4 DEF snsVars
    <2> QED
      BY <2>1, IdleShape, TopicsFrame
  <1> QED
    BY <1>2, <1>3, <1>4, TopicsTopics, TopicsSubscriptions DEF SnsNext

\* What topics and subscriptions lose, keep twice or keep too long is due to requests
\* that overlapped.
THEOREM TopicsAreKept == SnsSpec => TopicsKept
  <1>1. SnsInit => ShapeInv /\ TopicsInv
    <2>1. SnsInit => TopicsInv
      <3> SUFFICES ASSUME SnsInit PROVE TopicsInv
        OBVIOUS
      <3>1. DOMAIN snsSubs = {} /\ \A c \in SnsClients : snsReq[c] = SnsIdle
        BY DEF SnsInit
      <3> QED
        BY <3>1, IdleShape, NothingRead DEF TopicsInv, EqualByOverlap, SubscribedToTheirTopic
    <2> QED
      BY <2>1, ShapeInit
  <1>2. ShapeInv /\ TopicsInv /\ [SnsNext]_snsVars => (ShapeInv /\ TopicsInv)'
    BY ShapeNext, TopicsNext
  <1>3. ShapeInv /\ TopicsInv /\ [SnsNext]_snsVars =>
           [EqualByOverlap' /\ SubscribedToTheirTopic' /\ LostByOverlap]_snsVars
    BY TopicsNext DEF TopicsInv
  <1> QED
    BY <1>1, <1>2, <1>3, PTL DEF SnsSpec, TopicsKept

-----------------------------------------------------------------------------
(* Publishing: every subscription is offered the message *)

\* Of a message i and the table S of subscriptions.
Offered(i, S) == \A s \in i.due \cap DOMAIN S : (s \in i.tried) = (S[s].filter => i.passes)

\* What a publish r that is under way has left to do for its message i.
Offering(r, i, S) ==
    /\ i.passes = r.passes
    /\ \A s \in i.due \cap DOMAIN S : S[s].topic = r.topic
    /\ r.at \in {"sequence", "list"} => i.tried = {}
    /\ r.at \in Fanning => \A s \in i.due \cap DOMAIN S :
          /\ s \in DOMAIN r.rest => r.rest[s] = S[s] /\ s \notin i.tried
          /\ s \notin DOMAIN r.rest => (s \in i.tried) = (S[s].filter => i.passes)

OfferReq(r, N, S) == r.at \in Publishing => Offering(r, N[r.id], S)

\* A subscription that is due was made before.
DueMade(i, made) == \A s \in i.due : s \in Nat /\ s <= made.subs

\* No two publishes are about one message, and none about one that is recorded.
OpenApart ==
    /\ \A c \in SnsClients : snsReq[c].at \in Publishing => snsReq[c].id \notin DOMAIN snsMessages
    /\ \A c, d \in SnsClients : c # d /\ snsReq[c].at \in Publishing /\ snsReq[d].at \in Publishing
          => snsReq[c].id # snsReq[d].id

OfferInv ==
    /\ DOMAIN snsMessages \subseteq DOMAIN snsInfo
    /\ \A m \in DOMAIN snsInfo : DueMade(snsInfo[m], snsMade)
    /\ \A m \in DOMAIN snsMessages : Offered(snsInfo[m], snsSubs)
    /\ OpenApart
    /\ \A c \in SnsClients : OfferReq(snsReq[c], snsInfo, snsSubs)

\* No publish moves, and nothing changes but what is no longer due.
LEMMA OfferLess ==
    ASSUME ShapeInv, OfferInv, NEW gone, snsMade'.subs = snsMade.subs, snsMessages' = snsMessages,
           snsInfo' = snsInfo \/ NoLongerDue(gone),
           \A s \in DOMAIN snsSubs' : s \in DOMAIN snsSubs /\ (snsSubs'[s] = snsSubs[s] \/
              (NoLongerDue(gone) /\ s \in gone)),
           \A d \in SnsClients : snsReq'[d] = snsReq[d] \/ snsReq'[d].at \notin Publishing
    PROVE  OfferInv'
  <1>1. /\ DOMAIN snsInfo' = DOMAIN snsInfo
        /\ \A m \in DOMAIN snsInfo :
              /\ snsInfo'[m].passes = snsInfo[m].passes /\ snsInfo'[m].tried = snsInfo[m].tried
              /\ snsInfo'[m].due \subseteq snsInfo[m].due
              /\ \A s \in snsInfo'[m].due \cap DOMAIN snsSubs' : s \in DOMAIN snsSubs /\ snsSubs'[s] = snsSubs[s]
    <2>1. CASE NoLongerDue(gone)
      BY <2>1, InfoDue
    <2>2. CASE ~NoLongerDue(gone)
      BY <2>2
    <2> QED
      BY <2>1, <2>2
  <1>2. \A m \in DOMAIN snsMessages' : Offered(snsInfo'[m], snsSubs')
    <2> SUFFICES ASSUME NEW m \in DOMAIN snsMessages PROVE Offered(snsInfo'[m], snsSubs')
      OBVIOUS
    <2>1. m \in DOMAIN snsInfo /\ Offered(snsInfo[m], snsSubs)
      BY DEF OfferInv
    <2> QED
      BY <1>1, <2>1 DEF Offered
  <1>3. ASSUME NEW d \in SnsClients PROVE OfferReq(snsReq'[d], snsInfo', snsSubs')
    <2> SUFFICES ASSUME snsReq'[d].at \in Publishing
                 PROVE  Offering(snsReq[d], snsInfo'[snsReq[d].id], snsSubs') /\ snsReq'[d] = snsReq[d]
      BY DEF OfferReq
    <2>1. snsReq'[d] = snsReq[d] /\ snsReq[d].id \in DOMAIN snsInfo
      BY DEF ShapeInv
    <2>2. Offering(snsReq[d], snsInfo[snsReq[d].id], snsSubs)
      BY <2>1 DEF OfferInv, OfferReq
    <2> QED
      BY <2>1, <2>2, <1>1 DEF Offering
  <1>4. \A m \in DOMAIN snsInfo' : DueMade(snsInfo'[m], snsMade')
    BY <1>1 DEF OfferInv, DueMade
  <1>5. OpenApart'
    BY DEF OfferInv, OpenApart
  <1>6. DOMAIN snsMessages' \subseteq DOMAIN snsInfo'
    BY <1>1 DEF OfferInv
  <1> QED
    BY <1>2, <1>3, <1>4, <1>5, <1>6 DEF OfferInv

\* The publish of one client goes on with its message; all others stay.
LEMMA OfferGoes ==
    ASSUME ShapeInv, OfferInv, NEW c \in SnsClients, NEW m,
           snsMade'.subs = snsMade.subs, snsSubs' = snsSubs,
           DOMAIN snsInfo' = DOMAIN snsInfo \cup {m},
           \A n \in DOMAIN snsInfo \ {m} : snsInfo'[n] = snsInfo[n],
           DueMade(snsInfo'[m], snsMade),
           \A d \in SnsClients \ {c} : snsReq'[d] = snsReq[d],
           m \notin DOMAIN snsMessages,
           \A d \in SnsClients \ {c} : snsReq[d].at \in Publishing => snsReq[d].id # m,
           \/ snsMessages' = snsMessages /\ snsReq'[c].id = m /\ OfferReq(snsReq'[c], snsInfo', snsSubs)
           \/ /\ DOMAIN snsMessages' \subseteq DOMAIN snsMessages \cup {m} /\ snsReq'[c].at \notin Publishing
              /\ m \in DOMAIN snsMessages' => Offered(snsInfo'[m], snsSubs)
    PROVE  OfferInv'
  <1>1. DOMAIN snsMessages' \subseteq DOMAIN snsMessages \cup {m}
    OBVIOUS
  <1>2. DOMAIN snsMessages' \subseteq DOMAIN snsInfo'
    BY <1>1 DEF OfferInv
  <1>3. \A n \in DOMAIN snsMessages' : Offered(snsInfo'[n], snsSubs')
    <2> SUFFICES ASSUME NEW n \in DOMAIN snsMessages' PROVE Offered(snsInfo'[n], snsSubs)
      OBVIOUS
    <2>1. CASE n = m
      BY <2>1
    <2>2. CASE n # m
      BY <2>2, <1>1 DEF OfferInv
    <2> QED
      BY <2>1, <2>2
  <1>4. ASSUME NEW d \in SnsClients PROVE OfferReq(snsReq'[d], snsInfo', snsSubs')
    <2>1. CASE d = c
      BY <2>1 DEF OfferReq
    <2>2. CASE d # c
      <3> SUFFICES ASSUME snsReq[d].at \in Publishing
                   PROVE  Offering(snsReq[d], snsInfo'[snsReq[d].id], snsSubs)
        BY <2>2 DEF OfferReq
      <3>1. snsReq[d].id \in DOMAIN snsInfo /\ snsReq[d].id # m
        BY <2>2 DEF ShapeInv
      <3> QED
        BY <3>1 DEF OfferInv, OfferReq
    <2> QED
      BY <2>1, <2>2
  <1>5. \A n \in DOMAIN snsInfo' : DueMade(snsInfo'[n], snsMade')
    BY DEF OfferInv, DueMade
  <1>6. OpenApart'
    <2>1. \A d \in SnsClients : snsReq'[d].at \in Publishing => snsReq'[d].id \notin DOMAIN snsMessages'
      <3> SUFFICES ASSUME NEW d \in SnsClients, snsReq'[d].at \in Publishing
                   PROVE  snsReq'[d].id \notin DOMAIN snsMessages'
        OBVIOUS
      <3>1. CASE d = c
        BY <3>1
      <3>2. CASE d # c
        BY <3>2, <1>1 DEF OfferInv, OpenApart
      <3> QED
        BY <3>1, <3>2
    <2>2. \A d, e \in SnsClients : d # e /\ snsReq'[d].at \in Publishing /\ snsReq'[e].at \in Publishing
          => snsReq'[d].id # snsReq'[e].id
      <3> SUFFICES ASSUME NEW d \in SnsClients, NEW e \in SnsClients, d # e,
                          snsReq'[d].at \in Publishing, snsReq'[e].at \in Publishing
                   PROVE  snsReq'[d].id # snsReq'[e].id
        OBVIOUS
      <3>1. CASE d = c
        BY <3>1
      <3>2. CASE e = c
        BY <3>2
      <3>3. CASE d # c /\ e # c
        BY <3>3 DEF OfferInv, OpenApart
      <3> QED
        BY <3>1, <3>2, <3>3
    <2> QED
      BY <2>1, <2>2 DEF OpenApart
  <1> QED
    BY <1>2, <1>3, <1>4, <1>5, <1>6 DEF OfferInv

\* Requests on topics and subscriptions, on queues and a crash start no publish and
\* move none.
PublishesStay ==
    /\ \A d \in SnsClients : snsReq'[d] = snsReq[d] \/ snsReq'[d].at \notin Publishing
    /\ snsMessages' = snsMessages

LEMMA RequestsStay ==
    ASSUME ShapeInv, TopicRequest \/ SubscriptionRequest \/ QueueRequest \/ CrashSns \/ UNCHANGED snsVars
    PROVE  PublishesStay
  <1>0. ASSUME NEW c \in SnsClients, NEW y, SnsGo(c, y), y.at \notin Publishing
        PROVE  \A d \in SnsClients : snsReq'[d] = snsReq[d] \/ snsReq'[d].at \notin Publishing
    BY <1>0, ReqGoes DEF ShapeInv
  <1>1. ASSUME NEW b, NEW t, snsReq' = Overtake(b, t)
        PROVE  \A d \in SnsClients : snsReq'[d] = snsReq[d] \/ snsReq'[d].at \notin Publishing
    <2>1. \A d \in SnsClients : \/ snsReq'[d] = snsReq[d] \/ snsReq'[d] = SnsIdle
                                \/ snsReq'[d].at = "attribute"
      BY <1>1, Overtaken
    <2> QED
      BY <2>1, IdleShape DEF Publishing, Fanning
  <1>2. CASE TopicRequest
    <2>1. ASSUME NEW t \in Topics, DeleteTopic(t) PROVE PublishesStay
      BY <1>1, <2>1 DEF DeleteTopic, PublishesStay
    <2>2. ASSUME NEW c \in SnsClients, InsertTopic(c) PROVE PublishesStay
      BY <1>0, <2>2, IdleShape DEF InsertTopic, PublishesStay
    <2>3. ASSUME NEW c \in SnsClients, WriteTopicAttributes(c) PROVE PublishesStay
      <3>1. snsReq' = Overtake(c, snsReq[c].topic) /\ snsMessages' = snsMessages
        BY <2>3 DEF WriteTopicAttributes
      <3> QED
        BY <1>1, <3>1 DEF PublishesStay
    <2>4. ASSUME NEW c \in SnsClients, NEW t \in Topics, CreateTopic(c, t) PROVE PublishesStay
      <3> DEFINE y == [at |-> "create", topic |-> t]
      <3>1. SnsGo(c, y) /\ snsMessages' = snsMessages
        BY <2>4 DEF CreateTopic, snsTables
      <3>2. y.at \notin Publishing
        BY DEF Publishing, Fanning
      <3> HIDE DEF y
      <3> QED
        BY <1>0, <3>1, <3>2 DEF PublishesStay
    <2>5. ASSUME NEW c \in SnsClients, NEW t \in Topics, NEW a \in SnsAttrs, NEW on \in BOOLEAN,
                 SetTopicAttribute(c, t, a, on)
          PROVE  PublishesStay
      <3> DEFINE y == [at |-> "attribute", topic |-> t, name |-> a, overtaken |-> FALSE,
                       attrs |-> IF on THEN snsTopics[t].attrs \cup {a} ELSE snsTopics[t].attrs \ {a}]
      <3>1. SnsGo(c, y) /\ snsMessages' = snsMessages
        BY <2>5 DEF SetTopicAttribute, snsTables
      <3>2. y.at \notin Publishing
        BY DEF Publishing, Fanning
      <3> HIDE DEF y
      <3> QED
        BY <1>0, <3>1, <3>2 DEF PublishesStay
    <2> QED
      BY <1>2, <2>1, <2>2, <2>3, <2>4, <2>5 DEF TopicRequest
  <1>3. CASE SubscriptionRequest
    <2>1. ASSUME NEW s, Unsubscribe(s) PROVE PublishesStay
      BY <2>1 DEF Unsubscribe, PublishesStay
    <2>2. ASSUME NEW s, NEW filter, NEW redrive, SetSubscriptionAttribute(s, filter, redrive)
          PROVE  PublishesStay
      BY <2>2 DEF SetSubscriptionAttribute, PublishesStay
    <2>3. ASSUME NEW c \in SnsClients, LookForSubscription(c) PROVE PublishesStay
      <3> DEFINE r == snsReq[c]
                 y == [at |-> "insert", topic |-> r.topic, born |-> r.born,
                       endpoint |-> r.endpoint, made |-> snsMade.subs]
      <3>1. (SnsGo(c, SnsIdle) \/ SnsGo(c, y)) /\ snsMessages' = snsMessages
        BY <2>3 DEF LookForSubscription, snsTables
      <3>2. y.at \notin Publishing
        BY DEF Publishing, Fanning
      <3> HIDE DEF y
      <3> QED
        BY <1>0, <3>1, <3>2, IdleShape DEF PublishesStay
    <2>4. ASSUME NEW c \in SnsClients, NEW t \in Topics, NEW q \in Endpoints, Subscribe(c, t, q)
          PROVE  PublishesStay
      <3> DEFINE y == [at |-> "look", topic |-> t, born |-> snsTopics[t].born, endpoint |-> q]
      <3>1. SnsGo(c, y) /\ snsMessages' = snsMessages
        BY <2>4 DEF Subscribe, snsTables
      <3>2. y.at \notin Publishing
        BY DEF Publishing, Fanning
      <3> HIDE DEF y
      <3> QED
        BY <1>0, <3>1, <3>2 DEF PublishesStay
    <2>5. ASSUME NEW c \in SnsClients, NEW filter, NEW redrive, InsertSubscription(c, filter, redrive)
          PROVE  PublishesStay
      BY <1>0, <2>5, IdleShape DEF InsertSubscription, PublishesStay
    <2> QED
      BY <1>3, <2>1, <2>2, <2>3, <2>4, <2>5 DEF SubscriptionRequest
  <1>4. CASE QueueRequest \/ CrashSns \/ UNCHANGED snsVars
    BY <1>4, IdleShape DEF QueueRequest, CreateQueue, DeleteQueue, CrashSns, snsTables, snsVars, PublishesStay
  <1> QED
    BY <1>2, <1>3, <1>4

\* A subscription is inserted: it is due for no message that was begun.
LEMMA OfferInsert ==
    ASSUME ShapeInv, OfferInv, PublishesStay, NEW s, s = snsMade.subs + 1,
           snsMade'.subs = s, snsInfo' = snsInfo, DOMAIN snsSubs' = DOMAIN snsSubs \cup {s},
           \A e \in DOMAIN snsSubs \ {s} : snsSubs'[e] = snsSubs[e]
    PROVE  OfferInv'
  <1>0. snsMade.subs \in Nat
    BY DEF ShapeInv
  <1>1. \A m \in DOMAIN snsInfo : \A e \in snsInfo[m].due : e # s /\ e \in Nat /\ e <= snsMade'.subs
    BY <1>0 DEF OfferInv, DueMade
  <1>2. \A m \in DOMAIN snsInfo : \A e \in snsInfo[m].due \cap DOMAIN snsSubs' :
           e \in DOMAIN snsSubs /\ snsSubs'[e] = snsSubs[e]
    BY <1>1
  <1>3. \A m \in DOMAIN snsMessages' : Offered(snsInfo'[m], snsSubs')
    <2> SUFFICES ASSUME NEW m \in DOMAIN snsMessages PROVE Offered(snsInfo[m], snsSubs')
      BY DEF PublishesStay
    <2>1. m \in DOMAIN snsInfo /\ Offered(snsInfo[m], snsSubs)
      BY DEF OfferInv
    <2> QED
      BY <1>2, <2>1 DEF Offered
  <1>4. ASSUME NEW d \in SnsClients PROVE OfferReq(snsReq'[d], snsInfo', snsSubs')
    <2> SUFFICES ASSUME snsReq'[d].at \in Publishing
                 PROVE  Offering(snsReq[d], snsInfo[snsReq[d].id], snsSubs') /\ snsReq'[d] = snsReq[d]
      BY DEF OfferReq
    <2>1. snsReq'[d] = snsReq[d] /\ snsReq[d].id \in DOMAIN snsInfo
      BY DEF ShapeInv, PublishesStay
    <2>2. Offering(snsReq[d], snsInfo[snsReq[d].id], snsSubs)
      BY <2>1 DEF OfferInv, OfferReq
    <2> QED
      BY <2>1, <2>2, <1>2 DEF Offering
  <1>5. \A m \in DOMAIN snsInfo' : DueMade(snsInfo'[m], snsMade')
    BY <1>1 DEF DueMade
  <1>6. OpenApart'
    BY DEF OfferInv, OpenApart, PublishesStay
  <1>7. DOMAIN snsMessages' \subseteq DOMAIN snsInfo'
    BY DEF OfferInv, PublishesStay
  <1> QED
    BY <1>3, <1>4, <1>5, <1>6, <1>7 DEF OfferInv

LEMMA OfferRequests ==
    ASSUME ShapeInv, OfferInv,
           TopicRequest \/ SubscriptionRequest \/ QueueRequest \/ CrashSns \/ UNCHANGED snsVars
    PROVE  OfferInv'
  <1>0. PublishesStay
    BY RequestsStay
  <1>1. ASSUME snsMade'.subs = snsMade.subs, snsInfo' = snsInfo, snsSubs' = snsSubs
        PROVE  OfferInv'
    <2>1. /\ \A s \in DOMAIN snsSubs' : s \in DOMAIN snsSubs /\ snsSubs'[s] = snsSubs[s]
          /\ snsMessages' = snsMessages
          /\ \A d \in SnsClients : snsReq'[d] = snsReq[d] \/ snsReq'[d].at \notin Publishing
      BY <1>0, <1>1 DEF PublishesStay
    <2> QED
      BY <1>1, <2>1, OfferLess
  <1>2. ASSUME NEW gone, NoLongerDue(gone), snsMade' = snsMade,
               \A s \in DOMAIN snsSubs' : s \in DOMAIN snsSubs /\ (snsSubs'[s] = snsSubs[s] \/ s \in gone)
        PROVE  OfferInv'
    <2>1. /\ snsMessages' = snsMessages /\ snsMade'.subs = snsMade.subs
          /\ \A d \in SnsClients : snsReq'[d] = snsReq[d] \/ snsReq'[d].at \notin Publishing
      BY <1>0, <1>2 DEF PublishesStay
    <2> QED
      BY <1>2, <2>1, OfferLess
  <1>3. CASE TopicRequest
    <2>1. ASSUME NEW t \in Topics, DeleteTopic(t) PROVE OfferInv'
      <3> DEFINE gone == {s \in DOMAIN snsSubs : snsSubs[s].topic = t}
      <3>1. /\ NoLongerDue(gone) /\ snsMade' = snsMade
            /\ \A s \in DOMAIN snsSubs' : s \in DOMAIN snsSubs /\ snsSubs'[s] = snsSubs[s]
        BY <2>1 DEF DeleteTopic, Restrict, SubsKept
      <3> HIDE DEF gone
      <3> QED
        BY <1>2, <3>1
    <2>2. ASSUME NEW c \in SnsClients, InsertTopic(c) PROVE OfferInv'
      <3>1. snsMade' = snsMade \/ snsMade' = Counted("topics")
        BY <2>2 DEF InsertTopic
      <3>2. snsMade'.subs = snsMade.subs
        BY <3>1, MadeGrows DEF ShapeInv
      <3> QED
        BY <1>1, <2>2, <3>2 DEF InsertTopic
    <2>3. ASSUME NEW c \in SnsClients, WriteTopicAttributes(c) PROVE OfferInv'
      BY <1>1, <2>3 DEF WriteTopicAttributes
    <2>4. ASSUME NEW c \in SnsClients, NEW t \in Topics, CreateTopic(c, t) PROVE OfferInv'
      BY <1>1, <2>4 DEF CreateTopic, snsTables
    <2>5. ASSUME NEW c \in SnsClients, NEW t \in Topics, NEW a \in SnsAttrs, NEW on \in BOOLEAN,
                 SetTopicAttribute(c, t, a, on)
          PROVE  OfferInv'
      BY <1>1, <2>5 DEF SetTopicAttribute, snsTables
    <2> QED
      BY <1>3, <2>1, <2>2, <2>3, <2>4, <2>5 DEF TopicRequest
  <1>4. CASE SubscriptionRequest
    <2>1. ASSUME NEW s, Unsubscribe(s) PROVE OfferInv'
      BY <1>2, <2>1 DEF Unsubscribe, Restrict
    <2>2. ASSUME NEW s, NEW filter, NEW redrive, SetSubscriptionAttribute(s, filter, redrive)
          PROVE  OfferInv'
      <3>1. /\ NoLongerDue({s}) /\ snsMade' = snsMade
            /\ \A e \in DOMAIN snsSubs' : e \in DOMAIN snsSubs /\ (snsSubs'[e] = snsSubs[e] \/ e \in {s})
        BY <2>2 DEF SetSubscriptionAttribute
      <3> QED
        BY <1>2, <3>1
    <2>3. ASSUME NEW c \in SnsClients, LookForSubscription(c) PROVE OfferInv'
      BY <1>1, <2>3 DEF LookForSubscription, snsTables
    <2>4. ASSUME NEW c \in SnsClients, NEW t \in Topics, NEW q \in Endpoints, Subscribe(c, t, q)
          PROVE  OfferInv'
      BY <1>1, <2>4 DEF Subscribe, snsTables
    <2>5. ASSUME NEW c \in SnsClients, NEW filter, NEW redrive, InsertSubscription(c, filter, redrive)
          PROVE  OfferInv'
      <3> DEFINE s == snsMade.subs + 1
      <3>1. /\ snsMade' = Counted("subs") /\ snsInfo' = snsInfo
            /\ DOMAIN snsSubs' = DOMAIN snsSubs \cup {s}
            /\ \A e \in DOMAIN snsSubs \ {s} : snsSubs'[e] = snsSubs[e]
        BY <2>5 DEF InsertSubscription, Record
      <3>2. snsMade'.subs = s
        BY <3>1, MadeGrows DEF ShapeInv
      <3> QED
        BY <1>0, <3>1, <3>2, OfferInsert
    <2> QED
      BY <1>4, <2>1, <2>2, <2>3, <2>4, <2>5 DEF SubscriptionRequest
  <1>5. CASE QueueRequest \/ CrashSns \/ UNCHANGED snsVars
    BY <1>1, <1>5 DEF QueueRequest, CreateQueue, DeleteQueue, CrashSns, snsTables, snsVars
  <1> QED
    BY <1>3, <1>4, <1>5

LEMMA OfferFanOut ==
    ASSUME ShapeInv, OfferInv, NEW c \in SnsClients, FanOut(c)
    PROVE  OfferInv'
  <1> DEFINE r == snsReq[c]
             m == r.id
             i == snsInfo[m]
             y == snsReq'[c]
  <1>0. snsSubs' = snsSubs /\ snsMade' = snsMade
    BY DEF FanOut, NextSequence, ListSubscriptions, SendToRedrive, RecordMessage, Deliver, snsTables
  <1>1. /\ r.at \in Publishing /\ m \in DOMAIN snsInfo /\ m \notin DOMAIN snsMessages
        /\ DueMade(i, snsMade) /\ Offering(r, i, snsSubs)
        /\ \A d \in SnsClients \ {c} : snsReq[d].at \in Publishing => snsReq[d].id # m
    <2>1. r.at \in Publishing
      BY DEF FanOut, NextSequence, ListSubscriptions, SendToRedrive, RecordMessage, Deliver,
             Publishing, Fanning
    <2>2. m \in DOMAIN snsInfo
      BY <2>1 DEF ShapeInv
    <2> QED
      BY <2>1, <2>2 DEF OfferInv, OpenApart, OfferReq
  <1>2. ASSUME DOMAIN snsInfo' = DOMAIN snsInfo,
               \A n \in DOMAIN snsInfo \ {m} : snsInfo'[n] = snsInfo[n],
               snsInfo'[m].due = i.due,
               \A d \in SnsClients \ {c} : snsReq'[d] = snsReq[d],
               \/ /\ snsMessages' = snsMessages /\ y.id = m
                  /\ y.at \in Publishing => Offering(y, snsInfo'[m], snsSubs)
               \/ /\ DOMAIN snsMessages' \subseteq DOMAIN snsMessages \cup {m} /\ y.at \notin Publishing
                  /\ m \in DOMAIN snsMessages' => Offered(snsInfo'[m], snsSubs)
        PROVE  OfferInv'
    <2> HIDE DEF r, m, i, y
    <2>1. DueMade(snsInfo'[m], snsMade) /\ DOMAIN snsInfo' = DOMAIN snsInfo \cup {m}
      BY <1>1, <1>2 DEF DueMade
    <2>2. \/ snsMessages' = snsMessages /\ y.id = m /\ OfferReq(y, snsInfo', snsSubs)
          \/ /\ DOMAIN snsMessages' \subseteq DOMAIN snsMessages \cup {m} /\ y.at \notin Publishing
             /\ m \in DOMAIN snsMessages' => Offered(snsInfo'[m], snsSubs)
      BY <1>2 DEF OfferReq
    <2>3. snsMade'.subs = snsMade.subs /\ snsSubs' = snsSubs
      BY <1>0
    <2> QED
      BY <1>1, <1>2, <2>1, <2>2, <2>3, OfferGoes DEF y
  <1>3. CASE NextSequence(c)
    <2>0. r.at = "sequence" /\ snsMessages' = snsMessages
      BY <1>3 DEF NextSequence
    <2>1. CASE r.topic \in DOMAIN snsTopics
      <3>1. /\ y.at = "list" /\ y.id = m /\ y.topic = r.topic /\ y.passes = r.passes
            /\ DOMAIN snsInfo' = DOMAIN snsInfo
            /\ \A n \in DOMAIN snsInfo \ {m} : snsInfo'[n] = snsInfo[n]
            /\ snsInfo'[m].passes = i.passes /\ snsInfo'[m].tried = i.tried /\ snsInfo'[m].due = i.due
        BY <1>1, <1>3, <2>1, SequenceTaken
      <3>2. \A d \in SnsClients \ {c} : snsReq'[d] = snsReq[d]
        BY <1>3, <2>1 DEF NextSequence, SnsGo, ShapeInv
      <3> HIDE DEF r, m, i, y
      <3>3. Offering(y, snsInfo'[m], snsSubs)
        BY <1>1, <2>0, <3>1 DEF Offering, Fanning
      <3> QED
        BY <1>2, <2>0, <3>1, <3>2, <3>3
    <2>2. CASE r.topic \notin DOMAIN snsTopics
      <3>1. SnsGo(c, SnsIdle) /\ snsInfo' = snsInfo
        BY <1>3, <2>2 DEF NextSequence
      <3>2. y = SnsIdle /\ \A d \in SnsClients \ {c} : snsReq'[d] = snsReq[d]
        BY <3>1, ReqGoes DEF ShapeInv
      <3>3. y.at \notin Publishing
        BY <3>2, IdleShape
      <3> HIDE DEF r, m, i, y
      <3> QED
        BY <1>1, <1>2, <2>0, <3>1, <3>2, <3>3 DEF i
    <2> QED
      BY <2>1, <2>2
  <1>4. CASE ListSubscriptions(c)
    <2>1. /\ r.at = "list" /\ \A d \in SnsClients \ {c} : snsReq'[d] = snsReq[d]
          /\ y.at = "fan" /\ y.id = m /\ y.topic = r.topic /\ y.passes = r.passes
          /\ DOMAIN y.rest = SubsOf(r.topic) /\ \A s \in DOMAIN y.rest : y.rest[s] = snsSubs[s]
      BY <1>4, Listed
    <2>2. snsInfo' = snsInfo /\ snsMessages' = snsMessages
      BY <1>4 DEF ListSubscriptions, snsTables
    <2> HIDE DEF r, m, i, y
    <2>3. Offering(y, i, snsSubs)
      BY <1>1, <2>1 DEF Offering, Fanning, SubsOf
    <2> QED
      BY <1>2, <2>1, <2>2, <2>3 DEF i
  <1>5. CASE SendToRedrive(c)
    <2>1. /\ r.at = "redrive" /\ \A d \in SnsClients \ {c} : snsReq'[d] = snsReq[d]
          /\ y.at = "fan" /\ y.id = m /\ y.topic = r.topic /\ y.passes = r.passes /\ y.rest = r.rest
      BY <1>5, Redriven
    <2>2. snsInfo' = snsInfo /\ snsMessages' = snsMessages
      BY <1>5 DEF SendToRedrive
    <2> HIDE DEF r, m, i, y
    <2>3. Offering(y, i, snsSubs)
      BY <1>1, <2>1 DEF Offering, Fanning
    <2> QED
      BY <1>2, <2>1, <2>2, <2>3 DEF i
  <1>6. CASE RecordMessage(c)
    <2>1. /\ r.at = "fan" /\ r.rest = <<>> /\ SnsGo(c, SnsIdle) /\ snsInfo' = snsInfo
          /\ DOMAIN snsMessages' = DOMAIN snsMessages \cup {m}
      BY <1>6 DEF RecordMessage, Record
    <2>2. y = SnsIdle /\ \A d \in SnsClients \ {c} : snsReq'[d] = snsReq[d]
      BY <2>1, ReqGoes DEF ShapeInv
    <2>3. y.at \notin Publishing
      BY <2>2, IdleShape
    <2> HIDE DEF r, m, i, y
    <2>4. Offered(i, snsSubs)
      BY <1>1, <2>1 DEF Offering, Offered, Fanning
    <2> QED
      BY <1>2, <2>1, <2>2, <2>3, <2>4 DEF i
  <1>7. ASSUME NEW s, Deliver(c, s) PROVE OfferInv'
    <2>1. /\ r.at = "fan" /\ s \in DOMAIN r.rest
          /\ \A d \in SnsClients \ {c} : snsReq'[d] = snsReq[d]
          /\ y.at \in Fanning /\ y.id = m /\ y.topic = r.topic /\ y.passes = r.passes
          /\ DOMAIN y.rest = DOMAIN r.rest \ {s}
          /\ \A e \in DOMAIN y.rest : y.rest[e] = r.rest[e]
          /\ DOMAIN snsInfo' = DOMAIN snsInfo
          /\ \A n \in DOMAIN snsInfo \ {m} : snsInfo'[n] = snsInfo[n]
          /\ snsInfo'[m].passes = i.passes /\ snsInfo'[m].due = i.due
          /\ snsInfo'[m].tried = IF PassesFilter(r.rest[s], r.passes) THEN i.tried \cup {s} ELSE i.tried
      BY <1>1, <1>7, DeliverDone
    <2>2. snsMessages' = snsMessages
      BY <1>7 DEF Deliver
    <2> HIDE DEF r, m, i, y
    <2>3. Offering(y, snsInfo'[m], snsSubs)
      <3>1. /\ i.passes = r.passes
            /\ \A e \in i.due \cap DOMAIN snsSubs : snsSubs[e].topic = r.topic
            /\ \A e \in i.due \cap DOMAIN snsSubs :
                  /\ e \in DOMAIN r.rest => r.rest[e] = snsSubs[e] /\ e \notin i.tried
                  /\ e \notin DOMAIN r.rest => (e \in i.tried) = (snsSubs[e].filter => i.passes)
        BY <1>1, <2>1 DEF Offering, Fanning
      <3>2. ASSUME NEW e \in i.due \cap DOMAIN snsSubs
            PROVE  /\ e \in DOMAIN y.rest => y.rest[e] = snsSubs[e] /\ e \notin snsInfo'[m].tried
                   /\ e \notin DOMAIN y.rest =>
                         (e \in snsInfo'[m].tried) = (snsSubs[e].filter => snsInfo'[m].passes)
        <4>1. CASE e # s
          BY <2>1, <3>1, <3>2, <4>1
        <4>2. CASE e = s
          <5>1. r.rest[s] = snsSubs[s] /\ s \notin i.tried /\ s \notin DOMAIN y.rest
            BY <2>1, <3>1, <3>2, <4>2
          <5>2. (s \in snsInfo'[m].tried) = (snsSubs[s].filter => snsInfo'[m].passes)
            BY <2>1, <3>1, <5>1 DEF PassesFilter
          <5> QED
            BY <4>2, <5>1, <5>2
        <4> QED
          BY <4>1, <4>2
      <3>3. y.at \notin {"sequence", "list"}
        BY <2>1 DEF Fanning
      <3> QED
        BY <2>1, <3>1, <3>2, <3>3 DEF Offering
    <2> QED
      BY <1>2, <2>1, <2>2, <2>3
  <1> QED
    BY <1>3, <1>4, <1>5, <1>6, <1>7 DEF FanOut

\* A publish begins, of a message that nobody publishes and that was not recorded.
LEMMA OfferStart ==
    ASSUME ShapeInv, OfferInv, NEW c \in SnsClients, NEW t, NEW m, NEW passes, NEW earlier,
           StartPublish(c, t, m, passes, earlier), m \notin DOMAIN snsMessages,
           \A d \in SnsClients : snsReq[d].at \in Publishing => snsReq[d].id # m,
           snsMade'.subs = snsMade.subs, snsSubs' = snsSubs, snsMessages' = snsMessages
    PROVE  OfferInv'
  <1>1. Started(c, t, m, passes, earlier)
    BY PublishStarted
  <1>2. DueMade(snsInfo'[m], snsMade)
    BY <1>1 DEF Started, SubsOf, DueMade, ShapeInv, SubRow
  <1>3. OfferReq(snsReq'[c], snsInfo', snsSubs) /\ snsReq'[c].id = m
    BY <1>1 DEF Started, OfferReq, Offering, SubsOf, Fanning
  <1>4. /\ DOMAIN snsInfo' = DOMAIN snsInfo \cup {m}
        /\ \A n \in DOMAIN snsInfo \ {m} : snsInfo'[n] = snsInfo[n]
        /\ \A d \in SnsClients \ {c} : snsReq'[d] = snsReq[d]
    BY <1>1 DEF Started
  <1> QED
    BY <1>2, <1>3, <1>4, OfferGoes

\* The number of a message that is published from the outside is new.
LEMMA NewMessage ==
    ASSUME ShapeInv, NEW m, m = snsMade.messages + 1
    PROVE  /\ m \notin DOMAIN snsInfo
           /\ \A d \in SnsClients : snsReq[d].at \in Publishing => snsReq[d].id # m
  <1>1. snsMade.messages \in Nat
    BY DEF ShapeInv
  <1>2. m \notin DOMAIN snsInfo
    BY <1>1 DEF ShapeInv, InfoRow
  <1> QED
    BY <1>2 DEF ShapeInv

LEMMA OfferPublish ==
    ASSUME ShapeInv, OfferInv, NEW c \in SnsClients, NEW t, NEW passes, NEW earlier,
           PublishAfter(c, t, passes, earlier)
    PROVE  OfferInv'
  <1> DEFINE m == snsMade.messages + 1
  <1>1. /\ StartPublish(c, t, m, passes, earlier) /\ snsMade' = Counted("messages")
        /\ snsSubs' = snsSubs /\ snsMessages' = snsMessages
    BY DEF PublishAfter
  <1>2. snsMade'.subs = snsMade.subs
    BY <1>1, MadeGrows DEF ShapeInv
  <1>3. m \notin DOMAIN snsMessages /\ \A d \in SnsClients : snsReq[d].at \in Publishing => snsReq[d].id # m
    BY NewMessage DEF OfferInv
  <1> HIDE DEF m
  <1> QED
    BY <1>1, <1>2, <1>3, OfferStart

\* A message that was answered for was offered to all whose filter it passes, and to
\* nobody else.
THEOREM OffersToAll == SnsSpec => []OfferedToAll
  <1>1. SnsInit => ShapeInv /\ OfferInv
    <2>1. SnsInit => OfferInv
      <3> SUFFICES ASSUME SnsInit PROVE OfferInv
        OBVIOUS
      <3>1. DOMAIN snsMessages = {} /\ DOMAIN snsInfo = {} /\ \A c \in SnsClients : snsReq[c] = SnsIdle
        BY DEF SnsInit
      <3> QED
        BY <3>1, IdleShape DEF OfferInv, OpenApart, OfferReq
    <2> QED
      BY <2>1, ShapeInit
  <1>2. ShapeInv /\ OfferInv /\ [SnsNext]_snsVars => (ShapeInv /\ OfferInv)'
    <2> SUFFICES ASSUME ShapeInv, OfferInv, [SnsNext]_snsVars PROVE OfferInv'
      BY ShapeNext
    <2>1. CASE PublishRequest
      BY <2>1, OfferFanOut, OfferPublish DEF PublishRequest, Publish
    <2> QED
      BY <2>1, OfferRequests DEF SnsNext
  <1>3. OfferInv => OfferedToAll
    BY DEF OfferInv, Offered, OfferedToAll
  <1> QED
    BY <1>1, <1>2, <1>3, PTL DEF SnsSpec

-----------------------------------------------------------------------------
(* Publishing: in order *)

\* Of the messages N: those that were answered before a message are not among the open ones B.
Earlier(N, B) == \A n \in DOMAIN N : N[n].earlier \subseteq DOMAIN N \ B

QueueOf(s, N) ==
    /\ s \in Seq(DOMAIN N)
    /\ \A i, j \in DOMAIN s : s[i] \in N[s[j]].earlier => i < j

Arrivals(Q, N, B) == Earlier(N, B) /\ \A q \in DOMAIN Q : QueueOf(Q[q], N)

\* More messages, and the same answers before each.
SameEarlier(N, M) == DOMAIN N \subseteq DOMAIN M /\ \A n \in DOMAIN N : M[n].earlier = N[n].earlier

LEMMA QueueFrame ==
    ASSUME NEW s, NEW N, NEW M, QueueOf(s, N), SameEarlier(N, M)
    PROVE  QueueOf(s, M)
  <1>1. s \in Seq(DOMAIN N) /\ \A i \in DOMAIN s : s[i] \in DOMAIN N
    BY DEF QueueOf
  <1>2. s \in Seq(DOMAIN M)
    BY <1>1 DEF SameEarlier
  <1> QED
    BY <1>1, <1>2 DEF QueueOf, SameEarlier

LEMMA QueueAppend ==
    ASSUME NEW s, NEW N, NEW B, QueueOf(s, N), Earlier(N, B), NEW m \in B \cap DOMAIN N
    PROVE  QueueOf(Append(s, m), N)
  <1> DEFINE z == Append(s, m)
  <1>1. s \in Seq(DOMAIN N) /\ \A i \in DOMAIN s : s[i] \in DOMAIN N
    BY DEF QueueOf
  <1>2. z \in Seq(DOMAIN N)
    BY <1>1
  <1>3. /\ DOMAIN z = 1..(Len(s) + 1) /\ DOMAIN s = 1..Len(s) /\ Len(s) \in Nat
        /\ z[Len(s) + 1] = m /\ \A i \in DOMAIN s : z[i] = s[i]
    BY <1>1
  <1> HIDE DEF z
  <1>4. ASSUME NEW i \in DOMAIN z, NEW j \in DOMAIN z, z[i] \in N[z[j]].earlier PROVE i < j
    <2>0. z[j] \in DOMAIN N
      BY <1>2
    <2>1. z[i] # m
      BY <1>4, <2>0 DEF Earlier
    <2>2. i \in DOMAIN s /\ i <= Len(s) /\ z[i] = s[i]
      BY <1>3, <2>1
    <2>3. CASE j \in DOMAIN s
      BY <1>3, <1>4, <2>2, <2>3 DEF QueueOf
    <2>4. CASE j \notin DOMAIN s
      BY <1>3, <2>2, <2>4
    <2> QED
      BY <2>3, <2>4
  <1> QED
    BY <1>2, <1>4 DEF QueueOf, z

\* Nothing arrives but one open message, at the end of a queue.
LEMMA ArrivalsKept ==
    ASSUME NEW B, NEW C, Arrivals(sqsQueues, snsInfo, B), SameEarlier(snsInfo, snsInfo'),
           Earlier(snsInfo', C),
           \/ \A q \in DOMAIN sqsQueues' : \/ q \in DOMAIN sqsQueues /\ sqsQueues'[q] = sqsQueues[q]
                                         \/ sqsQueues'[q] = <<>>
           \/ \E q \in DOMAIN sqsQueues, m \in B \cap DOMAIN snsInfo : Arrive(q, m)
    PROVE  Arrivals(sqsQueues', snsInfo', C)
  <1> SUFFICES ASSUME NEW p \in DOMAIN sqsQueues' PROVE QueueOf(sqsQueues'[p], snsInfo')
    BY DEF Arrivals
  <1>1. CASE p \in DOMAIN sqsQueues /\ sqsQueues'[p] = sqsQueues[p]
    BY <1>1, QueueFrame DEF Arrivals
  <1>3. CASE sqsQueues'[p] = <<>>
    BY <1>3 DEF QueueOf
  <1>2. ASSUME NEW q \in DOMAIN sqsQueues, NEW m \in B \cap DOMAIN snsInfo, Arrive(q, m)
        PROVE  QueueOf(sqsQueues'[p], snsInfo')
    <2>1. p \in DOMAIN sqsQueues
          /\ sqsQueues'[p] = IF p = q THEN Append(sqsQueues[p], m) ELSE sqsQueues[p]
      BY <1>2 DEF Arrive
    <2>2. QueueOf(sqsQueues[p], snsInfo) /\ Earlier(snsInfo, B)
      BY <2>1 DEF Arrivals
    <2>3. QueueOf(Append(sqsQueues[p], m), snsInfo)
      BY <2>2, QueueAppend
    <2> QED
      BY <2>1, <2>2, <2>3, QueueFrame
  <1> QED
    BY <1>1, <1>2, <1>3

\* Fewer are open, and nothing else changed.
LEMMA EarlierFewer ==
    ASSUME NEW N, NEW M, NEW B, NEW C, Earlier(N, B), C \subseteq B, SameEarlier(N, M), DOMAIN M = DOMAIN N
    PROVE  Earlier(M, C)
  BY DEF Earlier, SameEarlier

\* Message m is new and open.
LEMMA EarlierMore ==
    ASSUME NEW N, NEW M, NEW B, NEW C, NEW m, Earlier(N, B), m \notin DOMAIN N, C \subseteq B \cup {m},
           SameEarlier(N, M), DOMAIN M = DOMAIN N \cup {m}, M[m].earlier \subseteq DOMAIN N \ C
    PROVE  Earlier(M, C)
  BY DEF Earlier, SameEarlier

\* What is known of a message when a step is not about it.
Alike(i, j) == i.topic = j.topic /\ i.born = j.born /\ i.seq = j.seq /\ i.earlier = j.earlier

\* The numbers of a topic are those it has given.
Numbered(i, T, made) ==
    i.seq # 0 =>
        /\ i.born \in Nat /\ i.born < made.topics
        /\ i.topic \in DOMAIN T /\ T[i.topic].born = i.born => i.seq <= T[i.topic].fifo_seq

NumberInv ==
    /\ \A m \in DOMAIN snsInfo : Numbered(snsInfo[m], snsTopics, snsMade)
    /\ SequencesIncrease
    /\ \A c \in SnsClients : snsReq[c].at \in Publishing => snsInfo[snsReq[c].id].topic = snsReq[c].topic

\* Topics as they were, or new.
TopicsStay ==
    /\ snsMade' \in MadeType /\ snsMade.topics <= snsMade'.topics
    /\ \A x \in DOMAIN snsTopics' :
          \/ x \in DOMAIN snsTopics /\ snsTopics'[x].born = snsTopics[x].born
             /\ snsTopics'[x].fifo_seq = snsTopics[x].fifo_seq
          \/ snsTopics'[x].born = snsMade.topics

LEMMA NumbersFrame ==
    ASSUME ShapeInv, NumberInv, TopicsStay, DOMAIN snsInfo' = DOMAIN snsInfo,
           \A m \in DOMAIN snsInfo : Alike(snsInfo[m], snsInfo'[m]),
           \A d \in SnsClients : snsReq'[d].at \in Publishing =>
              /\ snsReq[d].at \in Publishing /\ snsReq'[d].id = snsReq[d].id
              /\ snsReq'[d].topic = snsReq[d].topic
    PROVE  NumberInv'
  <1>1. ASSUME NEW m \in DOMAIN snsInfo' PROVE Numbered(snsInfo'[m], snsTopics', snsMade')
    <2>1. Numbered(snsInfo[m], snsTopics, snsMade) /\ Alike(snsInfo[m], snsInfo'[m])
      BY <1>1 DEF NumberInv
    <2>2. snsMade.topics \in Nat /\ snsMade'.topics \in Nat /\ snsMade.topics <= snsMade'.topics
      BY DEF ShapeInv, TopicsStay, MadeType
    <2> QED
      BY <2>1, <2>2 DEF Numbered, Alike, TopicsStay
  <1>2. SequencesIncrease'
    BY DEF NumberInv, SequencesIncrease, Alike
  <1>3. \A c \in SnsClients : snsReq'[c].at \in Publishing => snsInfo'[snsReq'[c].id].topic = snsReq'[c].topic
    BY DEF NumberInv, ShapeInv, Alike
  <1> QED
    BY <1>1, <1>2, <1>3 DEF NumberInv

\* A number is taken: no message that came later than this one is numbered yet.
LEMMA NumbersTaken ==
    ASSUME ShapeInv, NumberInv, NEW B, Earlier(snsInfo, B), NEW c \in SnsClients, NextSequence(c),
           snsReq[c].topic \in DOMAIN snsTopics, snsReq[c].id \in B
    PROVE  /\ NumberInv' /\ SameEarlier(snsInfo, snsInfo') /\ DOMAIN snsInfo' = DOMAIN snsInfo
           /\ \A n \in DOMAIN snsInfo : snsInfo'[n].topic = snsInfo[n].topic
  <1> DEFINE r == snsReq[c]
             m == r.id
             T == snsTopics
             row == T[r.topic]
             j == snsInfo'[m]
  <1>0. r.at = "sequence" /\ snsMade' = snsMade
    BY DEF NextSequence
  <1>1. m \in DOMAIN snsInfo /\ snsInfo[m].topic = r.topic
    BY <1>0 DEF ShapeInv, NumberInv, Publishing
  <1>2. /\ snsReq'[c].id = m /\ snsReq'[c].topic = r.topic
        /\ DOMAIN snsTopics' = DOMAIN T /\ DOMAIN snsInfo' = DOMAIN snsInfo
        /\ \A x \in DOMAIN T :
              /\ snsTopics'[x].born = T[x].born
              /\ snsTopics'[x].fifo_seq = IF x = r.topic THEN T[x].fifo_seq + 1 ELSE T[x].fifo_seq
        /\ \A n \in DOMAIN snsInfo \ {m} : snsInfo'[n] = snsInfo[n]
        /\ j.topic = r.topic /\ j.earlier = snsInfo[m].earlier
        /\ j.seq = row.fifo_seq + 1 /\ j.born = row.born
    BY <1>1, SequenceTaken
  <1>3. \A d \in SnsClients \ {c} : snsReq'[d] = snsReq[d]
    BY DEF NextSequence, SnsGo, ShapeInv
  <1>4. /\ row.fifo_seq \in Nat /\ row.born \in Nat /\ row.born < snsMade.topics
        /\ \A x \in DOMAIN T : T[x].fifo_seq \in Nat
        /\ \A n \in DOMAIN snsInfo : snsInfo[n].seq \in Nat
    BY DEF ShapeInv, TopicRow, InfoRow
  <1> HIDE DEF r, m, row, j, T
  <1>5. ASSUME NEW n \in DOMAIN snsInfo' PROVE Numbered(snsInfo'[n], snsTopics', snsMade')
    <2>1. CASE n = m
      BY <2>1, <1>0, <1>2, <1>4 DEF Numbered, j, row
    <2>2. CASE n # m
      <3>1. Numbered(snsInfo[n], T, snsMade) /\ snsInfo'[n] = snsInfo[n] /\ n \in DOMAIN snsInfo
        BY <1>2, <1>5, <2>2 DEF NumberInv, T
      <3> QED
        BY <3>1, <1>0, <1>2, <1>4 DEF Numbered
    <2> QED
      BY <2>1, <2>2
  <1>6. ASSUME NEW n \in DOMAIN snsInfo, n # m, snsInfo[n].seq # 0,
               snsInfo[n].topic = j.topic, snsInfo[n].born = j.born
        PROVE  snsInfo[n].seq < j.seq
    <2>1. Numbered(snsInfo[n], T, snsMade)
      BY DEF NumberInv, T
    <2>2. snsInfo[n].seq <= row.fifo_seq
      BY <2>1, <1>2, <1>6 DEF Numbered, row, r, T
    <2> QED
      BY <2>2, <1>2, <1>4
  <1>7. SequencesIncrease'
    <2> SUFFICES ASSUME NEW a \in DOMAIN snsInfo, NEW b \in DOMAIN snsInfo, a # b,
                        snsInfo'[a].seq # 0, snsInfo'[b].seq # 0,
                        snsInfo'[a].topic = snsInfo'[b].topic, snsInfo'[a].born = snsInfo'[b].born
                 PROVE  /\ snsInfo'[a].seq # snsInfo'[b].seq
                        /\ a \in snsInfo'[b].earlier => snsInfo'[a].seq < snsInfo'[b].seq
      BY <1>2 DEF SequencesIncrease
    <2>1. CASE a # m /\ b # m
      BY <2>1, <1>2 DEF NumberInv, SequencesIncrease
    <2>2. CASE a = m
      <3>1. snsInfo'[b] = snsInfo[b] /\ b # m
        BY <2>2, <1>2
      <3>2. snsInfo[b].seq < j.seq /\ snsInfo[b].seq \in Nat /\ j.seq \in Nat
        BY <3>1, <2>2, <1>2, <1>4, <1>6 DEF j
      <3>3. a \notin snsInfo[b].earlier
        BY <2>2 DEF Earlier, m, r
      <3> QED
        BY <2>2, <3>1, <3>2, <3>3 DEF j
    <2>3. CASE b = m
      <3>1. snsInfo'[a] = snsInfo[a] /\ a # m
        BY <2>3, <1>2
      <3>2. snsInfo[a].seq < j.seq /\ snsInfo[a].seq \in Nat /\ j.seq \in Nat
        BY <3>1, <2>3, <1>2, <1>4, <1>6 DEF j
      <3> QED
        BY <2>3, <3>1, <3>2 DEF j
    <2> QED
      BY <2>1, <2>2, <2>3
  <1>8. \A n \in DOMAIN snsInfo : snsInfo'[n].topic = snsInfo[n].topic /\ snsInfo'[n].earlier = snsInfo[n].earlier
    BY <1>1, <1>2 DEF j
  <1>9. ASSUME NEW d \in SnsClients, snsReq'[d].at \in Publishing
        PROVE  snsInfo'[snsReq'[d].id].topic = snsReq'[d].topic
    <2>1. CASE d = c
      BY <2>1, <1>2 DEF j
    <2>2. CASE d # c
      BY <2>2, <1>3, <1>8, <1>9 DEF NumberInv, ShapeInv
    <2> QED
      BY <2>1, <2>2
  <1>10. NumberInv'
    BY <1>5, <1>7, <1>9 DEF NumberInv
  <1> QED
    BY <1>2, <1>8, <1>10 DEF SameEarlier

\* A message is begun, or begun again: it has no number.
LEMMA NumbersStart ==
    ASSUME ShapeInv, NumberInv, NEW m, snsTopics' = snsTopics, snsMade'.topics = snsMade.topics,
           DOMAIN snsInfo' = DOMAIN snsInfo \cup {m},
           \A n \in DOMAIN snsInfo \ {m} : snsInfo'[n] = snsInfo[n], snsInfo'[m].seq = 0,
           \A d \in SnsClients : snsReq'[d].at \in Publishing =>
              \/ snsReq'[d] = snsReq[d] /\ snsReq[d].id # m
              \/ snsReq'[d].id = m /\ snsInfo'[m].topic = snsReq'[d].topic
    PROVE  NumberInv'
  <1>1. \A n \in DOMAIN snsInfo' : Numbered(snsInfo'[n], snsTopics', snsMade')
    BY DEF NumberInv, Numbered
  <1>2. SequencesIncrease'
    BY DEF NumberInv, SequencesIncrease
  <1>3. \A d \in SnsClients : snsReq'[d].at \in Publishing => snsInfo'[snsReq'[d].id].topic = snsReq'[d].topic
    BY DEF NumberInv, ShapeInv
  <1> QED
    BY <1>1, <1>2, <1>3 DEF NumberInv

\* No publish begins; those under way remain what they are.
NoneBegins ==
    \A d \in SnsClients : snsReq'[d].at \in Publishing =>
        /\ snsReq[d].at \in Publishing /\ snsReq'[d].id = snsReq[d].id
        /\ snsReq'[d].topic = snsReq[d].topic

LEMMA OpenFewer ==
    ASSUME NoneBegins PROVE Open' \subseteq Open
  <1>1. Open = {snsReq[c].id : c \in {d \in SnsClients : snsReq[d].at \in Publishing}}
    BY DEF Open, Publishing, Fanning
  <1>2. Open' = {snsReq'[c].id : c \in {d \in SnsClients : snsReq'[d].at \in Publishing}}
    BY DEF Open, Publishing, Fanning
  <1> QED
    BY <1>1, <1>2 DEF NoneBegins

LEMMA OpenIsOpen ==
    ASSUME NEW c \in SnsClients, snsReq[c].at \in Publishing PROVE snsReq[c].id \in Open
  BY DEF Open, Publishing, Fanning

LEMMA OpenMore ==
    ASSUME NEW c \in SnsClients, NEW m, snsReq'[c].id = m,
           \A d \in SnsClients \ {c} : snsReq'[d] = snsReq[d]
    PROVE  Open' \subseteq Open \cup {m}
  <1>1. Open = {snsReq[d].id : d \in {e \in SnsClients : snsReq[e].at \in Publishing}}
    BY DEF Open, Publishing, Fanning
  <1>2. Open' = {snsReq'[d].id : d \in {e \in SnsClients : snsReq'[e].at \in Publishing}}
    BY DEF Open, Publishing, Fanning
  <1> QED
    BY <1>1, <1>2

\* What a step that begins no publish does to the messages and the queues.
Orderly(B) ==
    /\ NumberInv' /\ NoneBegins
    /\ SameEarlier(snsInfo, snsInfo') /\ DOMAIN snsInfo' = DOMAIN snsInfo
    /\ \A n \in DOMAIN snsInfo : snsInfo'[n].topic = snsInfo[n].topic
    /\ \/ \A q \in DOMAIN sqsQueues' : \/ q \in DOMAIN sqsQueues /\ sqsQueues'[q] = sqsQueues[q]
                                       \/ sqsQueues'[q] = <<>>
       \/ \E q \in DOMAIN sqsQueues, m \in B \cap DOMAIN snsInfo : Arrive(q, m)

LEMMA OrderlyRequests ==
    ASSUME ShapeInv, NumberInv, NEW B,
           TopicRequest \/ SubscriptionRequest \/ QueueRequest \/ CrashSns \/ UNCHANGED snsVars
    PROVE  Orderly(B)
  <1>0. NoneBegins
    BY RequestsStay DEF PublishesStay, NoneBegins
  <1>1. \A q \in DOMAIN sqsQueues' : \/ q \in DOMAIN sqsQueues /\ sqsQueues'[q] = sqsQueues[q]
                                     \/ sqsQueues'[q] = <<>>
    <2>1. CASE QueueRequest
      BY <2>1 DEF QueueRequest, CreateQueue, DeleteQueue, Record, Restrict
    <2>2. CASE ~QueueRequest
      <3>1. sqsQueues' = sqsQueues
        BY <2>2 DEF TopicRequest, DeleteTopic, InsertTopic, WriteTopicAttributes, CreateTopic,
              SetTopicAttribute, SubscriptionRequest, Unsubscribe, SetSubscriptionAttribute,
              LookForSubscription, Subscribe, InsertSubscription, CrashSns, snsTables, snsVars
      <3> QED
        BY <3>1
    <2> QED
      BY <2>1, <2>2
  <1>2. ASSUME NEW gone, NoLongerDue(gone)
        PROVE  DOMAIN snsInfo' = DOMAIN snsInfo /\ \A m \in DOMAIN snsInfo : Alike(snsInfo[m], snsInfo'[m])
    BY <1>2, InfoDue DEF Alike
  <1>3. ASSUME snsInfo' = snsInfo
        PROVE  DOMAIN snsInfo' = DOMAIN snsInfo /\ \A m \in DOMAIN snsInfo : Alike(snsInfo[m], snsInfo'[m])
    BY <1>3 DEF Alike
  <1>4. DOMAIN snsInfo' = DOMAIN snsInfo /\ \A m \in DOMAIN snsInfo : Alike(snsInfo[m], snsInfo'[m])
    <2>1. ASSUME NEW t, DeleteTopic(t) PROVE \E gone : NoLongerDue(gone)
      BY <2>1 DEF DeleteTopic
    <2>2. (\E gone : NoLongerDue(gone)) \/ snsInfo' = snsInfo
      BY <2>1 DEF TopicRequest, InsertTopic, WriteTopicAttributes, CreateTopic,
              SetTopicAttribute, SubscriptionRequest, Unsubscribe, SetSubscriptionAttribute,
              LookForSubscription, Subscribe, InsertSubscription, CrashSns, QueueRequest,
              CreateQueue, DeleteQueue, snsTables, snsVars
    <2> QED
      BY <1>2, <1>3, <2>2
  <1>5. TopicsStay
    <2>0. ASSUME snsMade' = snsMade, \A x \in DOMAIN snsTopics' : x \in DOMAIN snsTopics
                 /\ snsTopics'[x].born = snsTopics[x].born /\ snsTopics'[x].fifo_seq = snsTopics[x].fifo_seq
          PROVE  TopicsStay
      BY <2>0, MadeSame DEF TopicsStay
    <2>1. ASSUME NEW t, DeleteTopic(t) PROVE TopicsStay
      BY <2>0, <2>1 DEF DeleteTopic, Restrict
    <2>2. ASSUME NEW c \in SnsClients, InsertTopic(c) PROVE TopicsStay
      <3> DEFINE row == [attrs |-> {}, fifo_seq |-> 0, born |-> snsMade.topics]
      <3>1. CASE snsTopics' = snsTopics /\ snsMade' = snsMade
        BY <2>0, <3>1
      <3>2. CASE snsTopics' = Record(snsTopics, snsReq[c].topic, row) /\ snsMade' = Counted("topics")
        <4>1. row.born = snsMade.topics
          OBVIOUS
        <4> HIDE DEF row
        <4> QED
          BY <3>2, <4>1, MadeMore DEF Record, TopicsStay
      <3> QED
        BY <2>2, <3>1, <3>2 DEF InsertTopic
    <2>3. ASSUME NEW c \in SnsClients, WriteTopicAttributes(c) PROVE TopicsStay
      <3>1. \A x \in DOMAIN snsTopics : DOMAIN snsTopics[x] = {"attrs", "fifo_seq", "born"}
        BY DEF ShapeInv, TopicRow
      <3> QED
        BY <2>0, <2>3, <3>1 DEF WriteTopicAttributes
    <2>4. CASE snsTopics' = snsTopics /\ snsMade' = snsMade
      BY <2>0, <2>4
    <2>5. ASSUME NEW c \in SnsClients, NEW filter, NEW redrive, InsertSubscription(c, filter, redrive)
          PROVE  TopicsStay
      <3>1. snsTopics' = snsTopics /\ snsMade' = Counted("subs")
        BY <2>5 DEF InsertSubscription
      <3> QED
        BY <3>1, MadeMore DEF TopicsStay
    <2>6. CASE TopicRequest
      BY <2>1, <2>2, <2>3, <2>4, <2>6 DEF TopicRequest, CreateTopic, SetTopicAttribute, snsTables
    <2>7. CASE SubscriptionRequest
      BY <2>4, <2>5, <2>7 DEF SubscriptionRequest, Unsubscribe, SetSubscriptionAttribute,
         LookForSubscription, Subscribe, snsTables
    <2>8. CASE QueueRequest \/ CrashSns \/ UNCHANGED snsVars
      BY <2>4, <2>8 DEF QueueRequest, CreateQueue, DeleteQueue, CrashSns, snsTables, snsVars
    <2> QED
      BY <2>6, <2>7, <2>8
  <1>6. SameEarlier(snsInfo, snsInfo') /\ \A n \in DOMAIN snsInfo : snsInfo'[n].topic = snsInfo[n].topic
    BY <1>4 DEF SameEarlier, Alike
  <1>7. NumberInv'
    BY <1>0, <1>4, <1>5, NumbersFrame DEF NoneBegins
  <1> QED
    BY <1>0, <1>1, <1>4, <1>6, <1>7 DEF Orderly

LEMMA OrderlyFanOut ==
    ASSUME ShapeInv, NumberInv, NEW B, Open \subseteq B, Earlier(snsInfo, B), NEW c \in SnsClients, FanOut(c)
    PROVE  Orderly(B)
  <1> DEFINE r == snsReq[c]
             m == r.id
  <1>0. r.at \in Publishing
    BY DEF FanOut, NextSequence, ListSubscriptions, SendToRedrive, RecordMessage, Deliver,
           Publishing, Fanning
  <1>1. m \in DOMAIN snsInfo /\ m \in B
    BY <1>0, OpenIsOpen DEF ShapeInv
  <1>2. ASSUME \A d \in SnsClients \ {c} : snsReq'[d] = snsReq[d],
               snsReq'[c].at \in Publishing => snsReq'[c].id = m /\ snsReq'[c].topic = r.topic
        PROVE  NoneBegins
    BY <1>0, <1>2 DEF NoneBegins
  <1>3. ASSUME NoneBegins, DOMAIN snsInfo' = DOMAIN snsInfo,
               \A n \in DOMAIN snsInfo : Alike(snsInfo[n], snsInfo'[n]),
               snsTopics' = snsTopics, snsMade' = snsMade,
               sqsQueues' = sqsQueues \/ \E q \in DOMAIN sqsQueues : Arrive(q, m)
        PROVE  Orderly(B)
    <2>1. TopicsStay
      BY <1>3, MadeSame DEF TopicsStay
    <2>2. NumberInv'
      BY <1>3, <2>1, NumbersFrame DEF NoneBegins
    <2>3. SameEarlier(snsInfo, snsInfo') /\ \A n \in DOMAIN snsInfo : snsInfo'[n].topic = snsInfo[n].topic
      BY <1>3 DEF SameEarlier, Alike
    <2>4. \/ \A q \in DOMAIN sqsQueues' : q \in DOMAIN sqsQueues /\ sqsQueues'[q] = sqsQueues[q]
          \/ \E q \in DOMAIN sqsQueues, n \in B \cap DOMAIN snsInfo : Arrive(q, n)
      BY <1>1, <1>3
    <2> QED
      BY <1>3, <2>2, <2>3, <2>4 DEF Orderly
  <1>4. ASSUME snsInfo' = snsInfo
        PROVE  DOMAIN snsInfo' = DOMAIN snsInfo /\ \A n \in DOMAIN snsInfo : Alike(snsInfo[n], snsInfo'[n])
    BY <1>4 DEF Alike
  <1>5. ASSUME SnsGo(c, SnsIdle) PROVE NoneBegins
    <2>1. snsReq'[c] = SnsIdle /\ \A d \in SnsClients \ {c} : snsReq'[d] = snsReq[d]
      BY <1>5, ReqGoes DEF ShapeInv
    <2> QED
      BY <1>2, <2>1, IdleShape
  <1>6. CASE NextSequence(c)
    <2>0. sqsQueues' = sqsQueues /\ snsMade' = snsMade
      BY <1>6 DEF NextSequence
    <2>1. CASE r.topic \in DOMAIN snsTopics
      <3>1. /\ NumberInv' /\ SameEarlier(snsInfo, snsInfo') /\ DOMAIN snsInfo' = DOMAIN snsInfo
            /\ \A n \in DOMAIN snsInfo : snsInfo'[n].topic = snsInfo[n].topic
        BY <1>1, <1>6, <2>1, NumbersTaken
      <3>2. snsReq'[c].id = m /\ snsReq'[c].topic = r.topic
        BY <1>1, <1>6, <2>1, SequenceTaken
      <3>3. \A d \in SnsClients \ {c} : snsReq'[d] = snsReq[d]
        BY <1>6, <2>1 DEF NextSequence, SnsGo, ShapeInv
      <3>4. NoneBegins
        BY <1>2, <3>2, <3>3
      <3> QED
        BY <2>0, <3>1, <3>4 DEF Orderly
    <2>2. CASE r.topic \notin DOMAIN snsTopics
      <3>1. SnsGo(c, SnsIdle) /\ snsInfo' = snsInfo /\ snsTopics' = snsTopics
        BY <1>6, <2>2 DEF NextSequence
      <3> HIDE DEF r, m
      <3> QED
        BY <1>3, <1>4, <1>5, <2>0, <3>1
    <2> QED
      BY <2>1, <2>2
  <1>7. CASE ListSubscriptions(c)
    <2>1. NoneBegins
      BY <1>2, <1>7, Listed
    <2>2. snsInfo' = snsInfo /\ snsTopics' = snsTopics /\ snsMade' = snsMade /\ sqsQueues' = sqsQueues
      BY <1>7 DEF ListSubscriptions, snsTables
    <2> HIDE DEF r, m
    <2> QED
      BY <1>3, <1>4, <2>1, <2>2
  <1>8. CASE SendToRedrive(c)
    <2>1. NoneBegins /\ (sqsQueues' = sqsQueues \/ \E q \in DOMAIN sqsQueues : Arrive(q, m))
      BY <1>2, <1>8, Redriven
    <2>2. snsInfo' = snsInfo /\ snsTopics' = snsTopics /\ snsMade' = snsMade
      BY <1>8 DEF SendToRedrive
    <2> HIDE DEF r, m
    <2> QED
      BY <1>3, <1>4, <2>1, <2>2
  <1>9. CASE RecordMessage(c)
    <2>1. /\ snsInfo' = snsInfo /\ snsTopics' = snsTopics /\ snsMade' = snsMade /\ sqsQueues' = sqsQueues
          /\ SnsGo(c, SnsIdle)
      BY <1>9 DEF RecordMessage
    <2> HIDE DEF r, m
    <2> QED
      BY <1>3, <1>4, <1>5, <2>1
  <1>10. ASSUME NEW s, Deliver(c, s) PROVE Orderly(B)
    <2>1. /\ \A d \in SnsClients \ {c} : snsReq'[d] = snsReq[d]
          /\ snsReq'[c].id = m /\ snsReq'[c].topic = r.topic
          /\ DOMAIN snsInfo' = DOMAIN snsInfo
          /\ \A n \in DOMAIN snsInfo \ {m} : snsInfo'[n] = snsInfo[n]
          /\ LET i == snsInfo[m] j == snsInfo'[m] IN
                j.topic = i.topic /\ j.born = i.born /\ j.earlier = i.earlier /\ j.seq = i.seq
          /\ sqsQueues' = sqsQueues \/ \E q \in DOMAIN sqsQueues : Arrive(q, m)
      BY <1>1, <1>10, DeliverDone
    <2>2. snsTopics' = snsTopics /\ snsMade' = snsMade
      BY <1>10 DEF Deliver
    <2>3. NoneBegins
      BY <1>2, <2>1
    <2> HIDE DEF r, m
    <2>4. \A n \in DOMAIN snsInfo : Alike(snsInfo[n], snsInfo'[n])
      BY <2>1 DEF Alike
    <2> QED
      BY <1>3, <2>1, <2>2, <2>3, <2>4
  <1> QED
    BY <1>6, <1>7, <1>8, <1>9, <1>10 DEF FanOut

\* A publish that begins.
LEMMA NumbersPublish ==
    ASSUME ShapeInv, NumberInv, NEW c \in SnsClients, NEW t, NEW passes, NEW earlier,
           PublishAfter(c, t, passes, earlier)
    PROVE  LET m == snsMade.messages + 1 IN
           /\ NumberInv' /\ m \notin DOMAIN snsInfo /\ DOMAIN snsInfo' = DOMAIN snsInfo \cup {m}
           /\ SameEarlier(snsInfo, snsInfo') /\ snsInfo'[m].earlier = earlier
           /\ sqsQueues' = sqsQueues /\ Open' \subseteq Open \cup {m}
  <1> DEFINE m == snsMade.messages + 1
  <1>1. /\ StartPublish(c, t, m, passes, earlier) /\ snsMade' = Counted("messages")
        /\ snsTopics' = snsTopics /\ sqsQueues' = sqsQueues
    BY DEF PublishAfter
  <1>2. m \notin DOMAIN snsInfo /\ \A d \in SnsClients : snsReq[d].at \in Publishing => snsReq[d].id # m
    BY NewMessage
  <1> HIDE DEF m
  <1>3. snsMade'.topics = snsMade.topics
    BY <1>1, MadeGrows DEF ShapeInv
  <1>4. Started(c, t, m, passes, earlier)
    BY <1>1, PublishStarted
  <1>5. /\ \A d \in SnsClients \ {c} : snsReq'[d] = snsReq[d]
        /\ snsReq'[c].id = m /\ snsReq'[c].topic = t
        /\ DOMAIN snsInfo' = DOMAIN snsInfo \cup {m}
        /\ \A n \in DOMAIN snsInfo \ {m} : snsInfo'[n] = snsInfo[n]
        /\ snsInfo'[m].topic = t /\ snsInfo'[m].seq = 0 /\ snsInfo'[m].earlier = earlier
    BY <1>4 DEF Started
  <1>6. \A d \in SnsClients : snsReq'[d].at \in Publishing =>
              \/ snsReq'[d] = snsReq[d] /\ snsReq[d].id # m
              \/ snsReq'[d].id = m /\ snsInfo'[m].topic = snsReq'[d].topic
    BY <1>2, <1>5
  <1>7. NumberInv'
    BY <1>1, <1>3, <1>5, <1>6, NumbersStart
  <1>8. SameEarlier(snsInfo, snsInfo')
    BY <1>2, <1>5 DEF SameEarlier
  <1>9. Open' \subseteq Open \cup {m}
    BY <1>5, OpenMore
  <1> QED
    BY <1>1, <1>2, <1>5, <1>7, <1>8, <1>9 DEF m

OrderInv == NumberInv /\ Arrivals(sqsQueues, snsInfo, Open)

\* An orderly step keeps the order when no more is open than was.
LEMMA OrderlyKeeps ==
    ASSUME NEW B, NEW C, Arrivals(sqsQueues, snsInfo, B), Orderly(B), C \subseteq B
    PROVE  Arrivals(sqsQueues', snsInfo', C)
  <1>1. Earlier(snsInfo', C)
    BY EarlierFewer DEF Orderly, Arrivals
  <1> QED
    BY <1>1, ArrivalsKept DEF Orderly

LEMMA OrderNext ==
    ASSUME ShapeInv, OrderInv, [SnsNext]_snsVars
    PROVE  OrderInv'
  <1>1. ASSUME Orderly(Open) PROVE OrderInv'
    <2>1. Open' \subseteq Open /\ NumberInv'
      BY <1>1, OpenFewer DEF Orderly
    <2> QED
      BY <1>1, <2>1, OrderlyKeeps DEF OrderInv
  <1>2. ASSUME NEW c \in SnsClients, FanOut(c) PROVE OrderInv'
    BY <1>1, <1>2, OrderlyFanOut DEF OrderInv, Arrivals
  <1>3. ASSUME NEW c \in SnsClients, NEW t, NEW passes, Publish(c, t, passes) PROVE OrderInv'
    <2> DEFINE m == snsMade.messages + 1
    <2>1. /\ NumberInv' /\ m \notin DOMAIN snsInfo /\ DOMAIN snsInfo' = DOMAIN snsInfo \cup {m}
          /\ SameEarlier(snsInfo, snsInfo') /\ snsInfo'[m].earlier = DOMAIN snsInfo \ Open
          /\ sqsQueues' = sqsQueues /\ Open' \subseteq Open \cup {m}
      BY <1>3, NumbersPublish DEF Publish, OrderInv
    <2> HIDE DEF m
    <2>2. Earlier(snsInfo', Open')
      <3>1. snsInfo'[m].earlier \subseteq DOMAIN snsInfo \ Open'
        BY <2>1
      <3> QED
        BY <2>1, <3>1, EarlierMore DEF OrderInv, Arrivals
    <2>3. Arrivals(sqsQueues', snsInfo', Open')
      BY <2>1, <2>2, ArrivalsKept DEF OrderInv
    <2> QED
      BY <2>1, <2>3 DEF OrderInv
  <1>4. CASE PublishRequest
    BY <1>2, <1>3, <1>4 DEF PublishRequest
  <1>5. CASE TopicRequest \/ SubscriptionRequest \/ QueueRequest \/ CrashSns \/ UNCHANGED snsVars
    BY <1>1, <1>5, OrderlyRequests DEF OrderInv
  <1> QED
    BY <1>4, <1>5 DEF SnsNext

LEMMA ArrivedThen == ASSUME NEW B, Arrivals(sqsQueues, snsInfo, B) PROVE ArrivedInOrder
  BY DEF Arrivals, QueueOf, ArrivedInOrder

LEMMA OrderInit == SnsInit => OrderInv
  <1> SUFFICES ASSUME SnsInit PROVE OrderInv
    OBVIOUS
  <1>1. /\ DOMAIN snsInfo = {} /\ \A c \in SnsClients : snsReq[c] = SnsIdle
        /\ \A q \in DOMAIN sqsQueues : sqsQueues[q] = <<>>
    BY DEF SnsInit
  <1>2. NumberInv
    BY <1>1, IdleShape DEF NumberInv, SequencesIncrease
  <1>3. \A q \in DOMAIN sqsQueues : QueueOf(sqsQueues[q], snsInfo)
    <2>1. QueueOf(<<>>, snsInfo)
      BY DEF QueueOf
    <2> QED
      BY <1>1, <2>1
  <1>4. Earlier(snsInfo, Open)
    BY <1>1 DEF Earlier
  <1> QED
    BY <1>2, <1>3, <1>4 DEF OrderInv, Arrivals

\* FIFO topics number, and queues receive, messages in the order of the publishes that
\* did not overlap.
THEOREM PublishesInOrder == SnsSpec => []PublishedInOrder
  <1>1. ShapeInv /\ OrderInv /\ [SnsNext]_snsVars => (ShapeInv /\ OrderInv)'
    BY ShapeNext, OrderNext
  <1>2. OrderInv => PublishedInOrder
    BY ArrivedThen DEF OrderInv, NumberInv, PublishedInOrder
  <1> QED
    BY <1>1, <1>2, ShapeInit, OrderInit, PTL DEF SnsSpec

-----------------------------------------------------------------------------
(* S3 event notifications *)

\* A request r of a client whose request to SNS is s: of the events E, the stored
\* configuration cfg, the messages N and those that SNS recorded, M.
EvRequest(r, s, E, cfg, N, M) ==
    r # EvIdle =>
        /\ r.at \in {"fire", "deliver", "fired"} /\ {"at", "id", "rest", "more"} \subseteq DOMAIN r
        /\ r.id \in DOMAIN N /\ r.more \in Int
        /\ \/ s = SnsIdle
           \/ s.at \in {"list"} \cup Fanning /\ s.id = r.id /\ r.at = "deliver" /\ "topic" \notin r.rest
        /\ N[r.id].topic # None => s # SnsIdle \/ r.id \in DOMAIN M
        /\ r.id \in DOMAIN E =>
              /\ r.more # -1
              /\ r.at = "fire" => E[r.id].due \subseteq cfg
              /\ r.at = "deliver" => E[r.id].due \subseteq E[r.id].tried \cup r.rest
              /\ r.at = "fired" => E[r.id].due \subseteq E[r.id].tried

\* What holds of event m when its write is answered.
EvAnswered(m, E, N, M) ==
    /\ E[m].due \subseteq E[m].tried
    /\ N[m].topic # None => m \in DOMAIN M

EvRows ==
    /\ evSeq \in Nat /\ DOMAIN evInfo \subseteq DOMAIN snsInfo
    /\ \A m \in DOMAIN evInfo :
          /\ DOMAIN evInfo[m] = {"seq", "due", "tried"}
          /\ evInfo[m].seq \in Nat /\ evInfo[m].seq <= evSeq
    /\ \A m, n \in DOMAIN evInfo : m < n => evInfo[m].seq < evInfo[n].seq

\* No two requests are about one event.
EvApart ==
    /\ \A c, d \in SnsClients : c # d /\ evReq[c] # EvIdle /\ evReq[d] # EvIdle => evReq[c].id # evReq[d].id
    /\ \A c, d \in SnsClients : c # d /\ evReq[c] # EvIdle /\ snsReq[d].at \in Publishing
          => evReq[c].id # snsReq[d].id

EvInv ==
    /\ DOMAIN evReq = SnsClients
    /\ EvRows /\ EvApart
    /\ \A c \in SnsClients : EvRequest(evReq[c], snsReq[c], evInfo, evConfig, snsInfo, snsMessages)
    /\ \A m \in DOMAIN evInfo \ EvOpen : EvAnswered(m, evInfo, snsInfo, snsMessages)

\* What a step keeps of message n: of the events E and then F, the messages N and then
\* O, the recorded ones M and then P.
EvKept(n, E, F, N, O, M, P) ==
    /\ n \in DOMAIN N => n \in DOMAIN O /\ O[n].topic = N[n].topic
    /\ n \in DOMAIN M => n \in DOMAIN P
    /\ n \in DOMAIN F => n \in DOMAIN E /\ F[n].due \subseteq E[n].due /\ E[n].tried \subseteq F[n].tried

LEMMA RequestKept ==
    ASSUME NEW r, NEW s, NEW E, NEW F, NEW N, NEW O, NEW M, NEW P, NEW cfg, NEW new,
           EvRequest(r, s, E, cfg, N, M), r # EvIdle => EvKept(r.id, E, F, N, O, M, P),
           r.at = "fire" /\ r.id \in DOMAIN F => F[r.id].due \subseteq new
    PROVE  EvRequest(r, s, F, new, O, P)
  <1> SUFFICES ASSUME r # EvIdle PROVE EvRequest(r, s, F, new, O, P)
    BY DEF EvRequest
  <1>1. EvKept(r.id, E, F, N, O, M, P) /\ r.id \in DOMAIN N
    BY DEF EvRequest
  <1>2. r.id \in DOMAIN F =>
              /\ r.more # -1
              /\ r.at = "fire" => F[r.id].due \subseteq new
              /\ r.at = "deliver" => F[r.id].due \subseteq F[r.id].tried \cup r.rest
              /\ r.at = "fired" => F[r.id].due \subseteq F[r.id].tried
    BY <1>1 DEF EvRequest, EvKept
  <1>3. O[r.id].topic # None => s # SnsIdle \/ r.id \in DOMAIN P
    BY <1>1 DEF EvRequest, EvKept
  <1> QED
    BY <1>1, <1>2, <1>3 DEF EvRequest, EvKept

LEMMA AnsweredKept ==
    ASSUME NEW n, NEW E, NEW F, NEW N, NEW O, NEW M, NEW P, EvAnswered(n, E, N, M), n \in DOMAIN F,
           n \in DOMAIN N, EvKept(n, E, F, N, O, M, P)
    PROVE  EvAnswered(n, F, O, P)
  BY DEF EvAnswered, EvKept

LEMMA EvOpenIs ==
    /\ \A d \in SnsClients : evReq[d] # EvIdle => evReq[d].id \in EvOpen
    /\ \A m \in EvOpen : \E d \in SnsClients : evReq[d] # EvIdle /\ evReq[d].id = m
  BY DEF EvOpen

\* The request of one client goes on; all other writes stay.
LEMMA EvGoes ==
    ASSUME EvInv, NEW c \in SnsClients, DOMAIN evReq' = SnsClients,
           \A d \in SnsClients \ {c} : evReq'[d] = evReq[d] /\ snsReq'[d] = snsReq[d],
           EvRows',
           \A n \in DOMAIN snsInfo : EvKept(n, evInfo, evInfo', snsInfo, snsInfo', snsMessages, snsMessages'),
           \A d \in SnsClients \ {c} : evReq[d].at = "fire" /\ evReq[d].id \in DOMAIN evInfo'
              => evInfo'[evReq[d].id].due \subseteq evConfig',
           EvRequest(evReq'[c], snsReq'[c], evInfo', evConfig', snsInfo', snsMessages'),
           evReq'[c] # EvIdle =>
              (evReq[c] # EvIdle /\ evReq'[c].id = evReq[c].id) \/ evReq'[c].id \notin DOMAIN snsInfo,
           snsReq'[c].at \in Publishing =>
              \/ snsReq[c].at \in Publishing /\ snsReq'[c].id = snsReq[c].id
              \/ evReq[c] # EvIdle /\ snsReq'[c].id = evReq[c].id,
           \A d \in SnsClients : snsReq[d].at \in Publishing => snsReq[d].id \in DOMAIN snsInfo,
           evReq[c] # EvIdle /\ evReq[c].id \in DOMAIN evInfo'
              /\ (evReq'[c] = EvIdle \/ evReq'[c].id # evReq[c].id)
              => EvAnswered(evReq[c].id, evInfo', snsInfo', snsMessages'),
           \A n \in DOMAIN evInfo' : n \in DOMAIN evInfo \/ (evReq'[c] # EvIdle /\ n = evReq'[c].id)
    PROVE  EvInv'
  <1>0. \A d \in SnsClients : evReq[d] # EvIdle => evReq[d].id \in DOMAIN snsInfo
    BY DEF EvInv, EvRequest
  <1>1. ASSUME NEW d \in SnsClients
        PROVE  EvRequest(evReq'[d], snsReq'[d], evInfo', evConfig', snsInfo', snsMessages')
    <2>1. CASE d = c
      BY <2>1
    <2>2. CASE d # c
      <3>1. EvRequest(evReq[d], snsReq[d], evInfo, evConfig, snsInfo, snsMessages)
        BY DEF EvInv
      <3>2. evReq[d] # EvIdle =>
               EvKept(evReq[d].id, evInfo, evInfo', snsInfo, snsInfo', snsMessages, snsMessages')
        BY <1>0
      <3>3. EvRequest(evReq[d], snsReq[d], evInfo', evConfig', snsInfo', snsMessages')
        BY <2>2, <3>1, <3>2, RequestKept
      <3> QED
        BY <2>2, <3>3
    <2> QED
      BY <2>1, <2>2
  <1>2. EvApart'
    <2>1. \A d, e \in SnsClients : d # e /\ evReq'[d] # EvIdle /\ evReq'[e] # EvIdle => evReq'[d].id # evReq'[e].id
      BY <1>0 DEF EvInv, EvApart
    <2>2. ASSUME NEW d \in SnsClients, NEW e \in SnsClients, d # e, evReq'[d] # EvIdle, snsReq'[e].at \in Publishing
          PROVE  evReq'[d].id # snsReq'[e].id
      <3>1. CASE d # c /\ e # c
        BY <2>2, <3>1 DEF EvInv, EvApart
      <3>2. CASE d = c
        BY <2>2, <3>2 DEF EvInv, EvApart
      <3>3. CASE e = c
        BY <2>2, <3>3 DEF EvInv, EvApart
      <3> QED
        BY <3>1, <3>2, <3>3
    <2> QED
      BY <2>1, <2>2 DEF EvApart
  <1>3. ASSUME NEW n \in DOMAIN evInfo', n \notin EvOpen' PROVE EvAnswered(n, evInfo', snsInfo', snsMessages')
    <2>0. evReq'[c] # EvIdle => n # evReq'[c].id
      BY <1>3 DEF EvOpen
    <2>1. n \in DOMAIN evInfo /\ n \in DOMAIN snsInfo
      BY <1>3, <2>0 DEF EvInv, EvRows
    <2>2. CASE n \notin EvOpen
      BY <1>3, <2>1, <2>2, AnsweredKept DEF EvInv
    <2>3. CASE n \in EvOpen
      <3>1. PICK d \in SnsClients : evReq[d] # EvIdle /\ evReq[d].id = n
        BY <2>3, EvOpenIs
      <3>2. d = c
        <4>1. CASE d # c
          <5>1. evReq'[d] # EvIdle /\ evReq'[d].id = n
            BY <3>1, <4>1
          <5> QED
            BY <1>3, <5>1 DEF EvOpen
        <4> QED
          BY <4>1
      <3> QED
        BY <1>3, <2>0, <3>1, <3>2
    <2> QED
      BY <2>2, <2>3
  <1> QED
    BY <1>1, <1>2, <1>3 DEF EvInv

LEMMA KeptSame == \A n, E, N, M : EvKept(n, E, E, N, N, M, M)
  BY DEF EvKept

LEMMA EvReqGoes ==
    ASSUME EvInv, NEW c \in SnsClients, NEW y, EvGo(c, y)
    PROVE  /\ DOMAIN evReq' = SnsClients /\ evReq'[c] = y
           /\ \A d \in SnsClients \ {c} : evReq'[d] = evReq[d]
  BY DEF EvInv, EvGo

\* A request goes on and leaves all tables alone.
LEMMA EvAlone ==
    ASSUME ShapeInv, EvInv, NEW c \in SnsClients, NEW y, EvGo(c, y), UNCHANGED <<snsVars, evConfig, evSeq, evInfo>>,
           evReq[c] # EvIdle, EvRequest(y, snsReq[c], evInfo, evConfig, snsInfo, snsMessages),
           y # EvIdle => y.id = evReq[c].id,
           y = EvIdle /\ evReq[c].id \in DOMAIN evInfo => EvAnswered(evReq[c].id, evInfo, snsInfo, snsMessages)
    PROVE  EvInv'
  <1>1. /\ snsReq' = snsReq /\ snsInfo' = snsInfo /\ snsMessages' = snsMessages /\ evConfig' = evConfig
        /\ evSeq' = evSeq /\ evInfo' = evInfo
    BY DEF snsVars
  <1>2. /\ DOMAIN evReq' = SnsClients /\ evReq'[c] = y
        /\ \A d \in SnsClients \ {c} : evReq'[d] = evReq[d]
    BY EvReqGoes
  <1>3. EvRows'
    BY <1>1 DEF EvInv, EvRows
  <1>4. \A n \in DOMAIN snsInfo : EvKept(n, evInfo, evInfo', snsInfo, snsInfo', snsMessages, snsMessages')
    BY <1>1, KeptSame
  <1>5. \A d \in SnsClients \ {c} : evReq[d].at = "fire" /\ evReq[d].id \in DOMAIN evInfo'
              => evInfo'[evReq[d].id].due \subseteq evConfig'
    <2> SUFFICES ASSUME NEW d \in SnsClients, evReq[d].at = "fire", evReq[d].id \in DOMAIN evInfo
                 PROVE  evInfo[evReq[d].id].due \subseteq evConfig
      BY <1>1
    <2>1. EvRequest(evReq[d], snsReq[d], evInfo, evConfig, snsInfo, snsMessages) /\ evReq[d] # EvIdle
      BY DEF EvInv, EvIdle
    <2> QED
      BY <2>1 DEF EvRequest
  <1>6. EvRequest(evReq'[c], snsReq'[c], evInfo', evConfig', snsInfo', snsMessages')
    BY <1>1, <1>2
  <1>7. \A d \in SnsClients : snsReq[d].at \in Publishing => snsReq[d].id \in DOMAIN snsInfo
    BY DEF ShapeInv
  <1>8. \A d \in SnsClients \ {c} : evReq'[d] = evReq[d] /\ snsReq'[d] = snsReq[d]
    BY <1>1, <1>2
  <1>9. evReq[c] # EvIdle /\ evReq[c].id \in DOMAIN evInfo' /\ (evReq'[c] = EvIdle \/ evReq'[c].id # evReq[c].id)
              => EvAnswered(evReq[c].id, evInfo', snsInfo', snsMessages')
    BY <1>1, <1>2
  <1>10. /\ evReq'[c] # EvIdle =>
              (evReq[c] # EvIdle /\ evReq'[c].id = evReq[c].id) \/ evReq'[c].id \notin DOMAIN snsInfo
         /\ snsReq'[c].at \in Publishing =>
              \/ snsReq[c].at \in Publishing /\ snsReq'[c].id = snsReq[c].id
              \/ evReq[c] # EvIdle /\ snsReq'[c].id = evReq[c].id
         /\ \A n \in DOMAIN evInfo' : n \in DOMAIN evInfo \/ (evReq'[c] # EvIdle /\ n = evReq'[c].id)
    BY <1>1, <1>2
  <1> QED
    BY <1>2, <1>3, <1>4, <1>5, <1>6, <1>7, <1>8, <1>9, <1>10, EvGoes

LEMMA EvQuietSteps ==
    ASSUME ShapeInv, EvInv, NEW c \in SnsClients, Answer(c) \/ ReadConfig(c) \/ Fired(c)
    PROVE  EvInv'
  <1> DEFINE r == evReq[c]
  <1>0. UNCHANGED <<snsVars, evConfig, evSeq, evInfo>>
    BY DEF Answer, ReadConfig, Fired
  <1>1. r # EvIdle /\ EvRequest(r, snsReq[c], evInfo, evConfig, snsInfo, snsMessages)
    BY DEF Answer, ReadConfig, Fired, Through, EvIdle, EvInv
  <1>2. {"at", "id", "rest", "more"} \subseteq DOMAIN r
    BY <1>1 DEF EvRequest
  <1>3. CASE Answer(c)
    <2>1. EvGo(c, EvIdle) /\ r.at = "fired"
      BY <1>3 DEF Answer
    <2>2. EvRequest(EvIdle, snsReq[c], evInfo, evConfig, snsInfo, snsMessages)
      BY DEF EvRequest
    <2>3. r.id \in DOMAIN evInfo => EvAnswered(r.id, evInfo, snsInfo, snsMessages)
      BY <1>1, <2>1 DEF EvRequest, EvAnswered
    <2> QED
      BY <1>0, <1>1, <2>1, <2>2, <2>3, EvAlone
  <1>4. CASE ReadConfig(c)
    <2> DEFINE y == [r EXCEPT !.at = "deliver", !.rest = evConfig]
    <2>1. EvGo(c, y) /\ r.at = "fire"
      BY <1>4 DEF ReadConfig, Matching
    <2>2. y.at = "deliver" /\ y.rest = evConfig /\ y.id = r.id /\ y.more = r.more /\ DOMAIN y = DOMAIN r
      BY <1>2
    <2> HIDE DEF y, r
    <2>3. y # EvIdle
      BY <2>2 DEF EvIdle
    <2>4. EvRequest(y, snsReq[c], evInfo, evConfig, snsInfo, snsMessages)
      BY <1>1, <1>2, <2>1, <2>2 DEF EvRequest
    <2> QED
      BY <1>0, <1>1, <2>1, <2>2, <2>3, <2>4, EvAlone DEF r
  <1>5. CASE Fired(c)
    <2> DEFINE y == [r EXCEPT !.at = "fired"]
    <2>1. EvGo(c, y) /\ r.at = "deliver" /\ r.rest = {} /\ snsReq[c] = SnsIdle
      BY <1>5 DEF Fired, Through
    <2>2. y.at = "fired" /\ y.rest = r.rest /\ y.id = r.id /\ y.more = r.more /\ DOMAIN y = DOMAIN r
      BY <1>2
    <2> HIDE DEF y, r
    <2>3. y # EvIdle
      BY <2>2 DEF EvIdle
    <2>4. EvRequest(y, snsReq[c], evInfo, evConfig, snsInfo, snsMessages)
      BY <1>1, <1>2, <2>1, <2>2 DEF EvRequest
    <2> QED
      BY <1>0, <1>1, <2>1, <2>2, <2>3, <2>4, EvAlone DEF r
  <1> QED
    BY <1>3, <1>4, <1>5

LEMMA EvStore ==
    ASSUME ShapeInv, EvInv, NEW c \in SnsClients, StoreNotification(c)
    PROVE  EvInv'
  <1> DEFINE r == evReq[c]
             cfg == r.cfg
  <1>0. /\ r.at = "deliver" /\ r.more = -1 /\ EvGo(c, EvIdle) /\ evConfig' = cfg
        /\ evInfo' = [m \in DOMAIN evInfo |-> [evInfo[m] EXCEPT !.due = evInfo[m].due \cap cfg]]
        /\ snsReq' = snsReq /\ snsInfo' = snsInfo /\ snsMessages' = snsMessages /\ evSeq' = evSeq
    BY DEF StoreNotification, Through, snsVars
  <1>1. r # EvIdle /\ EvRequest(r, snsReq[c], evInfo, evConfig, snsInfo, snsMessages)
    BY <1>0 DEF EvIdle, EvInv
  <1> HIDE DEF cfg, r
  <1>2. /\ DOMAIN evReq' = SnsClients /\ evReq'[c] = EvIdle
        /\ \A d \in SnsClients \ {c} : evReq'[d] = evReq[d]
    BY <1>0, EvReqGoes
  <1>3. DOMAIN evInfo' = DOMAIN evInfo /\ \A m \in DOMAIN evInfo :
           /\ DOMAIN evInfo'[m] = DOMAIN evInfo[m] /\ evInfo'[m].seq = evInfo[m].seq
           /\ evInfo'[m].tried = evInfo[m].tried /\ evInfo'[m].due = evInfo[m].due \cap cfg
    <2>1. \A m \in DOMAIN evInfo : DOMAIN evInfo[m] = {"seq", "due", "tried"}
      BY DEF EvInv, EvRows
    <2> QED
      BY <1>0, <2>1
  <1>4. EvRows'
    BY <1>0, <1>3 DEF EvInv, EvRows
  <1>5. \A n \in DOMAIN snsInfo : EvKept(n, evInfo, evInfo', snsInfo, snsInfo', snsMessages, snsMessages')
    BY <1>0, <1>3 DEF EvKept
  <1>6. \A d \in SnsClients \ {c} : evReq[d].at = "fire" /\ evReq[d].id \in DOMAIN evInfo'
              => evInfo'[evReq[d].id].due \subseteq evConfig'
    BY <1>0, <1>3
  <1>7. EvRequest(evReq'[c], snsReq'[c], evInfo', evConfig', snsInfo', snsMessages')
    BY <1>2 DEF EvRequest
  <1>8. \A d \in SnsClients : snsReq[d].at \in Publishing => snsReq[d].id \in DOMAIN snsInfo
    BY DEF ShapeInv
  <1>9. r.id \notin DOMAIN evInfo'
    BY <1>0, <1>1, <1>3 DEF EvRequest
  <1>10. /\ \A d \in SnsClients \ {c} : evReq'[d] = evReq[d] /\ snsReq'[d] = snsReq[d]
         /\ snsReq'[c].at \in Publishing => snsReq[c].at \in Publishing /\ snsReq'[c].id = snsReq[c].id
         /\ \A n \in DOMAIN evInfo' : n \in DOMAIN evInfo
    BY <1>0, <1>2, <1>3
  <1> QED
    BY <1>2, <1>4, <1>5, <1>6, <1>7, <1>8, <1>9, <1>10, EvGoes DEF r

\* What is known of a new message m and of the others.
NewInfo(m, e) ==
    /\ snsInfo' = Record(snsInfo, m, Plain(e)) /\ snsMade' = Counted("messages")
    /\ UNCHANGED <<snsTopics, snsSubs, snsMessages, sqsQueues, snsReq, snsLoose, snsTwin>>

LEMMA NewInfoIs ==
    ASSUME ShapeInv, NEW m, NEW e, m = snsMade.messages + 1, NewInfo(m, e)
    PROVE  /\ m \notin DOMAIN snsInfo /\ DOMAIN snsInfo' = DOMAIN snsInfo \cup {m}
           /\ \A n \in DOMAIN snsInfo : snsInfo'[n] = snsInfo[n]
           /\ snsInfo'[m].topic = None /\ snsInfo'[m].seq = 0 /\ snsInfo'[m].earlier = e
           /\ ShapeInv'
  <1>1. m \notin DOMAIN snsInfo
    BY NewMessage
  <1> DEFINE j == Plain(e)
  <1>2. /\ DOMAIN j = {"topic", "born", "seq", "passes", "earlier", "tried", "due"}
        /\ j.topic = None /\ j.seq = 0 /\ j.earlier = e
    BY DEF Plain
  <1> HIDE DEF j
  <1>3. /\ DOMAIN snsInfo' = DOMAIN snsInfo \cup {m} /\ snsInfo'[m] = j
        /\ \A n \in DOMAIN snsInfo : snsInfo'[n] = snsInfo[n]
    BY <1>1 DEF NewInfo, Record, j
  <1>4. snsMade' = Counted("messages") /\ snsTopics' = snsTopics /\ snsSubs' = snsSubs /\ snsReq' = snsReq
    BY DEF NewInfo
  <1>5. InfoRow(m, j, snsMade')
    <2>1. snsMade'.messages = m /\ snsMade.messages \in Nat
      BY <1>4, MadeGrows DEF ShapeInv
    <2> QED
      BY <1>2, <2>1 DEF InfoRow
  <1>6. /\ snsMade' \in MadeType /\ snsMade.topics <= snsMade'.topics /\ snsMade.subs <= snsMade'.subs
        /\ snsMade.messages <= snsMade'.messages
    BY <1>4, MadeMore
  <1>7. DOMAIN snsReq' = SnsClients
    BY <1>4 DEF ShapeInv
  <1>8. ShapeInv'
    BY <1>3, <1>4, <1>5, <1>6, <1>7, ShapeKept
  <1> QED
    BY <1>1, <1>2, <1>3, <1>8

\* A request takes a new message m, of an event or of a test.
LEMMA EvNew ==
    ASSUME ShapeInv, EvInv, NEW c \in SnsClients, NEW m, m = snsMade.messages + 1, NEW e, NewInfo(m, e),
           NEW y, EvGo(c, y), y # EvIdle, y.id = m, snsReq[c] = SnsIdle, evConfig' = evConfig,
           y.at \in {"fire", "deliver"}, {"at", "id", "rest", "more"} \subseteq DOMAIN y, y.more \in Int,
           evReq[c] # EvIdle => evReq[c].at = "fired",
           \/ evInfo' = evInfo /\ evSeq' = evSeq
           \/ /\ evSeq' = evSeq + 1 /\ y.at = "fire" /\ y.more # -1
              /\ evInfo' = Record(evInfo, m, [seq |-> evSeq + 1, due |-> evConfig, tried |-> {}])
    PROVE  EvInv'
  <1>1. /\ m \notin DOMAIN snsInfo /\ DOMAIN snsInfo' = DOMAIN snsInfo \cup {m}
        /\ \A n \in DOMAIN snsInfo : snsInfo'[n] = snsInfo[n]
        /\ snsInfo'[m].topic = None
    BY NewInfoIs
  <1>2. snsReq' = snsReq /\ snsMessages' = snsMessages
    BY DEF NewInfo
  <1>3. /\ DOMAIN evReq' = SnsClients /\ evReq'[c] = y
        /\ \A d \in SnsClients \ {c} : evReq'[d] = evReq[d]
    BY EvReqGoes
  <1>4. m \notin DOMAIN evInfo
    BY <1>1 DEF EvInv, EvRows
  <1>5. /\ \A n \in DOMAIN evInfo : n \in DOMAIN evInfo' /\ evInfo'[n] = evInfo[n]
        /\ \A n \in DOMAIN evInfo' : n \in DOMAIN evInfo \/ n = m
        /\ m \in DOMAIN evInfo' => /\ evSeq' = evSeq + 1 /\ y.at = "fire" /\ y.more # -1
                                   /\ evInfo'[m] = [seq |-> evSeq + 1, due |-> evConfig, tried |-> {}]
        /\ evSeq' = evSeq \/ evSeq' = evSeq + 1
    <2>1. CASE evInfo' = evInfo /\ evSeq' = evSeq
      BY <1>4, <2>1
    <2> DEFINE w == [seq |-> evSeq + 1, due |-> evConfig, tried |-> {}]
    <2>2. CASE evSeq' = evSeq + 1 /\ y.at = "fire" /\ y.more # -1 /\ evInfo' = Record(evInfo, m, w)
      <3> HIDE DEF w
      <3>1. /\ DOMAIN evInfo' = DOMAIN evInfo \cup {m} /\ evInfo'[m] = w
            /\ \A n \in DOMAIN evInfo : evInfo'[n] = evInfo[n]
        BY <1>4, <2>2 DEF Record
      <3> QED
        BY <2>2, <3>1 DEF w
    <2> QED
      BY <2>1, <2>2
  <1>6. EvRows'
    <2>0. evSeq \in Nat /\ evSeq' \in Nat /\ evSeq <= evSeq'
      BY <1>5 DEF EvInv, EvRows
    <2>1. DOMAIN evInfo' \subseteq DOMAIN snsInfo'
      BY <1>1, <1>5 DEF EvInv, EvRows
    <2>2. ASSUME NEW n \in DOMAIN evInfo'
          PROVE  /\ DOMAIN evInfo'[n] = {"seq", "due", "tried"}
                 /\ evInfo'[n].seq \in Nat /\ evInfo'[n].seq <= evSeq'
      <3>1. CASE n \in DOMAIN evInfo
        <4>1. DOMAIN evInfo[n] = {"seq", "due", "tried"} /\ evInfo[n].seq \in Nat /\ evInfo[n].seq <= evSeq
          BY <3>1 DEF EvInv, EvRows
        <4> QED
          BY <2>0, <3>1, <4>1, <1>5
      <3>2. CASE n = m
        BY <2>0, <2>2, <3>2, <1>5
      <3> QED
        BY <2>2, <3>1, <3>2, <1>5
    <2>3. ASSUME NEW a \in DOMAIN evInfo', NEW b \in DOMAIN evInfo', a < b
          PROVE  evInfo'[a].seq < evInfo'[b].seq
      <3>0. /\ snsMade.messages \in Nat
            /\ \A n \in DOMAIN evInfo : n \in Nat /\ n <= snsMade.messages
        BY DEF EvInv, EvRows, ShapeInv, InfoRow
      <3>1. a \in DOMAIN evInfo
        BY <1>5, <2>3, <3>0
      <3>2. CASE b \in DOMAIN evInfo
        BY <1>5, <2>3, <3>1, <3>2 DEF EvInv, EvRows
      <3>3. CASE b = m
        <4>1. evInfo[a].seq \in Nat /\ evInfo[a].seq <= evSeq
          BY <3>1 DEF EvInv, EvRows
        <4>2. evInfo'[b].seq = evSeq + 1
          BY <1>5, <2>3, <3>3
        <4> QED
          BY <2>0, <1>5, <3>1, <4>1, <4>2
      <3> QED
        BY <1>5, <3>2, <3>3
    <2> QED
      BY <2>0, <2>1, <2>2, <2>3 DEF EvRows
  <1>7. \A n \in DOMAIN snsInfo : EvKept(n, evInfo, evInfo', snsInfo, snsInfo', snsMessages, snsMessages')
    BY <1>1, <1>2, <1>5 DEF EvKept
  <1>8. \A d \in SnsClients \ {c} : evReq[d].at = "fire" /\ evReq[d].id \in DOMAIN evInfo'
              => evInfo'[evReq[d].id].due \subseteq evConfig'
    <2> SUFFICES ASSUME NEW d \in SnsClients, evReq[d].at = "fire", evReq[d].id \in DOMAIN evInfo'
                 PROVE  evInfo'[evReq[d].id].due \subseteq evConfig
      OBVIOUS
    <2>1. EvRequest(evReq[d], snsReq[d], evInfo, evConfig, snsInfo, snsMessages) /\ evReq[d] # EvIdle
      BY DEF EvInv, EvIdle
    <2>2. evReq[d].id \in DOMAIN evInfo
      BY <2>1, <1>1, <1>5 DEF EvRequest
    <2> QED
      BY <2>1, <2>2, <1>5 DEF EvRequest
  <1>9. EvRequest(evReq'[c], snsReq'[c], evInfo', evConfig', snsInfo', snsMessages')
    BY <1>1, <1>2, <1>3, <1>5 DEF EvRequest
  <1>10. \A d \in SnsClients : snsReq[d].at \in Publishing => snsReq[d].id \in DOMAIN snsInfo
    BY DEF ShapeInv
  <1>11. ASSUME evReq[c] # EvIdle, evReq[c].id \in DOMAIN evInfo'
         PROVE  EvAnswered(evReq[c].id, evInfo', snsInfo', snsMessages')
    <2>1. EvRequest(evReq[c], snsReq[c], evInfo, evConfig, snsInfo, snsMessages)
      BY DEF EvInv
    <2>2. evReq[c].id \in DOMAIN evInfo /\ evReq[c].id \in DOMAIN snsInfo
      BY <2>1, <1>1, <1>5, <1>11 DEF EvRequest
    <2>3. EvAnswered(evReq[c].id, evInfo, snsInfo, snsMessages)
      BY <2>1, <2>2, <1>11 DEF EvRequest, EvAnswered
    <2> QED
      BY <2>2, <2>3, <1>7, <1>11, AnsweredKept
  <1>12. snsReq'[c].at \notin Publishing
    BY <1>2, IdleShape
  <1>13. \A d \in SnsClients \ {c} : evReq'[d] = evReq[d] /\ snsReq'[d] = snsReq[d]
    BY <1>2, <1>3
  <1> QED
    BY <1>1, <1>3, <1>5, <1>6, <1>7, <1>8, <1>9, <1>10, <1>11, <1>12, <1>13, EvGoes

\* The event of a request is tried at one target.
LEMMA ReachedIs ==
    ASSUME EvInv, NEW c \in SnsClients, NEW target, Reached(c, target)
    PROVE  /\ DOMAIN evInfo' = DOMAIN evInfo
           /\ \A n \in DOMAIN evInfo :
                 /\ DOMAIN evInfo'[n] = DOMAIN evInfo[n] /\ evInfo'[n].seq = evInfo[n].seq
                 /\ evInfo'[n].due = evInfo[n].due
                 /\ evInfo'[n].tried = IF n = evReq[c].id THEN evInfo[n].tried \cup {target} ELSE evInfo[n].tried
  <1> DEFINE m == evReq[c].id
             w == [evInfo[m] EXCEPT !.tried = evInfo[m].tried \cup {target}]
  <1>1. CASE m \notin DOMAIN evInfo
    BY <1>1 DEF Reached
  <1>2. CASE m \in DOMAIN evInfo
    <2>1. evInfo' = [evInfo EXCEPT ![m] = w]
      BY <1>2 DEF Reached
    <2>2. DOMAIN evInfo[m] = {"seq", "due", "tried"}
      BY <1>2 DEF EvInv, EvRows
    <2>3. /\ DOMAIN w = DOMAIN evInfo[m] /\ w.seq = evInfo[m].seq /\ w.due = evInfo[m].due
          /\ w.tried = evInfo[m].tried \cup {target}
      BY <2>2
    <2> HIDE DEF w
    <2> QED
      BY <1>2, <2>1, <2>3
  <1> QED
    BY <1>1, <1>2

\* A request has tried one target: rest is what is left; a test that failed is over.
LEMMA EvTried ==
    ASSUME ShapeInv, EvInv, NEW c \in SnsClients, NEW target, Reached(c, target), NEW y, EvGo(c, y),
           evReq[c].at = "deliver", evConfig' = evConfig, evSeq' = evSeq, snsMessages' = snsMessages,
           \A d \in SnsClients \ {c} : snsReq'[d] = snsReq[d],
           DOMAIN snsInfo' = DOMAIN snsInfo,
           \A n \in DOMAIN snsInfo \ {evReq[c].id} : snsInfo'[n] = snsInfo[n],
           \/ y = EvIdle /\ evReq[c].more = -1 /\ snsInfo' = snsInfo /\ snsReq' = snsReq /\ snsReq[c] = SnsIdle
           \/ /\ y.at = "deliver" /\ y.id = evReq[c].id /\ y.more = evReq[c].more
              /\ y.rest = evReq[c].rest \ {target} /\ {"at", "id", "rest", "more"} \subseteq DOMAIN y
              /\ \/ snsInfo' = snsInfo /\ snsReq' = snsReq /\ snsReq[c] = SnsIdle
                 \/ snsReq'[c].at = "list" /\ snsReq'[c].id = y.id /\ "topic" = target,
           snsReq[c] = SnsIdle
    PROVE  EvInv'
  <1> DEFINE r == evReq[c]
             m == r.id
  <1>1. r # EvIdle /\ EvRequest(r, snsReq[c], evInfo, evConfig, snsInfo, snsMessages)
    BY DEF EvIdle, EvInv
  <1>2. m \in DOMAIN snsInfo /\ r.more \in Int /\ (r.more = -1 => m \notin DOMAIN evInfo)
    BY <1>1 DEF EvRequest
  <1>3. /\ DOMAIN evReq' = SnsClients /\ evReq'[c] = y
        /\ \A d \in SnsClients \ {c} : evReq'[d] = evReq[d]
    BY EvReqGoes
  <1>4. /\ DOMAIN evInfo' = DOMAIN evInfo
        /\ \A n \in DOMAIN evInfo :
              /\ DOMAIN evInfo'[n] = DOMAIN evInfo[n] /\ evInfo'[n].seq = evInfo[n].seq
              /\ evInfo'[n].due = evInfo[n].due
              /\ evInfo'[n].tried = IF n = m THEN evInfo[n].tried \cup {target} ELSE evInfo[n].tried
    BY ReachedIs
  <1>5. EvRows'
    BY <1>4 DEF EvInv, EvRows
  <1> DEFINE Kept(n) == EvKept(n, evInfo, evInfo', snsInfo, snsInfo', snsMessages, snsMessages')
  <1>6. \A n \in DOMAIN snsInfo \ {m} : Kept(n)
    BY <1>4 DEF EvKept
  <1>7. \A d \in SnsClients \ {c} : evReq[d] # EvIdle => evReq[d].id \in DOMAIN snsInfo \ {m}
    BY <1>1 DEF EvInv, EvApart, EvRequest
  <1>8. ASSUME NEW d \in SnsClients \ {c}
        PROVE  EvRequest(evReq'[d], snsReq'[d], evInfo', evConfig', snsInfo', snsMessages')
    <2>1. EvRequest(evReq[d], snsReq[d], evInfo, evConfig, snsInfo, snsMessages)
      BY DEF EvInv
    <2>2. evReq[d] # EvIdle => Kept(evReq[d].id)
      BY <1>6, <1>7
    <2>3. evReq[d].at = "fire" /\ evReq[d].id \in DOMAIN evInfo' => evInfo'[evReq[d].id].due \subseteq evConfig
      <3>1. evReq[d].at = "fire" => evReq[d] # EvIdle
        BY DEF EvIdle
      <3> QED
        BY <2>1, <3>1, <1>4 DEF EvRequest
    <2>4. EvRequest(evReq[d], snsReq[d], evInfo', evConfig, snsInfo', snsMessages')
      BY <2>1, <2>2, <2>3, RequestKept
    <2> QED
      BY <2>4, <1>3
  <1>9. EvRequest(evReq'[c], snsReq'[c], evInfo', evConfig', snsInfo', snsMessages')
    <2>1. CASE y = EvIdle
      BY <2>1, <1>3 DEF EvRequest
    <2>2. CASE y # EvIdle
      <3>1. /\ y.at = "deliver" /\ y.id = m /\ y.more = r.more /\ y.rest = r.rest \ {target}
            /\ {"at", "id", "rest", "more"} \subseteq DOMAIN y
            /\ \/ snsInfo' = snsInfo /\ snsReq' = snsReq /\ snsReq[c] = SnsIdle
               \/ snsReq'[c].at = "list" /\ snsReq'[c].id = y.id /\ "topic" = target
        BY <2>2
      <3> HIDE DEF r, m
      <3>2. m \in DOMAIN evInfo' => y.more # -1 /\ evInfo'[m].due \subseteq evInfo'[m].tried \cup y.rest
        BY <1>1, <1>2, <1>4, <3>1 DEF EvRequest, r, m
      <3>3. CASE snsInfo' = snsInfo /\ snsReq' = snsReq /\ snsReq[c] = SnsIdle
        BY <1>1, <1>2, <1>3, <3>1, <3>2, <3>3 DEF EvRequest, r, m
      <3>4. CASE snsReq'[c].at = "list" /\ snsReq'[c].id = y.id /\ "topic" = target
        <4>1. "topic" \notin y.rest /\ snsReq'[c] # SnsIdle
          BY <3>1, <3>4 DEF SnsIdle
        <4> QED
          BY <1>2, <1>3, <3>1, <3>2, <3>4, <4>1 DEF EvRequest
      <3> QED
        BY <3>1, <3>3, <3>4
    <2> QED
      BY <2>1, <2>2
  <1>10. EvApart'
    <2>0. \A d \in SnsClients : evReq'[d] # EvIdle => evReq[d] # EvIdle /\ evReq'[d].id = evReq[d].id
      BY <1>1, <1>3
    <2>1. snsReq'[c].at \in Publishing => snsReq'[c].id = m
      BY IdleShape
    <2>2. \A d, e \in SnsClients : d # e /\ evReq'[d] # EvIdle /\ evReq'[e] # EvIdle => evReq'[d].id # evReq'[e].id
      BY <2>0 DEF EvInv, EvApart
    <2>3. ASSUME NEW d \in SnsClients, NEW e \in SnsClients, d # e, evReq'[d] # EvIdle, snsReq'[e].at \in Publishing
          PROVE  evReq'[d].id # snsReq'[e].id
      <3>1. CASE e = c
        BY <2>0, <2>1, <2>3, <3>1, <1>1 DEF EvInv, EvApart
      <3>2. CASE e # c
        BY <2>0, <2>3, <3>2 DEF EvInv, EvApart
      <3> QED
        BY <3>1, <3>2
    <2> QED
      BY <2>2, <2>3 DEF EvApart
  <1>11. ASSUME NEW n \in DOMAIN evInfo', n \notin EvOpen' PROVE EvAnswered(n, evInfo', snsInfo', snsMessages')
    <2>1. n # m
      <3>1. CASE y = EvIdle
        <4>1. r.more = -1
          BY <3>1 DEF EvIdle
        <4> QED
          BY <4>1, <1>2, <1>4, <1>11
      <3>2. CASE y # EvIdle
        <4>1. evReq'[c] # EvIdle /\ evReq'[c].id = m
          BY <3>2, <1>3
        <4>2. m \in EvOpen'
          BY <4>1 DEF EvOpen
        <4> QED
          BY <4>2, <1>11
      <3> QED
        BY <3>1, <3>2
    <2>2. n \notin EvOpen
      <3> SUFFICES ASSUME n \in EvOpen PROVE FALSE
        OBVIOUS
      <3>1. PICK d \in SnsClients : evReq[d] # EvIdle /\ evReq[d].id = n
        BY EvOpenIs
      <3>2. evReq'[d] # EvIdle /\ evReq'[d].id = n
        BY <2>1, <3>1, <1>3
      <3> QED
        BY <3>2, <1>11 DEF EvOpen
    <2>3. n \in DOMAIN evInfo /\ n \in DOMAIN snsInfo
      BY <1>4, <1>11 DEF EvInv, EvRows
    <2>4. EvAnswered(n, evInfo, snsInfo, snsMessages) /\ Kept(n)
      BY <1>6, <2>1, <2>2, <2>3 DEF EvInv
    <2> QED
      BY <1>11, <2>3, <2>4, AnsweredKept
  <1> QED
    BY <1>3, <1>5, <1>8, <1>9, <1>10, <1>11 DEF EvInv

LEMMA EvDelivers ==
    ASSUME ShapeInv, EvInv, NEW c \in SnsClients, DeliverToTopic(c) \/ DeliverToQueue(c)
    PROVE  EvInv' /\ snsReq[c] = SnsIdle
  <1> DEFINE r == evReq[c]
             m == r.id
             target == IF DeliverToTopic(c) THEN "topic" ELSE "queue"
             y == [r EXCEPT !.rest = r.rest \ {target}]
  <1>0. r.at = "deliver" /\ evConfig' = evConfig /\ evSeq' = evSeq /\ snsMessages' = snsMessages
    BY DEF DeliverToTopic, DeliverToQueue
  <1>1. r # EvIdle /\ EvRequest(r, snsReq[c], evInfo, evConfig, snsInfo, snsMessages)
    BY <1>0 DEF EvIdle, EvInv
  <1>2. {"at", "id", "rest", "more"} \subseteq DOMAIN r /\ m \in DOMAIN snsInfo
    BY <1>1 DEF EvRequest
  <1>3. snsReq[c] = SnsIdle
    BY <1>1 DEF EvRequest, DeliverToTopic, DeliverToQueue
  <1>4. y.at = "deliver" /\ y.id = m /\ y.more = r.more /\ y.rest = r.rest \ {target} /\ DOMAIN y = DOMAIN r
    BY <1>0, <1>2
  <1>5. ASSUME snsInfo' = snsInfo, snsReq' = snsReq, Reached(c, target),
               EvGo(c, y) \/ (EvGo(c, EvIdle) /\ r.more = -1)
        PROVE  EvInv'
    <2>1. CASE EvGo(c, y)
      <3> HIDE DEF y, target
      <3> QED
        BY <1>0, <1>2, <1>3, <1>4, <1>5, <2>1, EvTried
    <2>2. CASE EvGo(c, EvIdle) /\ r.more = -1
      <3> HIDE DEF y, target
      <3> QED
        BY <1>0, <1>2, <1>3, <1>5, <2>2, EvTried
    <2> QED
      BY <1>5, <2>1, <2>2
  <1>6. CASE DeliverToQueue(c) /\ ~DeliverToTopic(c)
    <2>1. target = "queue"
      BY <1>6
    <2>2. /\ snsInfo' = snsInfo /\ snsReq' = snsReq /\ Reached(c, target)
          /\ EvGo(c, y) \/ (EvGo(c, EvIdle) /\ r.more = -1)
      <3> HIDE DEF target
      <3> QED
        BY <1>6, <2>1 DEF DeliverToQueue, Delivered, Undelivered
    <2> QED
      BY <1>3, <1>5, <2>2
  <1>7. CASE DeliverToTopic(c)
    <2>1. target = "topic"
      BY <1>7
    <2> HIDE DEF target
    <2>2. CASE EventTopic \in DOMAIN snsTopics \ FifoTopics
      <3>1. /\ StartPublish(c, EventTopic, m, TRUE, snsInfo[m].earlier)
            /\ Reached(c, target) /\ EvGo(c, y)
        BY <1>7, <2>1, <2>2 DEF DeliverToTopic, Delivered
      <3> HIDE DEF y
      <3>2. Started(c, EventTopic, m, TRUE, snsInfo[m].earlier)
        BY <3>1, PublishStarted
      <3>3. /\ \A d \in SnsClients \ {c} : snsReq'[d] = snsReq[d]
            /\ snsReq'[c].at = "list" /\ snsReq'[c].id = m
            /\ DOMAIN snsInfo' = DOMAIN snsInfo
            /\ \A n \in DOMAIN snsInfo \ {m} : snsInfo'[n] = snsInfo[n]
        BY <1>2, <2>2, <3>2 DEF Started
      <3> QED
        BY <1>0, <1>2, <1>3, <1>4, <2>1, <3>1, <3>3, EvTried
    <2>3. CASE EventTopic \notin DOMAIN snsTopics \ FifoTopics
      <3>1. /\ snsInfo' = snsInfo /\ snsReq' = snsReq /\ Reached(c, target)
            /\ EvGo(c, y) \/ (EvGo(c, EvIdle) /\ r.more = -1)
        BY <1>7, <2>1, <2>3 DEF DeliverToTopic, Undelivered
      <3> QED
        BY <1>3, <1>5, <3>1
    <2> QED
      BY <1>3, <2>2, <2>3
  <1> QED
    BY <1>6, <1>7

\* A client whose publish is under way asks for nothing else.
LEMMA PublishersStay ==
    ASSUME ShapeInv, TopicRequest \/ SubscriptionRequest \/ QueueRequest, NEW d \in SnsClients,
           snsReq[d].at \in Publishing
    PROVE  snsReq'[d] = snsReq[d]
  <1>0. ASSUME NEW c \in SnsClients, NEW y, SnsGo(c, y),
               snsReq[c] = SnsIdle \/ snsReq[c].at \in {"create", "look", "insert"}
        PROVE  snsReq'[d] = snsReq[d]
    <2>1. d # c
      BY <1>0, IdleShape DEF Publishing, Fanning
    <2> QED
      BY <1>0, <2>1, ReqGoes DEF ShapeInv
  <1>1. snsReq[d].at # "attribute"
    BY DEF Publishing, Fanning
  <1>2. CASE TopicRequest
    <2>1. ASSUME NEW t, DeleteTopic(t) PROVE snsReq'[d] = snsReq[d]
      <3>1. snsReq' = Overtake(None, t) /\ d # None
        BY <2>1, SnsConstants DEF DeleteTopic
      <3> QED
        BY <1>1, <3>1, Overtaken
    <2>2. ASSUME NEW c \in SnsClients, WriteTopicAttributes(c) PROVE snsReq'[d] = snsReq[d]
      <3>1. snsReq' = Overtake(c, snsReq[c].topic) /\ d # c
        BY <1>1, <2>2 DEF WriteTopicAttributes
      <3> QED
        BY <1>1, <3>1, Overtaken
    <2>3. ASSUME NEW c \in SnsClients, InsertTopic(c) PROVE snsReq'[d] = snsReq[d]
      BY <1>0, <2>3 DEF InsertTopic
    <2>4. ASSUME NEW c \in SnsClients, NEW t, CreateTopic(c, t) PROVE snsReq'[d] = snsReq[d]
      BY <1>0, <2>4 DEF CreateTopic
    <2>5. ASSUME NEW c \in SnsClients, NEW t, NEW a, NEW on, SetTopicAttribute(c, t, a, on)
          PROVE  snsReq'[d] = snsReq[d]
      BY <1>0, <2>5 DEF SetTopicAttribute
    <2> QED
      BY <1>2, <2>1, <2>2, <2>3, <2>4, <2>5 DEF TopicRequest
  <1>3. CASE SubscriptionRequest
    <2>1. ASSUME NEW c \in SnsClients, LookForSubscription(c) PROVE snsReq'[d] = snsReq[d]
      BY <1>0, <2>1 DEF LookForSubscription
    <2>2. ASSUME NEW c \in SnsClients, NEW t, NEW q, Subscribe(c, t, q) PROVE snsReq'[d] = snsReq[d]
      BY <1>0, <2>2 DEF Subscribe
    <2>3. ASSUME NEW c \in SnsClients, NEW filter, NEW redrive, InsertSubscription(c, filter, redrive)
          PROVE  snsReq'[d] = snsReq[d]
      BY <1>0, <2>3 DEF InsertSubscription
    <2> QED
      BY <1>3, <2>1, <2>2, <2>3 DEF SubscriptionRequest, Unsubscribe, SetSubscriptionAttribute
  <1>4. CASE QueueRequest
    BY <1>4 DEF QueueRequest, CreateQueue, DeleteQueue
  <1> QED
    BY <1>2, <1>3, <1>4

\* SNS goes on beside the writes: the publishes of their events move, or are recorded.
LEMMA EvBeside ==
    ASSUME ShapeInv, EvInv, UNCHANGED evVars,
           DOMAIN snsInfo \subseteq DOMAIN snsInfo', DOMAIN snsMessages \subseteq DOMAIN snsMessages',
           \A n \in DOMAIN snsInfo : snsInfo'[n].topic = snsInfo[n].topic,
           \A d \in SnsClients : evReq[d] # EvIdle =>
              \/ snsReq'[d] = snsReq[d]
              \/ /\ snsReq[d].at \in Publishing
                 /\ \/ snsReq'[d].at \in {"list"} \cup Fanning /\ snsReq'[d].id = snsReq[d].id
                    \/ snsReq'[d] = SnsIdle /\ snsReq[d].id \in DOMAIN snsMessages',
           \A d \in SnsClients : snsReq'[d].at \in Publishing =>
              (snsReq[d].at \in Publishing /\ snsReq'[d].id = snsReq[d].id) \/ snsReq'[d].id \notin DOMAIN snsInfo
    PROVE  EvInv'
  <1>0. evReq' = evReq /\ evInfo' = evInfo /\ evConfig' = evConfig /\ evSeq' = evSeq /\ EvOpen' = EvOpen
    BY DEF evVars, EvOpen
  <1>1. \A n \in DOMAIN snsInfo : EvKept(n, evInfo, evInfo', snsInfo, snsInfo', snsMessages, snsMessages')
    BY <1>0 DEF EvKept
  <1>2. \A d \in SnsClients : evReq[d] # EvIdle => evReq[d].id \in DOMAIN snsInfo
    BY DEF EvInv, EvRequest
  <1>3. ASSUME NEW d \in SnsClients
        PROVE  EvRequest(evReq'[d], snsReq'[d], evInfo', evConfig', snsInfo', snsMessages')
    <2> DEFINE r == evReq[d]
    <2> SUFFICES ASSUME r # EvIdle PROVE EvRequest(r, snsReq'[d], evInfo, evConfig, snsInfo', snsMessages')
      BY <1>0 DEF EvRequest
    <2>1. EvRequest(r, snsReq[d], evInfo, evConfig, snsInfo, snsMessages)
      BY DEF EvInv
    <2>2. r.at = "fire" /\ r.id \in DOMAIN evInfo => evInfo[r.id].due \subseteq evConfig
      BY <2>1 DEF EvRequest
    <2>3. EvRequest(r, snsReq[d], evInfo, evConfig, snsInfo', snsMessages')
      BY <1>0, <1>1, <1>2, <2>1, <2>2, RequestKept
    <2>4. CASE snsReq'[d] = snsReq[d]
      BY <2>3, <2>4
    <2>5. CASE snsReq[d].at \in Publishing /\ snsReq'[d].at \in {"list"} \cup Fanning /\ snsReq'[d].id = snsReq[d].id
      <3>1. snsReq[d] # SnsIdle /\ snsReq'[d] # SnsIdle
        BY <2>5, IdleShape DEF Publishing, Fanning
      <3> QED
        BY <2>3, <2>5, <3>1 DEF EvRequest
    <2>6. CASE snsReq[d].at \in Publishing /\ snsReq'[d] = SnsIdle /\ snsReq[d].id \in DOMAIN snsMessages'
      <3>1. snsReq[d] # SnsIdle
        BY <2>6, IdleShape
      <3> QED
        BY <2>3, <2>6, <3>1 DEF EvRequest
    <2> QED
      BY <2>4, <2>5, <2>6
  <1>4. EvApart'
    <2>1. ASSUME NEW d \in SnsClients, NEW e \in SnsClients, d # e, evReq[d] # EvIdle, snsReq'[e].at \in Publishing
          PROVE  evReq[d].id # snsReq'[e].id
      BY <2>1, <1>2 DEF EvInv, EvApart
    <2> QED
      BY <1>0, <2>1 DEF EvInv, EvApart
  <1>5. ASSUME NEW n \in DOMAIN evInfo \ EvOpen PROVE EvAnswered(n, evInfo', snsInfo', snsMessages')
    <2>1. n \in DOMAIN snsInfo /\ EvAnswered(n, evInfo, snsInfo, snsMessages)
      BY DEF EvInv, EvRows
    <2> QED
      BY <1>0, <1>1, <2>1, AnsweredKept
  <1>6. EvRows'
    BY <1>0 DEF EvInv, EvRows
  <1> QED
    BY <1>0, <1>3, <1>4, <1>5, <1>6 DEF EvInv

\* What was answered before a message has a smaller number.
Smaller(N) == \A n \in DOMAIN N : \A k \in N[n].earlier : k < n

NotifyInv ==
    /\ ShapeInv /\ NumberInv /\ EvInv
    /\ Arrivals(sqsQueues, snsInfo, Unanswered) /\ Smaller(snsInfo)

LEMMA SmallerFrame ==
    ASSUME NEW N, NEW M, Smaller(N), SameEarlier(N, M), DOMAIN M = DOMAIN N PROVE Smaller(M)
  BY DEF Smaller, SameEarlier

LEMMA SmallerMore ==
    ASSUME ShapeInv, NEW m, m = snsMade.messages + 1, NEW M, Smaller(snsInfo), SameEarlier(snsInfo, M),
           DOMAIN M = DOMAIN snsInfo \cup {m}, M[m].earlier \subseteq DOMAIN snsInfo, m \notin DOMAIN snsInfo
    PROVE  Smaller(M)
  <1>1. snsMade.messages \in Nat /\ \A n \in DOMAIN snsInfo : n \in Nat /\ n <= snsMade.messages
    BY DEF ShapeInv, InfoRow
  <1>2. \A n \in DOMAIN snsInfo : n < m
    BY <1>1
  <1> QED
    BY <1>2 DEF Smaller, SameEarlier

\* The publishes beside the writes.
LEMMA NotifyBeside ==
    ASSUME NotifyInv, BesideWrites
    PROVE  NotifyInv'
  <1>0. /\ UNCHANGED evVars /\ EvOpen' = EvOpen
        /\ \A c \in SnsClients : evReq[c] # EvIdle /\ snsReq[c] = SnsIdle => snsReq'[c] = SnsIdle
    BY DEF BesideWrites, EvOpen, evVars
  <1>1. \A d \in SnsClients : evReq[d] # EvIdle =>
           snsReq[d] = SnsIdle \/ (snsReq[d].at \in {"list"} \cup Fanning /\ snsReq[d].at \in Publishing)
    BY DEF NotifyInv, EvInv, EvRequest, Publishing
  <1>2. ASSUME Orderly(Unanswered), ShapeInv', DOMAIN snsMessages \subseteq DOMAIN snsMessages',
               \A d \in SnsClients : evReq[d] # EvIdle =>
                 \/ snsReq'[d] = snsReq[d]
                 \/ /\ snsReq[d].at \in Publishing
                    /\ \/ snsReq'[d].at \in {"list"} \cup Fanning /\ snsReq'[d].id = snsReq[d].id
                       \/ snsReq'[d] = SnsIdle /\ snsReq[d].id \in DOMAIN snsMessages'
        PROVE  NotifyInv'
    <2>1. Open' \subseteq Open /\ NumberInv' /\ NoneBegins
      BY <1>2, OpenFewer DEF Orderly
    <2>2. Unanswered' \subseteq Unanswered
      BY <1>0, <2>1 DEF Unanswered
    <2>3. Arrivals(sqsQueues', snsInfo', Unanswered')
      BY <1>2, <2>2, OrderlyKeeps DEF NotifyInv
    <2>4. Smaller(snsInfo')
      BY <1>2, SmallerFrame DEF NotifyInv, Orderly
    <2>5. /\ DOMAIN snsInfo \subseteq DOMAIN snsInfo'
          /\ \A n \in DOMAIN snsInfo : snsInfo'[n].topic = snsInfo[n].topic
          /\ \A d \in SnsClients : snsReq'[d].at \in Publishing =>
                snsReq[d].at \in Publishing /\ snsReq'[d].id = snsReq[d].id
      BY <1>2 DEF Orderly, NoneBegins
    <2>6. EvInv'
      BY <1>0, <1>2, <2>5, EvBeside DEF NotifyInv
    <2> QED
      BY <1>2, <2>1, <2>3, <2>4, <2>6 DEF NotifyInv
  <1>3. CASE TopicRequest \/ SubscriptionRequest \/ QueueRequest
    <2>1. ShapeInv'
      BY <1>3, ShapeNext DEF NotifyInv, SnsNext
    <2>2. Orderly(Unanswered)
      BY <1>3, OrderlyRequests DEF NotifyInv
    <2>3. snsMessages' = snsMessages
      BY <1>3, RequestsStay DEF NotifyInv, PublishesStay
    <2>4. \A d \in SnsClients : evReq[d] # EvIdle => snsReq'[d] = snsReq[d]
      <3>1. \A d \in SnsClients : snsReq[d].at \in Publishing => snsReq'[d] = snsReq[d]
        BY <1>3, PublishersStay DEF NotifyInv
      <3> QED
        BY <1>0, <1>1, <3>1
    <2> QED
      BY <1>2, <2>1, <2>2, <2>3, <2>4
  <1>4. ASSUME NEW c \in SnsClients, FanOut(c) PROVE NotifyInv'
    <2>1. ShapeInv'
      BY <1>4, ShapeFanOut DEF NotifyInv
    <2>2. Orderly(Unanswered)
      BY <1>4, OrderlyFanOut DEF NotifyInv, Arrivals, Unanswered
    <2>3. DOMAIN snsMessages \subseteq DOMAIN snsMessages'
      BY <1>4 DEF FanOut, NextSequence, ListSubscriptions, SendToRedrive, RecordMessage, Deliver, snsTables, Record
    <2>4. \A d \in SnsClients \ {c} : snsReq'[d] = snsReq[d]
      BY <1>4 DEF FanOut, NextSequence, ListSubscriptions, SendToRedrive, RecordMessage, Deliver, SnsGo,
            NotifyInv, ShapeInv
    <2>5. ASSUME evReq[c] # EvIdle
          PROVE  /\ snsReq[c].at \in Publishing
                 /\ \/ snsReq'[c].at \in {"list"} \cup Fanning /\ snsReq'[c].id = snsReq[c].id
                    \/ snsReq'[c] = SnsIdle /\ snsReq[c].id \in DOMAIN snsMessages'
      <3>0. ~NextSequence(c)
        BY <1>1, <2>5 DEF NextSequence, SnsIdle, Fanning
      <3>1. snsReq[c].at \in Publishing
        BY <1>4, <3>0 DEF FanOut, ListSubscriptions, SendToRedrive, RecordMessage, Deliver, Publishing, Fanning
      <3>2. snsReq[c].id \in DOMAIN snsInfo /\ ShapeInv
        BY <3>1 DEF NotifyInv, ShapeInv
      <3>3. CASE ListSubscriptions(c)
        BY <3>1, <3>2, <3>3, Listed DEF Fanning
      <3>4. CASE SendToRedrive(c)
        BY <3>1, <3>2, <3>4, Redriven DEF Fanning
      <3>5. CASE RecordMessage(c)
        <4>1. SnsGo(c, SnsIdle) /\ snsReq[c].id \in DOMAIN snsMessages'
          BY <3>5 DEF RecordMessage, Record
        <4>2. snsReq'[c] = SnsIdle
          BY <4>1, <3>2, ReqGoes DEF ShapeInv
        <4> QED
          BY <3>1, <4>1, <4>2
      <3>6. ASSUME NEW s, Deliver(c, s)
            PROVE  snsReq'[c].at \in Fanning /\ snsReq'[c].id = snsReq[c].id
        BY <3>2, <3>6, DeliverDone
      <3> QED
        BY <1>4, <3>0, <3>1, <3>3, <3>4, <3>5, <3>6 DEF FanOut
    <2> QED
      BY <1>2, <2>1, <2>2, <2>3, <2>4, <2>5
  <1>5. ASSUME NEW c \in SnsClients, NEW t, NEW passes, PublishAfter(c, t, passes, DOMAIN snsInfo \ Unanswered)
        PROVE  NotifyInv'
    <2> DEFINE m == snsMade.messages + 1
    <2>0. ShapeInv /\ NumberInv /\ EvInv
      BY DEF NotifyInv
    <2>1. /\ NumberInv' /\ m \notin DOMAIN snsInfo /\ DOMAIN snsInfo' = DOMAIN snsInfo \cup {m}
          /\ SameEarlier(snsInfo, snsInfo') /\ snsInfo'[m].earlier = DOMAIN snsInfo \ Unanswered
          /\ sqsQueues' = sqsQueues /\ Open' \subseteq Open \cup {m}
      BY <1>5, <2>0, NumbersPublish
    <2>2. ShapeInv' /\ Smaller(snsInfo')
      BY <1>5, <2>0, <2>1, ShapePublish, SmallerMore DEF NotifyInv
    <2>3. /\ StartPublish(c, t, m, passes, DOMAIN snsInfo \ Unanswered) /\ snsMessages' = snsMessages
          /\ snsReq[c] = SnsIdle
      BY <1>5 DEF PublishAfter
    <2> HIDE DEF m
    <2>4. Started(c, t, m, passes, DOMAIN snsInfo \ Unanswered)
      BY <2>0, <2>3, PublishStarted
    <2>5. /\ \A d \in SnsClients \ {c} : snsReq'[d] = snsReq[d]
          /\ snsReq'[c].id = m /\ snsReq'[c].at \in {"sequence", "list"}
          /\ \A n \in DOMAIN snsInfo : snsInfo'[n].topic = snsInfo[n].topic
      BY <2>1, <2>4 DEF Started
    <2>6. Unanswered' \subseteq Unanswered \cup {m}
      BY <1>0, <2>1 DEF Unanswered
    <2>7. Arrivals(sqsQueues', snsInfo', Unanswered')
      <3>1. snsInfo'[m].earlier \subseteq DOMAIN snsInfo \ Unanswered'
        BY <2>1, <2>6
      <3>2. Earlier(snsInfo', Unanswered')
        BY <2>1, <2>6, <3>1, EarlierMore DEF NotifyInv, Arrivals
      <3> QED
        BY <2>1, <3>2, ArrivalsKept DEF NotifyInv
    <2>8. evReq[c] = EvIdle
      BY <1>0, <2>3, <2>5 DEF SnsIdle
    <2>9. EvInv'
      BY <1>0, <2>0, <2>1, <2>3, <2>5, <2>8, EvBeside
    <2> QED
      BY <2>1, <2>2, <2>7, <2>9 DEF NotifyInv
  <1> QED
    BY <1>3, <1>4, <1>5 DEF BesideWrites

\* A new message keeps everything when what it comes after is answered.
LEMMA NotifyNew ==
    ASSUME NotifyInv, NEW m, m = snsMade.messages + 1, NEW e, NewInfo(m, e), EvInv',
           Unanswered' \subseteq Unanswered \cup {m}, e \subseteq DOMAIN snsInfo \ Unanswered'
    PROVE  NotifyInv'
  <1>1. /\ m \notin DOMAIN snsInfo /\ DOMAIN snsInfo' = DOMAIN snsInfo \cup {m}
        /\ \A n \in DOMAIN snsInfo : snsInfo'[n] = snsInfo[n]
        /\ snsInfo'[m].seq = 0 /\ snsInfo'[m].earlier = e /\ ShapeInv'
    BY NewInfoIs DEF NotifyInv
  <1>2. /\ snsTopics' = snsTopics /\ snsReq' = snsReq /\ snsMade' = Counted("messages") /\ sqsQueues' = sqsQueues
    BY DEF NewInfo
  <1>3. snsMade'.topics = snsMade.topics
    BY <1>2, MadeGrows DEF NotifyInv, ShapeInv
  <1>4. \A d \in SnsClients : snsReq'[d].at \in Publishing => snsReq'[d] = snsReq[d] /\ snsReq[d].id # m
    BY <1>1, <1>2 DEF NotifyInv, ShapeInv
  <1>5. NumberInv'
    BY <1>1, <1>2, <1>3, <1>4, NumbersStart DEF NotifyInv
  <1>6. SameEarlier(snsInfo, snsInfo')
    BY <1>1 DEF SameEarlier
  <1>7. Smaller(snsInfo')
    BY <1>1, <1>6, SmallerMore DEF NotifyInv
  <1>8. Earlier(snsInfo', Unanswered')
    BY <1>1, <1>6, EarlierMore DEF NotifyInv, Arrivals
  <1>9. Arrivals(sqsQueues', snsInfo', Unanswered')
    BY <1>2, <1>6, <1>8, ArrivalsKept DEF NotifyInv
  <1> QED
    BY <1>1, <1>5, <1>7, <1>9 DEF NotifyInv

LEMMA EvOpenNew ==
    ASSUME EvInv, NEW c \in SnsClients, NEW y, EvGo(c, y), snsReq' = snsReq
    PROVE  Unanswered' \subseteq Unanswered \cup (IF y = EvIdle THEN {} ELSE {y.id})
  <1>1. /\ evReq'[c] = y /\ \A d \in SnsClients \ {c} : evReq'[d] = evReq[d]
    BY EvReqGoes
  <1>2. Open' = Open
    BY DEF Open
  <1>3. EvOpen' \subseteq EvOpen \cup (IF y = EvIdle THEN {} ELSE {y.id})
    BY <1>1 DEF EvOpen
  <1> QED
    BY <1>2, <1>3 DEF Unanswered

LEMMA NotifyNews ==
    ASSUME NotifyInv, NEW c \in SnsClients, NEW more, NEW cfg,
           (WriteObject(c, more) /\ more \in 0..1) \/ DeleteNext(c) \/ PutNotification(c, cfg)
    PROVE  NotifyInv'
  <1> DEFINE m == snsMade.messages + 1
             r == evReq[c]
  <1>0. ShapeInv /\ EvInv
    BY DEF NotifyInv
  <1>1. CASE PutNotification(c, cfg)
    <2> DEFINE y == [at |-> "deliver", id |-> m, rest |-> cfg, more |-> -1, cfg |-> cfg]
               e == DOMAIN snsInfo \ Unanswered
    <2>1. /\ EvGo(c, y) /\ NewInfo(m, e) /\ r = EvIdle /\ snsReq[c] = SnsIdle
          /\ evInfo' = evInfo /\ evSeq' = evSeq /\ evConfig' = evConfig
      BY <1>1 DEF PutNotification, NewInfo, Free
    <2>2. /\ y.at = "deliver" /\ y.id = m /\ {"at", "id", "rest", "more"} \subseteq DOMAIN y /\ y.more \in Int
      OBVIOUS
    <2>3. y # EvIdle
      BY <2>2 DEF EvIdle
    <2> HIDE DEF y, m, e, r
    <2>4. EvInv'
      BY <1>0, <2>1, <2>2, <2>3, EvNew DEF m, r
    <2>5. Unanswered' \subseteq Unanswered \cup {m}
      BY <1>0, <2>1, <2>2, <2>3, EvOpenNew DEF NewInfo
    <2>6. m \notin DOMAIN snsInfo
      BY <1>0, NewMessage DEF m
    <2>7. e \subseteq DOMAIN snsInfo \ Unanswered'
      BY <2>5, <2>6 DEF e
    <2> QED
      BY <2>1, <2>4, <2>5, <2>7, NotifyNew DEF m
  <1>2. ASSUME NEW k, Commit(c, k), k \in Nat, NEW e, snsInfo' = Record(snsInfo, m, Plain(e)),
               snsReq[c] = SnsIdle, r # EvIdle => r.at = "fired"
        PROVE  /\ EvInv' /\ NewInfo(m, e) /\ evReq'[c] # EvIdle /\ evReq'[c].id = m
               /\ \A d \in SnsClients \ {c} : evReq'[d] = evReq[d]
               /\ Unanswered' \subseteq Unanswered \cup {m}
    <2> DEFINE y == [at |-> "fire", id |-> m, rest |-> {}, more |-> k]
    <2>1. /\ EvGo(c, y) /\ NewInfo(m, e) /\ evSeq' = evSeq + 1 /\ evConfig' = evConfig
          /\ evInfo' = Record(evInfo, m, [seq |-> evSeq + 1, due |-> evConfig, tried |-> {}])
      BY <1>2 DEF Commit, NewInfo, NextSequencer
    <2>2. /\ y.at = "fire" /\ y.id = m /\ {"at", "id", "rest", "more"} \subseteq DOMAIN y /\ y.more # -1
          /\ y.more \in Int
      BY <1>2
    <2>3. y # EvIdle
      BY <2>2 DEF EvIdle
    <2> HIDE DEF y, m, r
    <2>4. EvInv'
      BY <1>0, <1>2, <2>1, <2>2, <2>3, EvNew DEF m, r
    <2>5. Unanswered' \subseteq Unanswered \cup {m}
      BY <1>0, <2>1, <2>2, <2>3, EvOpenNew DEF NewInfo
    <2> QED
      BY <1>0, <2>1, <2>2, <2>3, <2>4, <2>5, EvReqGoes
  <1>3. m \notin DOMAIN snsInfo
    BY <1>0, NewMessage
  <1>4. CASE WriteObject(c, more) /\ more \in 0..1
    <2> DEFINE e == DOMAIN snsInfo \ Unanswered
    <2>1. Commit(c, more) /\ snsInfo' = Record(snsInfo, m, Plain(e)) /\ snsReq[c] = SnsIdle /\ r = EvIdle
      BY <1>4 DEF WriteObject, Free
    <2> HIDE DEF e, m, r
    <2>2. EvInv' /\ NewInfo(m, e) /\ Unanswered' \subseteq Unanswered \cup {m}
      BY <1>2, <1>4, <2>1
    <2>3. e \subseteq DOMAIN snsInfo \ Unanswered'
      BY <2>2, <1>3 DEF e
    <2> QED
      BY <2>2, <2>3, NotifyNew DEF m
  <1>5. CASE DeleteNext(c)
    <2> DEFINE e == (DOMAIN snsInfo \ Unanswered) \cup {r.id}
    <2>0. r.at = "fired" /\ r.more > 0
      BY <1>5 DEF DeleteNext
    <2>1. r # EvIdle /\ r.id \in DOMAIN snsInfo /\ r.more \in Int /\ snsReq[c] = SnsIdle
      <3>1. r # EvIdle
        BY <2>0 DEF EvIdle
      <3>2. EvRequest(r, snsReq[c], evInfo, evConfig, snsInfo, snsMessages)
        BY <1>0 DEF EvInv
      <3> QED
        BY <2>0, <3>1, <3>2 DEF EvRequest
    <2>2. Commit(c, r.more - 1) /\ snsInfo' = Record(snsInfo, m, Plain(e))
      BY <1>5 DEF DeleteNext
    <2> HIDE DEF e, m
    <2>3. EvInv' /\ NewInfo(m, e) /\ Unanswered' \subseteq Unanswered \cup {m} /\ evReq'[c] # EvIdle /\ evReq'[c].id = m
          /\ \A d \in SnsClients \ {c} : evReq'[d] = evReq[d]
      <3>1. r.more - 1 \in Nat
        BY <2>0, <2>1
      <3> HIDE DEF r
      <3> QED
        BY <1>2, <2>0, <2>1, <2>2, <3>1
    <2>4. r.id \notin Unanswered'
      <3>1. snsReq' = snsReq /\ m # r.id
        BY <1>3, <2>1, <2>3 DEF NewInfo
      <3>2. EvApart
        BY <1>0 DEF EvInv
      <3>3. r.id \notin Open'
        <4>1. Open' = {snsReq[d].id : d \in {b \in SnsClients : snsReq[b].at \in Publishing}}
          BY <3>1 DEF Open, Publishing, Fanning
        <4>2. \A d \in SnsClients : snsReq[d].at \in Publishing => snsReq[d].id # r.id
          BY <2>1, <3>2, IdleShape DEF EvApart
        <4> QED
          BY <4>1, <4>2
      <3>4. \A d \in SnsClients : evReq'[d] # EvIdle => evReq'[d].id # r.id
        BY <2>1, <2>3, <3>1, <3>2 DEF EvApart
      <3>5. r.id \notin EvOpen'
        BY <3>4 DEF EvOpen
      <3> QED
        BY <3>3, <3>5 DEF Unanswered
    <2>5. e \subseteq DOMAIN snsInfo \ Unanswered'
      BY <2>1, <2>3, <2>4, <1>3 DEF e
    <2> QED
      BY <2>3, <2>5, NotifyNew DEF m
  <1> QED
    BY <1>1, <1>4, <1>5

\* The steps of a request that take no message.
LEMMA NotifySteps ==
    ASSUME NotifyInv, NEW c \in SnsClients,
           \/ Answer(c) \/ ReadConfig(c) \/ Fired(c) \/ StoreNotification(c)
           \/ DeliverToTopic(c) \/ DeliverToQueue(c)
    PROVE  NotifyInv'
  <1>0. ShapeInv /\ EvInv /\ NumberInv
    BY DEF NotifyInv
  <1> DEFINE r == evReq[c]
             m == r.id
  <1>1. r # EvIdle /\ EvRequest(r, snsReq[c], evInfo, evConfig, snsInfo, snsMessages)
    <2>1. r.at # "idle"
      BY DEF Answer, ReadConfig, Fired, StoreNotification, Through, DeliverToTopic, DeliverToQueue
    <2> QED
      BY <1>0, <2>1 DEF EvInv, EvIdle
  <1>2. {"at", "id", "rest", "more"} \subseteq DOMAIN r /\ m \in DOMAIN snsInfo /\ m \in EvOpen
    BY <1>1, EvOpenIs DEF EvRequest
  <1>3. EvInv'
    BY <1>0, EvQuietSteps, EvStore, EvDelivers
  <1>4. EvOpen' \subseteq EvOpen
    <2>1. \E y : EvGo(c, y) /\ (y = EvIdle \/ y.id = m)
      <3>1. ASSUME NEW y, EvGo(c, y), y = EvIdle \/ y.id = m PROVE \E z : EvGo(c, z) /\ (z = EvIdle \/ z.id = m)
        BY <3>1
      <3>2. CASE Answer(c) \/ StoreNotification(c)
        BY <3>1, <3>2 DEF Answer, StoreNotification
      <3>3. CASE ReadConfig(c)
        <4> DEFINE y == [r EXCEPT !.at = "deliver", !.rest = evConfig]
        <4>1. EvGo(c, y) /\ y.id = m
          BY <1>2, <3>3 DEF ReadConfig, Matching
        <4> QED
          BY <3>1, <4>1
      <3>4. CASE Fired(c)
        <4> DEFINE y == [r EXCEPT !.at = "fired"]
        <4>1. EvGo(c, y) /\ y.id = m
          BY <1>2, <3>4 DEF Fired
        <4> QED
          BY <3>1, <4>1
      <3>5. ASSUME NEW target, Delivered(c, target) \/ Undelivered(c, target)
            PROVE  \E z : EvGo(c, z) /\ (z = EvIdle \/ z.id = m)
        <4> DEFINE y == [r EXCEPT !.rest = r.rest \ {target}]
        <4>1. EvGo(c, y) \/ EvGo(c, EvIdle)
          BY <3>5 DEF Delivered, Undelivered
        <4>2. y.id = m
          BY <1>2
        <4> QED
          BY <3>1, <4>1, <4>2
      <3>6. CASE DeliverToTopic(c) \/ DeliverToQueue(c)
        BY <3>5, <3>6 DEF DeliverToTopic, DeliverToQueue
      <3> QED
        BY <3>2, <3>3, <3>4, <3>6
    <2>2. PICK y : EvGo(c, y) /\ (y = EvIdle \/ y.id = m)
      BY <2>1
    <2>3. evReq'[c] = y /\ \A d \in SnsClients \ {c} : evReq'[d] = evReq[d]
      BY <1>0, <2>2, EvReqGoes
    <2> QED
      BY <1>2, <2>2, <2>3 DEF EvOpen
  <1>5. ASSUME snsReq' = snsReq, snsInfo' = snsInfo, snsTopics' = snsTopics, snsSubs' = snsSubs,
               snsMade' = snsMade, sqsQueues' = sqsQueues \/ (\E q \in DOMAIN sqsQueues : Arrive(q, m))
        PROVE  NotifyInv'
    <2>1. ShapeInv'
      BY <1>0, <1>5, ShapeStill
    <2>2. NumberInv'
      BY <1>0, <1>5 DEF NumberInv, SequencesIncrease
    <2>3. Open' = Open
      BY <1>5 DEF Open
    <2>4. Unanswered' \subseteq Unanswered /\ m \in Unanswered
      BY <1>2, <1>4, <2>3 DEF Unanswered
    <2>5. SameEarlier(snsInfo, snsInfo')
      BY <1>5 DEF SameEarlier
    <2>6. Earlier(snsInfo', Unanswered')
      BY <1>5, <2>4, <2>5, EarlierFewer DEF NotifyInv, Arrivals
    <2>7. \/ \A q \in DOMAIN sqsQueues' : q \in DOMAIN sqsQueues /\ sqsQueues'[q] = sqsQueues[q]
          \/ \E q \in DOMAIN sqsQueues, n \in Unanswered \cap DOMAIN snsInfo : Arrive(q, n)
      BY <1>2, <1>5, <2>4
    <2>8. Arrivals(sqsQueues', snsInfo', Unanswered')
      BY <2>5, <2>6, <2>7, ArrivalsKept DEF NotifyInv
    <2> QED
      BY <1>3, <1>5, <2>1, <2>2, <2>8 DEF NotifyInv
  <1>6. CASE Answer(c) \/ ReadConfig(c) \/ Fired(c) \/ StoreNotification(c)
    <2>1. UNCHANGED snsVars
      BY <1>6 DEF Answer, ReadConfig, Fired, StoreNotification
    <2> HIDE DEF r, m
    <2> QED
      BY <1>5, <2>1 DEF snsVars
  <1>7. CASE DeliverToQueue(c)
    <2>1. /\ snsReq' = snsReq /\ snsInfo' = snsInfo /\ snsTopics' = snsTopics /\ snsSubs' = snsSubs
          /\ snsMade' = snsMade /\ (sqsQueues' = sqsQueues \/ (\E q \in DOMAIN sqsQueues : Arrive(q, m)))
      BY <1>7 DEF DeliverToQueue
    <2> HIDE DEF r, m
    <2> QED
      BY <1>5, <2>1
  <1>8. CASE DeliverToTopic(c)
    <2>0. /\ snsTopics' = snsTopics /\ snsSubs' = snsSubs /\ snsMade' = snsMade /\ sqsQueues' = sqsQueues
          /\ snsReq[c] = SnsIdle
      BY <1>0, <1>8, EvDelivers DEF DeliverToTopic
    <2>1. CASE EventTopic \notin DOMAIN snsTopics \ FifoTopics
      <3>1. snsReq' = snsReq /\ snsInfo' = snsInfo
        BY <1>8, <2>1 DEF DeliverToTopic
      <3> HIDE DEF r, m
      <3> QED
        BY <1>5, <2>0, <3>1
    <2>2. CASE EventTopic \in DOMAIN snsTopics \ FifoTopics
      <3>1. StartPublish(c, EventTopic, m, TRUE, snsInfo[m].earlier)
        BY <1>8, <2>2 DEF DeliverToTopic
      <3>2. Started(c, EventTopic, m, TRUE, snsInfo[m].earlier)
        BY <1>0, <3>1, PublishStarted
      <3>3. /\ \A d \in SnsClients \ {c} : snsReq'[d] = snsReq[d]
            /\ snsReq'[c].id = m /\ snsReq'[c].topic = EventTopic
            /\ DOMAIN snsInfo' = DOMAIN snsInfo
            /\ \A n \in DOMAIN snsInfo \ {m} : snsInfo'[n] = snsInfo[n]
            /\ snsInfo'[m].seq = 0 /\ snsInfo'[m].earlier = snsInfo[m].earlier
            /\ snsInfo'[m].topic = EventTopic
        BY <1>2, <3>2 DEF Started
      <3>4. NumberOf(m, snsMade')
        BY <1>0, <1>2, <2>0 DEF ShapeInv, InfoRow, NumberOf
      <3>5. \A d \in SnsClients \ {c} : snsReq[d].at \in Publishing => snsReq[d].id # m
        BY <1>0, <1>1 DEF EvInv, EvApart
      <3> HIDE DEF r, m
      <3>6. ShapeInv'
        BY <1>0, <2>0, <3>1, <3>4, ShapeStart
      <3>7. \A d \in SnsClients : snsReq'[d].at \in Publishing =>
              \/ snsReq'[d] = snsReq[d] /\ snsReq[d].id # m
              \/ snsReq'[d].id = m /\ snsInfo'[m].topic = snsReq'[d].topic
        BY <3>3, <3>5
      <3>8. NumberInv'
        BY <1>0, <1>2, <2>0, <3>3, <3>7, NumbersStart
      <3>9. SameEarlier(snsInfo, snsInfo')
        BY <3>3 DEF SameEarlier
      <3>10. Unanswered' \subseteq Unanswered
        <4>1. Open' \subseteq Open \cup {m}
          BY <3>3, OpenMore
        <4> QED
          BY <1>2, <1>4, <4>1 DEF Unanswered
      <3>11. Earlier(snsInfo', Unanswered')
        BY <3>3, <3>9, <3>10, EarlierFewer DEF NotifyInv, Arrivals
      <3>12. Arrivals(sqsQueues', snsInfo', Unanswered')
        BY <2>0, <3>9, <3>11, ArrivalsKept DEF NotifyInv
      <3>13. Smaller(snsInfo')
        BY <3>3, <3>9, SmallerFrame DEF NotifyInv
      <3> QED
        BY <1>3, <3>6, <3>8, <3>12, <3>13 DEF NotifyInv
    <2> QED
      BY <2>1, <2>2
  <1> QED
    BY <1>6, <1>7, <1>8

LEMMA NotifyCrash ==
    ASSUME NotifyInv, CrashNotify
    PROVE  NotifyInv'
  <1>0. /\ \A d \in SnsClients : evReq'[d] = EvIdle /\ snsReq'[d] = SnsIdle
        /\ DOMAIN evReq' = SnsClients /\ DOMAIN evInfo' = {} /\ evSeq' = evSeq
        /\ snsReq' = [c \in SnsClients |-> SnsIdle]
        /\ snsInfo' = snsInfo /\ snsTopics' = snsTopics /\ snsSubs' = snsSubs /\ snsMade' = snsMade
        /\ sqsQueues' = sqsQueues
    BY DEF CrashNotify, snsTables
  <1>1. ShapeInv'
    BY <1>0, ShapeStill DEF NotifyInv
  <1>2. NumberInv'
    BY <1>0, IdleShape DEF NotifyInv, NumberInv, SequencesIncrease
  <1>3. Unanswered' = {}
    BY <1>0, IdleShape DEF Unanswered, Open, EvOpen, Publishing, Fanning
  <1>4. Arrivals(sqsQueues', snsInfo', Unanswered')
    BY <1>0, <1>3 DEF NotifyInv, Arrivals, Earlier
  <1>5. EvInv'
    BY <1>0, IdleShape DEF NotifyInv, EvInv, EvRows, EvApart, EvRequest
  <1> QED
    BY <1>0, <1>1, <1>2, <1>4, <1>5 DEF NotifyInv

LEMMA NotifyInvInit ==
    ASSUME SnsInit, NEW seeded, NotifyInit(seeded)
    PROVE  NotifyInv
  <1>1. /\ \A d \in SnsClients : evReq[d] = EvIdle /\ snsReq[d] = SnsIdle
        /\ DOMAIN evReq = SnsClients /\ DOMAIN evInfo = {} /\ evSeq = 0 /\ DOMAIN snsInfo = {}
    BY DEF NotifyInit, SnsInit
  <1>2. EvInv
    BY <1>1, IdleShape DEF EvInv, EvRows, EvApart, EvRequest
  <1>3. ShapeInv /\ OrderInv
    BY ShapeInit, OrderInit
  <1>4. Earlier(snsInfo, Unanswered) /\ Smaller(snsInfo)
    BY <1>1 DEF Earlier, Smaller
  <1> QED
    BY <1>2, <1>3, <1>4 DEF OrderInv, NotifyInv, Arrivals

LEMMA NotifyThen == NotifyInv => EventsDelivered /\ PublishedInOrder
  <1> SUFFICES ASSUME NotifyInv PROVE EventsDelivered /\ PublishedInOrder
    OBVIOUS
  <1>1. ArrivedInOrder
    BY ArrivedThen DEF NotifyInv
  <1>2. EventsInOrder
    <2> DEFINE got == sqsQueues[EventQueue]
    <2> SUFFICES ASSUME EventQueue \in DOMAIN sqsQueues, NEW i \in DOMAIN got, NEW j \in DOMAIN got,
                        got[i] \in DOMAIN evInfo, got[j] \in DOMAIN evInfo, got[i] \in snsInfo[got[j]].earlier
                 PROVE  i < j /\ evInfo[got[i]].seq < evInfo[got[j]].seq
      BY DEF EventsInOrder
    <2>1. i < j
      BY <1>1 DEF ArrivedInOrder
    <2>2. got[j] \in DOMAIN snsInfo
      BY DEF NotifyInv, EvInv, EvRows
    <2>3. got[i] < got[j]
      BY <2>2 DEF NotifyInv, Smaller
    <2>4. evInfo[got[i]].seq < evInfo[got[j]].seq
      BY <2>3 DEF NotifyInv, EvInv, EvRows
    <2> QED
      BY <2>1, <2>4
  <1>3. \A m \in DOMAIN evInfo \ EvOpen : EvAnswered(m, evInfo, snsInfo, snsMessages)
    BY DEF NotifyInv, EvInv
  <1>4. EventsToAllTargets /\ PublishedThrough
    BY <1>3 DEF EventsToAllTargets, PublishedThrough, EvAnswered, Unanswered
  <1> QED
    BY <1>1, <1>2, <1>4 DEF EventsDelivered, PublishedInOrder, NotifyInv, NumberInv

LEMMA NotifyNext == NotifyInv /\ [NotifyStep \/ BesideWrites]_<<snsVars, evVars>> => NotifyInv'
  <1> SUFFICES ASSUME NotifyInv, [NotifyStep \/ BesideWrites]_<<snsVars, evVars>> PROVE NotifyInv'
    OBVIOUS
  <1>1. CASE NotifyStep
    BY <1>1, NotifyCrash, NotifySteps, NotifyNews DEF NotifyStep
  <1>2. CASE UNCHANGED <<snsVars, evVars>>
    <2>1. /\ snsReq' = snsReq /\ snsInfo' = snsInfo /\ snsTopics' = snsTopics /\ snsSubs' = snsSubs
          /\ snsMade' = snsMade /\ snsMessages' = snsMessages /\ sqsQueues' = sqsQueues
          /\ evConfig' = evConfig /\ evReq' = evReq /\ evSeq' = evSeq /\ evInfo' = evInfo
      BY <1>2 DEF snsVars, evVars
    <2>2. ShapeInv' /\ Unanswered' = Unanswered /\ EvOpen' = EvOpen
      BY <2>1, ShapeStill DEF NotifyInv, Unanswered, Open, EvOpen
    <2>3. NumberInv'
      BY <2>1 DEF NotifyInv, NumberInv, SequencesIncrease
    <2>4. EvInv'
      BY <2>1, <2>2 DEF NotifyInv, EvInv, EvRows, EvApart
    <2> QED
      BY <2>1, <2>2, <2>3, <2>4 DEF NotifyInv
  <1> QED
    BY <1>1, <1>2, NotifyBeside

\* Events of the writes that were answered went to every target, in the order of the
\* writes, and through SNS to its subscribers, whatever else goes on in SNS.
THEOREM EventsAreDelivered == NotifySpec => []EventsDelivered
  <1>1. SnsInit /\ (\E seeded \in SUBSET Targets : NotifyInit(seeded)) => NotifyInv
    BY NotifyInvInit
  <1>2. NotifyInv => EventsDelivered
    BY NotifyThen
  <1> QED
    BY <1>1, <1>2, NotifyNext, PTL DEF NotifySpec
====
