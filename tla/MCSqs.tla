------------------------------- MODULE MCSqs -------------------------------
(* Values of the constants of Sqs for TLC, for all its configurations.       *)
EXTENDS Sqs, TLC

CONSTANTS c1, c2, g1, g2, d1, d2, d3, b1, stdq, deadq, fifoq, fdeadq

ClientSymmetry == Permutations(Clients)

NoUpdate == [VisibilityTimeout |-> Keep, DelaySeconds |-> Keep,
             MessageRetentionPeriod |-> Keep, WaitTimeSeconds |-> Keep,
             RedrivePolicy |-> Keep, ContentBasedDeduplication |-> Keep]

\* Times in seconds, scaled down: what matters is their order.
MCDefaultAttrs == [VisibilityTimeout |-> 1, DelaySeconds |-> 0,
                   MessageRetentionPeriod |-> 9, WaitTimeSeconds |-> 0,
                   RedrivePolicy |-> None, ContentBasedDeduplication |-> FALSE]

Redrive(n, max) == [NoUpdate EXCEPT !.RedrivePolicy = [target |-> n, max |-> max]]

Plain == [valid |-> TRUE, body |-> b1, group |-> None, dedup |-> None, delay |-> None]
PlainInputs == {Plain}
Grouped(g, d) == [Plain EXCEPT !.group = g, !.dedup = d]

One == [max |-> 1, vt |-> None, wait |-> None]

OneAtATime == {One}
WaitOptions == {One, [One EXCEPT !.wait = 2]}

(* Standard queue with a dead-letter queue. *)
RedriveCreates == {[name |-> deadq, attrs |-> NoUpdate],
                   [name |-> stdq, attrs |-> Redrive(deadq, 2)]}
RedriveOptions == {One, [One EXCEPT !.vt = 0]}

(* Administration of one queue racing with its messages. *)
StandardCreates == {[name |-> stdq, attrs |-> NoUpdate]}
AdminCreates == {[name |-> stdq, attrs |-> NoUpdate],
                 [name |-> fifoq,
                  attrs |-> [NoUpdate EXCEPT !.ContentBasedDeduplication = TRUE]]}
AdminInputs == {Grouped(g1, d1), Grouped(g1, None), [Plain EXCEPT !.valid = FALSE]}
AdminUpdates == {[NoUpdate EXCEPT !.MessageRetentionPeriod = 1],
                 [NoUpdate EXCEPT !.DelaySeconds = 1],
                 Redrive(stdq, 1)}

(* FIFO queues. *)
FifoCreates == {[name |-> fdeadq, attrs |-> NoUpdate],
                [name |-> fifoq, attrs |-> NoUpdate],
                [name |-> fifoq, attrs |-> Redrive(fdeadq, 1)]}
PairInputs == {Grouped(g1, d1), Grouped(g1, d2)}
BatchOptions == {One, [One EXCEPT !.max = 2, !.vt = 2]}

=============================================================================
