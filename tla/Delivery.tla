------------------------------ MODULE Delivery ------------------------------
(***************************************************************************)
(* What a message broker of CloudTwin promises of the copies of messages   *)
(* it keeps for its consumers, without tables, locks or clocks: a copy     *)
(* waits, or is out with a consumer, or is over.  It is handed out only    *)
(* while it waits, it may come back, and once it is over it stays over.    *)
(***************************************************************************)
EXTENDS Integers

VARIABLES
    waiting,   \* copies that can be handed out
    out,       \* copies with a consumer
    made,      \* all copies there ever were
    attempts   \* how often each copy that is not over was handed out

vars == <<waiting, out, made, attempts>>

Init == waiting = {} /\ out = {} /\ made = {} /\ attempts = [c \in {} |-> 0]

\* The step hands out the copies of S and no others; new ones start at 0.
Counted(S) ==
    attempts' = [c \in waiting' \cup out' |->
        IF c \in made' \ made THEN 0
        ELSE IF c \in S THEN attempts[c] + 1 ELSE attempts[c]]

\* Copies that never were before begin to wait.
Publish ==
    /\ made \subseteq made'
    /\ waiting' = waiting \cup (made' \ made)
    /\ out' = out
    /\ Counted({})

\* Some copies that wait are handed out.
HandOut ==
    /\ waiting' \subseteq waiting
    /\ out' = out \cup (waiting \ waiting')
    /\ made' = made
    /\ Counted(waiting \ waiting')

\* A consumer keeps copies that had come back, before another got them.
Retake ==
    /\ waiting' \subseteq waiting
    /\ out' = out \cup (waiting \ waiting')
    /\ made' = made
    /\ Counted({})

\* Some copies that were out wait again.
ComeBack ==
    /\ out' \subseteq out
    /\ waiting' = waiting \cup (out \ out')
    /\ made' = made
    /\ Counted({})

\* Some copies are over: settled, or gone with the queue they were in.
End ==
    /\ waiting' \subseteq waiting
    /\ out' \subseteq out
    /\ made' = made
    /\ Counted({})

Next == Publish \/ HandOut \/ Retake \/ ComeBack \/ End

Spec == Init /\ [][Next]_vars

=============================================================================
