---------------------------- MODULE ReceiptRules ----------------------------
(***************************************************************************)
(* SES receiving: receipt rule sets and the processing of a message,       *)
(* src/src/aws/ses/receiving.rs.  A request on a rule reads the whole list *)
(* of its set, changes the copy and writes it back with `write_rules`;     *)
(* receiving a message reads the name of the active set, the set and its   *)
(* rules in three calls.                                                   *)
(*                                                                         *)
(* A rule is its name, whether it is enabled, the recipients it is for     *)
(* (none: all) and whether its actions end with a StopAction.  What the    *)
(* other actions do (S3, SNS, a bounce) is not told apart: they fail, if   *)
(* they do, with a warning in the log.  validate_rule looks at tables that *)
(* are not here.                                                           *)
(***************************************************************************)
EXTENDS Integers, Sequences, SequencesExt, FiniteSets, Functions, ServiceConstants

CONSTANTS
    RuleClients, RuleSets, RuleNames, Addresses,
    RuleBodies,       \* bound: [enabled, rcpts, stop] in use
    MaxRules,         \* bound: names in a list that is seeded or reordered
    MaxRuleRequests   \* bound: how many requests are made, messages included

ASSUME ReceiptRulesConstants ==
    /\ None \notin RuleSets \cup RuleNames
    /\ RuleBodies \subseteq [enabled : BOOLEAN, rcpts : SUBSET Addresses, stop : BOOLEAN]
    /\ MaxRules \in Nat /\ MaxRuleRequests \in Nat

VARIABLES
    rrSets,      \* table ses_receipt_rule_sets: name -> active
    rrRules,     \* table ses_receipt_rules: set -> its rules by position
    rrReq,       \* what the request of each client holds between two calls
    rrCount,     \* how many requests were made
    rrMails,     \* history: the messages that were accepted
    rrOwed,      \* history: set -> names of rules that are not to be lost
    rrStray      \* history: sets whose rules were written after they were deleted

rrVars == <<rrSets, rrRules, rrReq, rrCount, rrMails, rrOwed, rrStray>>

RuleIdle == [at |-> "idle"]
RuleGo(c, r) == rrReq' = [rrReq EXCEPT ![c] = r]

Names(rules) == {rules[n].name : n \in DOMAIN rules}
Rule(name, body) == [name |-> name, enabled |-> body.enabled, rcpts |-> body.rcpts, stop |-> body.stop]

-----------------------------------------------------------------------------
(* Rule sets *)

\* The set that a request looks at first.
ReadSet(op) == IF op.kind = "clone" THEN op.from ELSE op.set

\* rule_set_created, with which every request starts; each goes on with its own call.
StartRequest(c, op) ==
    /\ rrReq[c] = RuleIdle
    /\ rrCount < MaxRuleRequests /\ rrCount' = rrCount + 1
    /\ (ReadSet(op) \in DOMAIN rrSets) = (op.kind # "create_set")
    /\ RuleGo(c, [at |-> CASE op.kind = "create_set" -> "insert" [] op.kind = "delete_set" -> "active"
                           [] op.kind = "activate" -> "activate" [] OTHER -> "rules",
                  op |-> op, overtaken |-> FALSE])
    /\ UNCHANGED <<rrSets, rrRules, rrMails, rrOwed, rrStray>>

\* create_rule_set of clone_rule_set: looks for the new set.
CloneAbsent(c) ==
    LET r == rrReq[c] IN
    /\ r.at = "absent"
    /\ RuleGo(c, IF r.op.set \in DOMAIN rrSets THEN RuleIdle ELSE [r EXCEPT !.at = "insert"])
    /\ UNCHANGED <<rrSets, rrRules, rrCount, rrMails, rrOwed, rrStray>>

\* The INSERT fails when another request was first.
InsertSet(c) ==
    LET r == rrReq[c]
        s == r.op.set IN
    /\ r.at = "insert"
    /\ IF s \in DOMAIN rrSets THEN RuleGo(c, RuleIdle) /\ UNCHANGED rrSets
       ELSE /\ rrSets' = Put(rrSets, s, FALSE)
            /\ RuleGo(c, IF r.op.kind = "clone" THEN [r EXCEPT !.at = "write"] ELSE RuleIdle)
    /\ UNCHANGED <<rrRules, rrCount, rrMails, rrOwed, rrStray>>

ActiveSets == {s \in DOMAIN rrSets : rrSets[s]}

\* delete_rule_set looks whether the set is active
CheckInactive(c) ==
    LET r == rrReq[c] IN
    /\ r.at = "active"
    /\ RuleGo(c, IF r.op.set \in ActiveSets THEN RuleIdle ELSE [r EXCEPT !.at = "delete"])
    /\ UNCHANGED <<rrSets, rrRules, rrCount, rrMails, rrOwed, rrStray>>

\* History: the other requests that have read the rules of the set are overtaken.
Overtaken(c, s) ==
    [d \in RuleClients |->
        IF d = c THEN RuleIdle
        ELSE IF rrReq[d].at \in {"absent", "insert", "write"} /\ rrReq[d].op.set = s
             THEN [rrReq[d] EXCEPT !.overtaken = TRUE] ELSE rrReq[d]]

\* Mutant: the rules of the set stay.
RulesStay(s) == rrRules

RulesWithout(s) == [rrRules EXCEPT ![s] = <<>>]

\* and deletes it with its rules.
DeleteSet(c) ==
    LET s == rrReq[c].op.set IN
    /\ rrReq[c].at = "delete"
    /\ rrSets' = Restrict(rrSets, DOMAIN rrSets \ {s})
    /\ rrRules' = RulesWithout(s)
    /\ rrReq' = Overtaken(c, s)
    /\ rrOwed' = [rrOwed EXCEPT ![s] = {}]
    /\ rrStray' = rrStray \ {s}
    /\ UNCHANGED <<rrCount, rrMails>>

\* A crash between its two statements leaves the set without its rules, and ends the requests.
CrashInDeleteSet(c) ==
    LET s == rrReq[c].op.set IN
    /\ rrReq[c].at = "delete"
    /\ rrRules' = RulesWithout(s)
    /\ rrReq' = [d \in RuleClients |-> RuleIdle]
    /\ rrOwed' = [rrOwed EXCEPT ![s] = {}]
    /\ UNCHANGED <<rrSets, rrCount, rrMails, rrStray>>

\* set_active_rule_set; without a set it deactivates all.
Activate(c) ==
    /\ rrReq[c].at = "activate"
    /\ rrSets' = [t \in DOMAIN rrSets |-> t = rrReq[c].op.set]
    /\ RuleGo(c, RuleIdle)
    /\ UNCHANGED <<rrRules, rrCount, rrMails, rrOwed, rrStray>>

Deactivate ==
    /\ ActiveSets # {}
    /\ rrCount < MaxRuleRequests /\ rrCount' = rrCount + 1
    /\ rrSets' = [t \in DOMAIN rrSets |-> FALSE]
    /\ UNCHANGED <<rrRules, rrReq, rrMails, rrOwed, rrStray>>

-----------------------------------------------------------------------------
(* Rules *)

\* The position of the rule of that name; 0 if there is none.
PositionOf(rules, name) == SelectInSeq(rules, LAMBDA x : x.name = name)

\* The position after the rule of that name, or the first; 0 if there is no such rule.
Place(rules, after) ==
    IF after = None THEN 1
    ELSE IF PositionOf(rules, after) = 0 THEN 0 ELSE PositionOf(rules, after) + 1

\* A list that was read has a name at most once: it is the key of the table.
Without(rules, name) == RemoveFirstMatch(rules, LAMBDA x : x.name = name)
Named(rules, name) == CHOOSE x \in Range(rules) : x.name = name

\* Whether create_rule, update_rule, set_rule_position, reorder_rule_set go on, with the list they read,
Allowed(op, rules) ==
    CASE op.kind = "create" -> op.name \notin Names(rules) /\ Place(rules, op.after) # 0
      [] op.kind = "update" -> op.name \in Names(rules)
      [] op.kind = "position" -> op.name \in Names(rules) /\ Place(Without(rules, op.name), op.after) # 0
      [] op.kind = "reorder" -> Len(op.names) = Len(rules) /\ Range(op.names) \subseteq Names(rules)
      [] OTHER -> TRUE

\* and what they make of it.
ChangedRules(op, rules) ==
    CASE op.kind = "create" -> InsertAt(rules, Place(rules, op.after), Rule(op.name, op.body))
      [] op.kind = "update" -> [n \in DOMAIN rules |->
            IF rules[n].name = op.name THEN Rule(op.name, op.body) ELSE rules[n]]
      [] op.kind = "delete" -> Without(rules, op.name)
      [] op.kind = "position" ->
            LET rest == Without(rules, op.name)
            IN  InsertAt(rest, Place(rest, op.after), Named(rules, op.name))
      [] op.kind = "reorder" -> [n \in DOMAIN op.names |-> Named(rules, op.names[n])]
      [] OTHER -> rules

\* rules: the list is empty when the set is gone.
ReadRules(c) ==
    LET r == rrReq[c]
        rules == rrRules[ReadSet(r.op)] IN
    /\ r.at = "rules"
    /\ RuleGo(c, IF Allowed(r.op, rules)
                 THEN [at |-> IF r.op.kind = "clone" THEN "absent" ELSE "write",
                       op |-> r.op, rules |-> ChangedRules(r.op, rules), overtaken |-> FALSE]
                 ELSE RuleIdle)
    /\ UNCHANGED <<rrSets, rrRules, rrCount, rrMails, rrOwed, rrStray>>

Distinct(rules) == \A n, k \in DOMAIN rules : rules[n].name = rules[k].name => n = k

\* Mutant: without a transaction, the rows up to the one that fails are there.
StoredUpTo(s, rules) == IF Distinct(rules) THEN rules ELSE <<rules[1]>>

\* A name that is there twice fails the transaction.
Stored(s, rules) == IF Distinct(rules) THEN rules ELSE rrRules[s]

\* write_rules, whether or not the set is there.
WriteRules(c) ==
    LET r == rrReq[c]
        s == r.op.set IN
    /\ r.at = "write"
    /\ rrRules' = [rrRules EXCEPT ![s] = Stored(s, r.rules)]
    /\ rrReq' = Overtaken(c, s)
    /\ rrOwed' = [rrOwed EXCEPT ![s] =
          IF r.overtaken THEN (IF r.op.kind = "create" THEN @ \cup {r.op.name} ELSE @)
                              \cap Names(rrRules'[s])
          ELSE IF r.op.kind = "clone" THEN Names(r.rules)
          ELSE IF r.op.kind = "create" THEN @ \cup {r.op.name}
          ELSE IF r.op.kind = "delete" THEN @ \ {r.op.name} ELSE @]
    /\ rrStray' = IF s \in DOMAIN rrSets THEN rrStray ELSE rrStray \cup {s}
    /\ UNCHANGED <<rrSets, rrCount, rrMails>>

-----------------------------------------------------------------------------
(* receive, and the capture of `inbound` and of the SMTP listener *)

RuleMatches(rule, x) == rule.rcpts = {} \/ x \in rule.rcpts

\* Mutant: a rule that is not enabled is applied.
AppliesAnyway(rule, x) == RuleMatches(rule, x)

\* Of the rules those that are enabled are kept, and of them those for the recipient act.
Applies(rule, x) == rule.enabled /\ RuleMatches(rule, x)

\* partition, with the rules that apply.
Handled(rcpts, rules) == {x \in rcpts : \E n \in DOMAIN rules : Applies(rules[n], x)}

\* The name of the active set; without one no rule applies.
Receive(c, rcpts) ==
    /\ rrReq[c] = RuleIdle
    /\ rrCount < MaxRuleRequests /\ rrCount' = rrCount + 1
    /\ RuleGo(c, [at |-> IF ActiveSets = {} THEN "capture" ELSE "set", rcpts |-> rcpts, table |-> <<>>,
                  set |-> IF ActiveSets = {} THEN None ELSE CHOOSE s \in ActiveSets : TRUE,
                  next |-> 1, handled |-> {}, acted |-> {}])
    /\ UNCHANGED <<rrSets, rrRules, rrMails, rrOwed, rrStray>>

\* rule_set_created: a set that is gone meanwhile fails the request.
ReceiveSet(c) ==
    LET r == rrReq[c] IN
    /\ r.at = "set"
    /\ RuleGo(c, IF r.set \in DOMAIN rrSets THEN [r EXCEPT !.at = "list"] ELSE RuleIdle)
    /\ UNCHANGED <<rrSets, rrRules, rrCount, rrMails, rrOwed, rrStray>>

ReceiveList(c) ==
    LET r == rrReq[c]
        rules == rrRules[r.set] IN
    /\ r.at = "list"
    /\ RuleGo(c, [r EXCEPT !.at = "run", !.table = rules, !.handled = Handled(r.rcpts, rules)])
    /\ UNCHANGED <<rrSets, rrRules, rrCount, rrMails, rrOwed, rrStray>>

\* The actions of the next rule.
RunRule(c) ==
    LET r == rrReq[c]
        rule == r.table[r.next]
        matched == {x \in r.handled : Applies(rule, x)}
        stops == matched # {} /\ rule.stop
    IN  /\ r.at = "run" /\ r.next <= Len(r.table)
        /\ RuleGo(c, [r EXCEPT !.next = IF stops THEN Len(r.table) + 1 ELSE @ + 1,
                               !.acted = @ \cup {<<rule.name, x>> : x \in matched}])
        /\ UNCHANGED <<rrSets, rrRules, rrCount, rrMails, rrOwed, rrStray>>

\* capture_raw, for the recipients that no rule matched; then the message is accepted.
AcceptMail(c) ==
    LET r == rrReq[c] IN
    /\ r.at \in {"capture", "run"} /\ r.next > Len(r.table)
    /\ rrMails' = rrMails \cup {[rcpts |-> r.rcpts, table |-> r.table, acted |-> r.acted,
                                 captured |-> r.rcpts \ r.handled # {}]}
    /\ RuleGo(c, RuleIdle)
    /\ UNCHANGED <<rrSets, rrRules, rrCount, rrOwed, rrStray>>

-----------------------------------------------------------------------------
\* The requests.
Ops ==
    [kind : {"create_set", "delete_set", "activate"}, set : RuleSets]
    \cup [kind : {"create"}, set : RuleSets, name : RuleNames, body : RuleBodies,
          after : RuleNames \cup {None}]
    \cup [kind : {"update"}, set : RuleSets, name : RuleNames, body : RuleBodies]
    \cup [kind : {"delete"}, set : RuleSets, name : RuleNames]
    \cup [kind : {"position"}, set : RuleSets, name : RuleNames, after : RuleNames \cup {None}]
    \cup [kind : {"reorder"}, set : RuleSets, names : SeqOf(RuleNames, MaxRules)]
    \cup [kind : {"clone"}, set : RuleSets, from : RuleSets]

\* Seeded: one set that may be active, with its rules.
ReceiptRulesInit ==
    \E s \in RuleSets, names \in SeqOf(RuleNames, MaxRules) :
    \E bodies \in [DOMAIN names -> RuleBodies], active \in BOOLEAN :
        /\ IsInjective(names)
        /\ rrSets = [t \in {s} |-> active]
        /\ rrRules = [t \in RuleSets |->
              IF t = s THEN [n \in DOMAIN names |-> Rule(names[n], bodies[n])] ELSE <<>>]
        /\ rrOwed = [t \in RuleSets |-> IF t = s THEN Range(names) ELSE {}]
        /\ rrReq = [c \in RuleClients |-> RuleIdle]
        /\ rrCount = 0 /\ rrMails = {} /\ rrStray = {}

ReceiptRulesNext ==
    \/ Deactivate
    \/ \E c \in RuleClients :
          \/ \E op \in Ops : StartRequest(c, op)
          \/ CloneAbsent(c) \/ InsertSet(c) \/ CheckInactive(c) \/ Activate(c)
          \/ DeleteSet(c) \/ CrashInDeleteSet(c) \/ ReadRules(c) \/ WriteRules(c)
          \/ \E rcpts \in SUBSET Addresses \ {{}} : Receive(c, rcpts)
          \/ ReceiveSet(c) \/ ReceiveList(c) \/ RunRule(c) \/ AcceptMail(c)

ReceiptRulesSpec == ReceiptRulesInit /\ [][ReceiptRulesNext]_rrVars

-----------------------------------------------------------------------------
(* Properties *)

\* A rule that was created and not deleted is in its set, once, whatever was updated,
\* moved, reordered (names given twice included), cloned or activated since, unless a
\* request that had read the list before wrote it back after.
RulesLostByOverlap ==
    \A s \in RuleSets : Distinct(rrRules[s]) /\ rrOwed[s] \subseteq Names(rrRules[s])

\* Rules of a set that is not there, which the next set of that name would start with,
\* were written by a request that overlapped the deletion of the set.
RulesHaveSet ==
    \A s \in RuleSets : s \in DOMAIN rrSets \/ rrRules[s] = <<>> \/ s \in rrStray

\* No recipient of an accepted message is forgotten: in the list that was read of the
\* set, either an enabled rule is for it, and that one acted on it unless a StopAction
\* came first, or the message is captured in the inbox; and no other rule acted.
RecipientsAccountedFor ==
    \A m \in rrMails :
        LET For(x) == {n \in DOMAIN m.table : m.table[n].enabled /\ RuleMatches(m.table[n], x)}
            Stops(n) == m.table[n].stop /\ \E y \in m.rcpts : n \in For(y)
        IN  \A x \in m.rcpts :
                /\ For(x) = {} => m.captured
                /\ \A n \in DOMAIN m.table : (<<m.table[n].name, x>> \in m.acted) =
                      (n \in For(x) /\ \A k \in 1..n - 1 : ~Stops(k))

\* Rules are lost, or remain without their set, by overlapping requests only.
RulesKept == RulesLostByOverlap /\ RulesHaveSet
=============================================================================
