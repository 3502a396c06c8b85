------------------------------- MODULE Dynamo -------------------------------
(***************************************************************************)
(* The DynamoDB emulation: src/src/aws/dynamodb/service.rs, query.rs and   *)
(* the dispatcher of handlers.rs.  Every request reads the table's row in  *)
(* one call and touches the items in later ones; UpdateItem makes four     *)
(* calls.  Each call is a step.                                            *)
(***************************************************************************)
EXTENDS Integers, FiniteSets, Functions, ServiceConstants

CONSTANTS
    DynClients, TableNames,
    HashKeys,   \* texts of HASH attributes
    SortKeys,   \* texts of RANGE attributes, as the key column has them
    SortType,   \* the type of each: "N", "S", "B", or "other" for what has no order
    SortRank,   \* where each stands among those of its type
    Attrs,      \* names of other attributes
    Sent,       \* the items and keys that clients send
    Sets,       \* what the SET of an UpdateItem may assign
    MaxTables   \* bound: tables created

\* p and s are the values of the HASH and the RANGE attribute, None where the item has
\* none, attrs the names of the other attributes.  A SET is the part it assigns.
DynItems == [p : HashKeys \cup {None}, s : SortKeys \cup {None}, attrs : SUBSET Attrs]

\* Numbers may have several texts (1 and 1.0); strings and binary values have one.
ASSUME DynamoConstants ==
    /\ None \notin HashKeys /\ None \notin SortKeys
    /\ SortType \in [SortKeys -> {"N", "S", "B", "other"}]
    /\ SortRank \in [SortKeys -> Int]
    /\ \A x, y \in SortKeys :
          SortType[x] \in {"S", "B"} /\ SortType[y] = SortType[x] /\ SortRank[x] = SortRank[y]
          => x = y
    /\ Sent \subseteq DynItems /\ Sets \subseteq DynItems
    /\ MaxTables \in Nat

VARIABLES
    dynTables,   \* table dynamo_tables: name -> row
    dynItems,    \* table dynamo_items: <<table, pk, sk>> -> item
    dynReq,      \* what the request of each client holds between two calls
    dynMade,     \* how many tables were created
    dynKept,     \* history: the attributes that an item has to have
    dynLoose     \* history: items written for a table that was gone or another

dynVars == <<dynTables, dynItems, dynReq, dynMade, dynKept, dynLoose>>
dynStore == <<dynTables, dynItems, dynMade, dynKept, dynLoose>>

\* ranged: the key schema has a RANGE key; born is history.
TableRows == [ranged : BOOLEAN, born : Nat]

DynIdle == [at |-> "idle"]
DynGo(c, r) == dynReq' = [dynReq EXCEPT ![c] = r]

\* Mutant: the RANGE attribute is always part of the key.
ExtractBoth(t, row, item) == <<t, item.p, item.s>>

\* extract_key: a missing attribute and a schema without RANGE both give the empty text.
ExtractKey(t, row, item) == <<t, item.p, IF row.ranged THEN item.s ELSE None>>

-----------------------------------------------------------------------------
(* Tables *)

\* create_table answers with a table that is there.
CreateTable(c, t, ranged) ==
    /\ dynReq[c] = DynIdle
    /\ t \notin DOMAIN dynTables
    /\ DynGo(c, [at |-> "create", table |-> t, ranged |-> ranged])
    /\ UNCHANGED dynStore

\* The name is the primary key: the INSERT fails when another request was first.
Inserts(t) == t \notin DOMAIN dynTables

InsertTable(c) ==
    LET r == dynReq[c] IN
    /\ r.at = "create"
    /\ IF Inserts(r.table)
       THEN /\ dynMade < MaxTables
            /\ dynMade' = dynMade + 1
            /\ dynTables' = [t \in DOMAIN dynTables \cup {r.table} |->
                  IF t = r.table THEN [ranged |-> r.ranged, born |-> dynMade]
                  ELSE dynTables[t]]
       ELSE UNCHANGED <<dynTables, dynMade>>
    /\ DynGo(c, DynIdle)
    /\ UNCHANGED <<dynItems, dynKept, dynLoose>>

\* Mutant: the items stay.
ItemsStay(t) == DOMAIN dynItems

ItemsNotOf(t) == {k \in DOMAIN dynItems : k[1] # t}

DropItems(t) ==
    /\ dynItems' = Restrict(dynItems, ItemsNotOf(t))
    /\ dynKept' = Restrict(dynKept, DOMAIN dynItems')
    /\ dynLoose' = dynLoose \cap DOMAIN dynItems'

\* delete_table; a table that is not there may have left items.
DeleteTable(t) ==
    /\ t \in DOMAIN dynTables \/ \E k \in DOMAIN dynItems : k[1] = t
    /\ DropItems(t)
    /\ dynTables' = Restrict(dynTables, DOMAIN dynTables \ {t})
    /\ UNCHANGED <<dynReq, dynMade>>

\* The process stops between the two DELETEs.
CrashInDeleteTable(t) ==
    /\ t \in DOMAIN dynTables
    /\ DropItems(t)
    /\ dynReq' = [c \in DynClients |-> DynIdle]
    /\ UNCHANGED <<dynTables, dynMade>>

\* /_cloudtwin/reset
ResetTables ==
    /\ dynTables # <<>> \/ dynItems # <<>>
    /\ dynTables' = <<>> /\ dynItems' = <<>>
    /\ dynKept' = <<>> /\ dynLoose' = {}
    /\ UNCHANGED <<dynReq, dynMade>>

-----------------------------------------------------------------------------
(* Items *)

\* put_item, the call that reads the table; BatchWriteItem makes one put_item or
\* delete_item after the other and stops at the first that fails.
PutItem(c, t, item) ==
    /\ dynReq[c] = DynIdle
    /\ t \in DOMAIN dynTables
    /\ DynGo(c, [at |-> "put", key |-> ExtractKey(t, dynTables[t], item), item |-> item,
                 born |-> dynTables[t].born, kept |-> {}, overtaken |-> FALSE])
    /\ UNCHANGED dynStore

\* Another request that read the item and has not written it yet.
Overtaken(c, k) ==
    [d \in DynClients |->
        IF d = c THEN DynIdle
        ELSE IF dynReq[d].at \in {"again", "put"} /\ dynReq[d].key = k
             THEN [dynReq[d] EXCEPT !.overtaken = TRUE] ELSE dynReq[d]]

\* The upsert, with the key that was extracted before.
WriteItem(c) ==
    LET r == dynReq[c]
        k == r.key
        dom == DOMAIN dynItems \cup {k} IN
    /\ r.at = "put"
    /\ dynItems' = [x \in dom |-> IF x = k THEN r.item ELSE dynItems[x]]
    /\ dynKept' = [x \in dom |-> IF x # k THEN dynKept[x]
                                 ELSE IF r.overtaken \/ k \notin DOMAIN dynKept
                                      THEN r.item.attrs ELSE r.kept]
    /\ dynLoose' = IF k[1] \in DOMAIN dynTables /\ dynTables[k[1]].born = r.born
                   THEN dynLoose \ {k} ELSE dynLoose \cup {k}
    /\ dynReq' = Overtaken(c, k)
    /\ UNCHANGED <<dynTables, dynMade>>

\* get_item of UpdateItem, DeleteItem: the table first.
ReadTable(c, t, item, op) ==
    /\ dynReq[c] = DynIdle
    /\ t \in DOMAIN dynTables
    /\ DynGo(c, [at |-> op, key |-> ExtractKey(t, dynTables[t], item), item |-> item])
    /\ UNCHANGED dynStore

DeleteItem(c) ==
    LET k == dynReq[c].key IN
    /\ dynReq[c].at = "delete"
    /\ dynItems' = Restrict(dynItems, DOMAIN dynItems \ {k})
    /\ dynKept' = Restrict(dynKept, DOMAIN dynItems')
    /\ dynLoose' = dynLoose \ {k}
    /\ dynReq' = Overtaken(c, k)
    /\ UNCHANGED <<dynTables, dynMade>>

\* The parts of a SET u over those of item i; it may name the key attributes too.
Assigned(i, u) ==
    [p |-> IF u.p = None THEN i.p ELSE u.p, s |-> IF u.s = None THEN i.s ELSE u.s,
     attrs |-> i.attrs \cup u.attrs]

\* Mutant: the update starts from the key alone.
UpdatedKey(r, u) == Assigned(r.item, u)

\* The SET applied to the item that is there, or to the key alone.
Updated(r, u) == Assigned(IF r.key \in DOMAIN dynItems THEN dynItems[r.key] ELSE r.item, u)

\* UpdateItem reads the item.
ReadItem(c, u) ==
    LET r == dynReq[c] IN
    /\ r.at = "update"
    /\ DynGo(c, [at |-> "again", key |-> r.key, item |-> Updated(r, u), overtaken |-> FALSE,
                 kept |-> u.attrs \cup IF r.key \in DOMAIN dynKept THEN dynKept[r.key] ELSE {}])
    /\ UNCHANGED dynStore

\* Mutant: the update is written back under the key it was asked for.
AskedKey(r) == r.key

\* put_item takes the key from the item: a SET of a key attribute moves the update to
\* another row and leaves the one that was read.
PutKey(r) == ExtractKey(r.key[1], dynTables[r.key[1]], r.item)

\* and goes through put_item, which reads the table again.
ReadTableAgain(c) ==
    LET r == dynReq[c]
        t == r.key[1] IN
    /\ r.at = "again"
    /\ DynGo(c, IF t \in DOMAIN dynTables
                THEN [at |-> "put", key |-> PutKey(r), item |-> r.item,
                      born |-> dynTables[t].born, kept |-> r.kept,
                      overtaken |-> r.overtaken \/ r.key # PutKey(r)]
                ELSE DynIdle)
    /\ UNCHANGED dynStore

-----------------------------------------------------------------------------
(* Query: the rows whose items satisfy the key condition.                    *)

\* Mutant: values without an order count as equal, as they do in the sort.
ComparesAnyway(x, op, y) ==
    SortType[x] = SortType[y] /\ SortType[x] # "other" =>
        CASE op = "=" -> SortRank[x] = SortRank[y]
          [] op = "<" -> SortRank[x] < SortRank[y]
          [] op = ">" -> SortRank[x] > SortRank[y]
          [] op = "<=" -> SortRank[x] <= SortRank[y]
          [] op = ">=" -> SortRank[x] >= SortRank[y]

\* compare, and the condition on its result: numbers by value whatever their text,
\* strings and binary values by their bytes, anything else not at all.
Compares(x, op, y) ==
    /\ SortType[x] = SortType[y] /\ SortType[x] # "other"
    /\ CASE op = "=" -> SortRank[x] = SortRank[y]
         [] op = "<" -> SortRank[x] < SortRank[y]
         [] op = ">" -> SortRank[x] > SortRank[y]
         [] op = "<=" -> SortRank[x] <= SortRank[y]
         [] op = ">=" -> SortRank[x] >= SortRank[y]

\* op compares the sort key with v, or is "none"; BETWEEN is >= and <= at once.
Matches(item, p, op, v) ==
    /\ item.p = p
    /\ op # "none" => item.s # None /\ Compares(item.s, op, v)

Query(t, p, op, v) == {k \in DOMAIN dynItems : k[1] = t /\ Matches(dynItems[k], p, op, v)}

DynInit ==
    /\ dynTables = <<>> /\ dynItems = <<>> /\ dynMade = 0
    /\ dynReq = [c \in DynClients |-> DynIdle]
    /\ dynKept = <<>> /\ dynLoose = {}

DynRequest(c) ==
    \/ InsertTable(c) \/ WriteItem(c) \/ DeleteItem(c) \/ ReadTableAgain(c)
    \/ \E u \in Sets : ReadItem(c, u)
    \/ \E t \in TableNames :
          \/ \E ranged \in BOOLEAN : CreateTable(c, t, ranged)
          \/ \E item \in Sent :
                \/ PutItem(c, t, item)
                \/ \E op \in {"delete", "update"} : ReadTable(c, t, item, op)

DynNext ==
    \/ \E c \in DynClients : DynRequest(c)
    \/ \E t \in TableNames : DeleteTable(t) \/ CrashInDeleteTable(t)
    \/ ResetTables

DynSpec == DynInit /\ [][DynNext]_dynVars

-----------------------------------------------------------------------------
(* Properties *)

\* An item without a table, or stored under a key that its table's schema does not
\* give it, was written by a request that overlapped the deletion of the table.
ItemsUnderTheirKey ==
    \A k \in DOMAIN dynItems : k \notin dynLoose =>
        /\ k[1] \in DOMAIN dynTables
        /\ k = ExtractKey(k[1], dynTables[k[1]], dynItems[k])

\* UpdateItem keeps the attributes that finished updates gave the item: one is lost only
\* where another request wrote the item between the read and the write, or where PutItem,
\* or an UpdateItem that sets key attributes to this item's, replaced the item whole.
UpdatesKept ==
    \A k \in DOMAIN dynItems : dynKept[k] \subseteq dynItems[k].attrs

\* Query by an item's own key, the HASH attribute and the RANGE attribute if the table
\* has one, against the key columns that GetItem and PutItem use.  The rows are told apart
\* by the text of the key and Query compares its value, so: it finds the item, unless its
\* RANGE attribute has no order, when it finds nothing; and another row only where both
\* RANGE attributes are texts of the same number.
QueryAgreesWithKey ==
    \A k \in DOMAIN dynItems :
        k \notin dynLoose /\ (\A x \in dynLoose : x[1] # k[1]) =>
        LET i == dynItems[k]
            ranged == dynTables[k[1]].ranged
            found == Query(k[1], i.p, IF ranged THEN "=" ELSE "none", i.s)
        IN  i.p # None /\ (ranged => i.s # None) =>
            /\ k \in found <=> (ranged => SortType[i.s] # "other")
            /\ \A x \in found \ {k} :
                  /\ k \in found /\ ranged
                  /\ SortType[i.s] = "N" /\ SortType[dynItems[x].s] = "N"
                  /\ SortRank[dynItems[x].s] = SortRank[i.s]

\* An item is where its table's key schema says, by which every operation finds it, and
\* has the attributes its updates gave it.
ItemsKept == ItemsUnderTheirKey /\ QueryAgreesWithKey /\ UpdatesKept
=============================================================================
