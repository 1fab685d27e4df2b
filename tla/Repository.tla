------------------------------ MODULE Repository ------------------------------
(***************************************************************************)
(* What one call of BaseRepository does to a table under each of the three *)
(* database adapters.  A table is a function from identifiers to records;  *)
(* a query is a sequence of conditions [key, value], in the order of the   *)
(* object's keys.  Timestamps, projections and populated fields are left   *)
(* out.                                                                    *)
(***************************************************************************)
EXTENDS Naturals

CONSTANTS Containing   \* string with a "_" or "%" -> the stored values that contain it

None == 0   \* the answer null; identifiers are positive

Adapters == {"mongoose", "prisma", "firebase"}   \* RepositoryFactory.createRepository

\* A condition holds: parseWhere makes "contains" of a string with a "_".
Equals(adapter, value, stored) ==
    \/ stored = value
    \/ /\ adapter = "prisma" /\ value \in DOMAIN Containing
       /\ stored \in Containing[value]

\* Mutant of Conditions: no adapter looks further than the first.
ConditionsFirst(adapter, query) == {query[1]}

\* Firebase asks for the first key only.
Conditions(adapter, query) ==
    IF adapter = "firebase" THEN {query[1]} ELSE {query[i] : i \in DOMAIN query}

Matching(adapter, table, query) ==
    {id \in DOMAIN table :
        \A c \in Conditions(adapter, query) :
            c.key \in DOMAIN table[id] /\ Equals(adapter, c.value, table[id][c.key])}

Exists(adapter, table, query) == Matching(adapter, table, query) # {}

\* findBy answers some match, or null.
FindBy(adapter, table, query) ==
    LET found == Matching(adapter, table, query)
    IN  IF found = {} THEN {None} ELSE found

\* Mutant of Creatable: no unique index.
CreatableAlways(adapter, table, record, key) == TRUE

\* Only the Prisma schema has a unique index behind the uniqueByKeys of create.
Creatable(adapter, table, record, key) ==
    adapter = "prisma" => \A id \in DOMAIN table : table[id][key] # record[key]

Insert(table, id, record) ==
    [i \in DOMAIN table \union {id} |-> IF i = id THEN record ELSE table[i]]

\* A record with some of its fields, or new ones, written.
Written(record, changes) ==
    [key \in DOMAIN record \union DOMAIN changes |->
        IF key \in DOMAIN changes THEN changes[key] ELSE record[key]]

Change(table, ids, changes) ==
    [id \in DOMAIN table |->
        IF id \in ids THEN Written(table[id], changes) ELSE table[id]]

\* Mutant of UpdateBy: the query is left out.
UpdateByAll(adapter, table, query, changes) == {Change(table, DOMAIN table, changes)}

\* The tables updateBy may leave: Prisma changes every match, the others one of them.
UpdateBy(adapter, table, query, changes) ==
    LET found == Matching(adapter, table, query)
    IN  IF adapter = "prisma" \/ found = {} THEN {Change(table, found, changes)}
        ELSE {Change(table, {id}, changes) : id \in found}

\* updateById: what is not there Mongoose leaves, Prisma refuses, Firebase creates.
UpdateById(adapter, table, id, changes) ==
    IF id \in DOMAIN table THEN Change(table, {id}, changes)
    ELSE IF adapter = "firebase" THEN Insert(table, id, changes) ELSE table

\* delete; Firebase answers true whatever was there.
Delete(table, id) == [i \in DOMAIN table \ {id} |-> table[i]]
===============================================================================
