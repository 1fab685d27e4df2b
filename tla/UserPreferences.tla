---------------------------- MODULE UserPreferences ----------------------------
(***************************************************************************)
(* The preferences of the users: concurrent requests of                    *)
(* UserPreferenceController create, change and delete them through         *)
(* UserPreferenceRepository, over any of the three databases.  What a      *)
(* request writes is its own name, and, in an update, the user its body    *)
(* names, if any: the body goes to updateBy as it came.                    *)
(***************************************************************************)
EXTENDS Repository, FiniteSets

CONSTANTS Clients,        \* requests
          Owners          \* users

VARIABLES
    adapter, prefs, made,   \* the database; record -> fields; records ever created
    step, op, owner,        \* request -> position, operation, user
    body, seen,             \* request -> userId in its body, record it found; or None
    raced, deleted          \* users created for twice at once; records ever deleted

vars == <<adapter, prefs, made, step, op, owner, body, seen, raced, deleted>>

Init ==
    /\ adapter \in Adapters /\ prefs = <<>> /\ made = 0
    /\ step = [r \in Clients |-> "idle"]
    /\ op \in [Clients -> {"create", "update", "delete"}]
    /\ owner \in [Clients -> Owners]
    /\ body \in [Clients -> Owners \union {None}]
    /\ \A r \in Clients : op[r] # "update" => body[r] = None
    /\ seen = [r \in Clients |-> None]
    /\ raced = {} /\ deleted = {}

Query(r) == <<[key |-> "userId", value |-> owner[r]]>>
Goto(r, l) == step' = [step EXCEPT ![r] = l]

\* findBy, on to the position hit or miss.
Look(r, hit, miss) ==
    /\ \E p \in FindBy(adapter, prefs, Query(r)) :
        Goto(r, IF p = None THEN miss ELSE hit) /\ seen' = [seen EXCEPT ![r] = p]
    /\ UNCHANGED <<adapter, prefs, made, op, owner, body, raced, deleted>>

CreateLooks(r) == step[r] = "idle" /\ op[r] = "create" /\ Look(r, "refused", "create")

Create(r) ==
    LET record == [userId |-> owner[r], theme |-> r]
    IN  /\ step[r] = "create"
        /\ IF Creatable(adapter, prefs, record, "userId")
           THEN made' = made + 1 /\ prefs' = Insert(prefs, made', record) /\ Goto(r, "done")
           ELSE Goto(r, "refused") /\ UNCHANGED <<made, prefs>>
        /\ raced' = raced \union
               {owner[q] : q \in {p \in Clients \ {r} :
                                    step[p] = "create" /\ owner[p] = owner[r]}}
        /\ UNCHANGED <<adapter, op, owner, body, seen, deleted>>

Changes(r) ==
    IF body[r] = None THEN [theme |-> r] ELSE [userId |-> body[r], theme |-> r]

\* The unique index of Prisma refuses a second record of the user named.
Writable(r) ==
    adapter = "prisma" /\ body[r] # None =>
        \A p \in DOMAIN prefs : prefs[p].userId = body[r] => body[r] = owner[r]

\* One operation of the database, but two of Firebase.
Update(r) ==
    /\ step[r] = "idle" /\ op[r] = "update" /\ adapter # "firebase"
    /\ IF Exists(adapter, prefs, Query(r)) /\ Writable(r)
       THEN prefs' \in UpdateBy(adapter, prefs, Query(r), Changes(r)) /\ Goto(r, "done")
       ELSE Goto(r, "refused") /\ UNCHANGED prefs
    /\ UNCHANGED <<adapter, made, op, owner, body, seen, raced, deleted>>

UpdateLooks(r) ==
    /\ step[r] = "idle" /\ op[r] = "update" /\ adapter = "firebase"
    /\ Look(r, "write", "refused")

\* The reference of the record found is written, whatever became of it by now.
UpdateWrites(r) ==
    /\ step[r] = "write"
    /\ prefs' = UpdateById(adapter, prefs, seen[r], Changes(r))
    /\ Goto(r, "done")
    /\ UNCHANGED <<adapter, made, op, owner, body, seen, raced, deleted>>

DeleteLooks(r) == step[r] = "idle" /\ op[r] = "delete" /\ Look(r, "delete", "refused")

DeleteFound(r) ==
    /\ step[r] = "delete"
    /\ prefs' = Delete(prefs, seen[r]) /\ deleted' = deleted \union {seen[r]}
    /\ Goto(r, "done")
    /\ UNCHANGED <<adapter, made, op, owner, body, seen, raced>>

Next ==
    \E r \in Clients :
        \/ CreateLooks(r) \/ Create(r) \/ Update(r) \/ UpdateLooks(r) \/ UpdateWrites(r)
        \/ DeleteLooks(r) \/ DeleteFound(r)

Spec == Init /\ [][Next]_vars

-------------------------------------------------------------------------------
TypeOK ==
    /\ DOMAIN prefs \subseteq 1..made /\ made <= Cardinality(Clients)
    /\ \A p \in DOMAIN prefs :
        /\ prefs[p].theme \in Clients
        /\ "userId" \in DOMAIN prefs[p] => prefs[p].userId \in Owners
    /\ \A r \in Clients : seen[r] \in 0..made
    /\ deleted \subseteq 1..made /\ raced \subseteq Owners

\* Those that the body of an update gave a record: somebody else's update, or under
\* Firebase also their own, for its record may have gone in between.
Given ==
    {body[q] : q \in {r \in Clients :
        step[r] = "done" /\ body[r] # None /\ (body[r] # owner[r] \/ adapter = "firebase")}}

\* A user has two preference records only if two requests created them at once, or the
\* body of an update gave it one; and never under Prisma: the uniqueByKeys of create is
\* otherwise no more than a look.
OnePreferenceAUser ==
    \A p, q \in DOMAIN prefs :
        p # q /\ {"userId"} \subseteq DOMAIN prefs[p] \cap DOMAIN prefs[q]
            /\ prefs[p].userId = prefs[q].userId =>
            adapter # "prisma" /\ prefs[p].userId \in raced \union Given

\* What is deleted stays deleted, but for Firebase: an update that had found the record
\* writes its fields back, which no query for a user finds unless its body names one.
DeletedStaysDeleted ==
    \A p \in deleted \cap DOMAIN prefs :
        /\ adapter = "firebase"
        /\ "userId" \in DOMAIN prefs[p] =>
            \E r \in Clients :
                step[r] = "done" /\ seen[r] = p /\ body[r] = prefs[p].userId

\* Whatever interleaves, preferences are as their user last wrote them, unless an update
\* gave that user the record of another.
PreferencesAreOwn ==
    \A p \in DOMAIN prefs :
        "userId" \in DOMAIN prefs[p] =>
            owner[prefs[p].theme] = prefs[p].userId \/ prefs[p].userId \in Given
===============================================================================
