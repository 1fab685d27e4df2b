------------------------------ MODULE PrismaSetup ------------------------------
(***************************************************************************)
(* scripts/check-prisma-changes.js, which the API container runs before    *)
(* the server: it regenerates the Prisma client and migrates the database  *)
(* when the hash of the schema is not the one in .prisma-hash, or there is *)
(* no client.  A step may fail or the container may die; a developer       *)
(* changes the schema at any time, and may change it back.                 *)
(***************************************************************************)
EXTENDS Naturals

CONSTANTS Schemas,                 \* contents of schema.prisma; each has its own hash
          MaxEdits, MaxFailures    \* bounds

Nothing == "nothing"    \* no .prisma-hash, no client, a database never migrated

VARIABLES
    schema, hash,        \* the schema file; the schema whose hash .prisma-hash holds
    client, database,    \* the schemas they were generated for and migrated to
    stage, current,      \* where the script is; the schema it hashed
    edited, halfway,     \* ghosts, see Edit and GenerationFails
    edits, failures

vars == <<schema, hash, client, database, stage, current, edited, halfway, edits, failures>>

Init ==
    /\ schema \in Schemas
    /\ hash = Nothing /\ client = Nothing /\ database = Nothing
    /\ stage = "stopped" /\ current = schema
    /\ edited = FALSE /\ halfway = FALSE
    /\ edits = 0 /\ failures = 0

isPrismaClientGenerated == client # Nothing

\* Mutant of Start: the hash is saved when it is compared.
StartSaves ==
    /\ stage = "stopped"
    /\ current' = schema /\ edited' = FALSE /\ hash' = schema
    /\ stage' = IF schema # hash \/ ~isPrismaClientGenerated THEN "generate" ELSE "server"
    /\ UNCHANGED <<schema, client, database, halfway, edits, failures>>

\* main, up to needsRegeneration.
Start ==
    /\ stage = "stopped"
    /\ current' = schema /\ edited' = FALSE
    /\ stage' = IF schema # hash \/ ~isPrismaClientGenerated THEN "generate" ELSE "server"
    /\ UNCHANGED <<schema, hash, client, database, halfway, edits, failures>>

\* prisma generate and prisma migrate read the schema as it is by then.
Generate ==
    /\ stage = "generate"
    /\ client' = schema /\ stage' = "migrate"
    /\ UNCHANGED <<schema, hash, database, current, edited, halfway, edits, failures>>

Migrate ==
    /\ stage = "migrate"
    /\ database' = schema /\ stage' = "save"
    /\ UNCHANGED <<schema, hash, client, current, edited, halfway, edits, failures>>

\* A run that nobody disturbed leaves nothing halfway.
saveHash ==
    /\ stage = "save"
    /\ hash' = current /\ stage' = "server" /\ halfway' = edited
    /\ UNCHANGED <<schema, client, database, current, edited, edits, failures>>

\* A command throws or the process dies: the script exits with 1 and the server is not
\* started.  A run that has generated a client leaves it without a migration or hash.
GenerationFails ==
    /\ stage \in {"generate", "migrate", "save"} /\ failures < MaxFailures
    /\ failures' = failures + 1
    /\ stage' = "stopped" /\ halfway' = (halfway \/ stage # "generate")
    /\ UNCHANGED <<schema, hash, client, database, current, edited, edits>>

\* The container is restarted.
Restart ==
    /\ stage = "server"
    /\ stage' = "stopped"
    /\ UNCHANGED <<schema, hash, client, database, current, edited, halfway, edits, failures>>

\* generatePrismaSchemaFile, or an editor: edited says that it was since Start.
Edit(s) ==
    /\ s # schema /\ edits < MaxEdits
    /\ schema' = s /\ edits' = edits + 1 /\ edited' = TRUE
    /\ UNCHANGED <<hash, client, database, stage, current, halfway, failures>>

\* node_modules is installed afresh.
RemoveClient ==
    /\ stage = "stopped" /\ client # Nothing
    /\ client' = Nothing
    /\ UNCHANGED <<schema, hash, database, stage, current, edited, halfway, edits, failures>>

Next ==
    \/ Start \/ Generate \/ Migrate \/ saveHash \/ GenerationFails \/ Restart
    \/ (\E s \in Schemas : Edit(s)) \/ RemoveClient

Spec == Init /\ [][Next]_vars

-------------------------------------------------------------------------------
TypeOK ==
    /\ {schema, current} \subseteq Schemas
    /\ {hash, client, database} \subseteq Schemas \union {Nothing}
    /\ stage \in {"stopped", "generate", "migrate", "save", "server"}
    /\ edited \in BOOLEAN /\ halfway \in BOOLEAN
    /\ edits \in 0..MaxEdits /\ failures \in 0..MaxFailures

\* The server starts with a client and a database of the schema, unless the schema was
\* edited while the script or the server ran, or an earlier run ended halfway and the
\* schema has been changed back since: the old hash then vouches for a newer client.
ServerFits ==
    stage = "server" /\ ~edited /\ ~halfway => client = schema /\ database = schema

\* The script never leaves a database behind its hash: what has a hash was migrated to,
\* by a run nobody disturbed.
HashIsMigrated == hash # Nothing /\ ~halfway /\ stage = "stopped" => database = hash
===============================================================================
