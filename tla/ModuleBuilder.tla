----------------------------- MODULE ModuleBuilder -----------------------------
(***************************************************************************)
(* module-builder.js: docker-compose.yml built from the base file and the  *)
(* file of each enabled module.  Of a service are kept what it waits for   *)
(* and the networks and named volumes it uses.  A behaviour is one build,  *)
(* in the order of the code.                                               *)
(***************************************************************************)
EXTENDS Naturals, Sequences

Null == "null"      \* networks and volumes are named without a value
Empty == "{}"

Modules == <<"rabbitmq", "redis", "mongodb", "postgresql", "prismastudio", "pgadmin">>
ModuleNames == {Modules[i] : i \in DOMAIN Modules}

ServiceKey ==
    [rabbitmq |-> "startup-rabbitmq", redis |-> "startup-redis",
     mongodb |-> "startup-db", postgresql |-> "startup-postgresql",
     prismastudio |-> "prisma-studio", pgadmin |-> "pgadmin"]

VolumeKeys(m) == IF m = "rabbitmq" THEN {"rabbitmq_data"} ELSE {}
NetworkKeys(m) ==
    IF m \in {"redis", "mongodb", "postgresql"} THEN {"startup-network"} ELSE {}

\* What the files say of a service; each that names it says the same.
Service(s) ==
    [depends |->
        CASE s = "startup-api" -> {"startup-rabbitmq", "startup-db", "startup-redis"}
          [] s \in {"prisma-studio", "pgadmin"} -> {"startup-postgresql"}
          [] OTHER -> {},
     mounts |->
        CASE s = "startup-rabbitmq" -> {"rabbitmq_data"}
          [] s = "startup-postgresql" -> {"postgres_data"}
          [] OTHER -> {},
     uses |-> {"startup-network"}]

BaseServices == {"startup-api", "startup-db"}

Base ==
    [services |-> [s \in BaseServices |-> Service(s)],
     networks |-> [k \in {"startup-network"} |-> Null],
     volumes |-> [k \in {} |-> Null]]

FileServices(m) ==
    {ServiceKey[m]} \union IF m = "redis" THEN {"startup-redis-commander"} ELSE {}
FileVolumes(m) ==
    CASE m = "rabbitmq" -> {"rabbitmq_data"}
      [] m \in {"postgresql", "pgadmin"} -> {"postgres_data"}
      [] OTHER -> {}

\* What the file of a module holds; none of them names a network.
File(m) ==
    [services |-> [s \in FileServices(m) |-> Service(s)],
     volumes |-> [k \in FileVolumes(m) |-> Null]]

\* { ...below, ...above }
Over(above, below) ==
    [k \in DOMAIN above \union DOMAIN below |->
        IF k \in DOMAIN above THEN above[k] ELSE below[k]]

VARIABLES
    enabled, present,   \* modules switched on in .env, modules whose file exists
    compose, stage, nth   \* the composition so far, the stage, the module of the first

vars == <<enabled, present, compose, stage, nth>>

Init ==
    /\ enabled \in SUBSET ModuleNames
    /\ present \in SUBSET ModuleNames
    /\ compose = Base /\ stage = "modules" /\ nth = 1

NextModule ==
    IF nth < Len(Modules) THEN nth' = nth + 1 /\ UNCHANGED stage
    ELSE stage' = "sections" /\ UNCHANGED nth

\* addDependsOn, which only the database has.
WithDependency(services) ==
    [services EXCEPT !["startup-api"].depends = @ \union {"startup-postgresql"}]

Merged(m) ==
    LET services == Over(File(m).services, compose.services)
    IN  [compose EXCEPT
            !.services = IF m = "postgresql" THEN WithDependency(services) ELSE services,
            !.volumes = Over(File(m).volumes, @)]

Enable ==
    /\ stage = "modules" /\ Modules[nth] \in enabled \intersect present
    /\ compose' = Merged(Modules[nth])
    /\ NextModule
    /\ UNCHANGED <<enabled, present>>

\* A disabled module is only remembered; one without its file is logged and left out.
PassOver ==
    /\ stage = "modules" /\ Modules[nth] \notin enabled \intersect present
    /\ NextModule
    /\ UNCHANGED <<enabled, present, compose>>

Without(section, keys) == [k \in DOMAIN section \ keys |-> section[k]]

\* Mutant of cleanConfig: an entry without a value goes too.
cleanConfigAny(section, keys) == Without(section, keys)

\* if (cleanedConfig[key]): an entry without a value stays.
cleanConfig(section, keys) == Without(section, {k \in keys \intersect DOMAIN section :
                                                    section[k] # Null})

Disabled == ModuleNames \ enabled

CleanSections ==
    /\ stage = "sections"
    /\ compose' = [compose EXCEPT
                    !.volumes = cleanConfig(@, UNION {VolumeKeys(m) : m \in Disabled}),
                    !.networks = cleanConfig(@, UNION {NetworkKeys(m) : m \in Disabled})]
    /\ stage' = "services"
    /\ UNCHANGED <<enabled, present, nth>>

RemoveServices ==
    /\ stage = "services"
    /\ compose' = [compose EXCEPT
                    !.services = Without(@, {ServiceKey[m] : m \in Disabled})]
    /\ stage' = "depends"
    /\ UNCHANGED <<enabled, present, nth>>

cleanDependsOn(services) ==
    [s \in DOMAIN services |-> [services[s] EXCEPT !.depends = @ \intersect DOMAIN services]]

removeEmptyObjects(section) ==
    Without(section, {k \in DOMAIN section : section[k] = Empty})

\* An entry without a value becomes an empty object after the empty ones are gone.
Filled(section) == [k \in DOMAIN section |-> IF section[k] = Null THEN Empty ELSE section[k]]

\* The rest of the build; an empty section is left out of the file.
Write ==
    /\ stage = "depends"
    /\ compose' = [services |-> cleanDependsOn(compose.services),
                   networks |-> Filled(removeEmptyObjects(compose.networks)),
                   volumes |-> Filled(removeEmptyObjects(compose.volumes))]
    /\ stage' = "written"
    /\ UNCHANGED <<enabled, present, nth>>

Next ==
    \/ Enable \/ PassOver \/ CleanSections \/ RemoveServices \/ Write

Spec == Init /\ [][Next]_vars

-------------------------------------------------------------------------------
TypeOK ==
    /\ enabled \subseteq ModuleNames /\ present \subseteq ModuleNames
    /\ {compose.networks[k] : k \in DOMAIN compose.networks} \subseteq {Null, Empty}
    /\ {compose.volumes[k] : k \in DOMAIN compose.volumes} \subseteq {Null, Empty}
    /\ stage \in {"modules", "sections", "services", "depends", "written"}
    /\ nth \in DOMAIN Modules

\* Whatever is switched on or missing, docker accepts the file: what a service waits
\* for, its network and its volumes are there.  (The network, which three modules list
\* for removal while everything uses it, is there only because it has no value.)
NothingDangles ==
    stage = "written" =>
        \A s \in DOMAIN compose.services :
            LET service == compose.services[s]
            IN  /\ service.depends \subseteq DOMAIN compose.services
                /\ service.uses \subseteq DOMAIN compose.networks
                /\ service.mounts \subseteq DOMAIN compose.volumes

\* A module's service is there if and only if the module is on and its file, or the
\* base file, has it; and the API waits for each of its four databases and brokers.
AsSwitched ==
    stage = "written" =>
        /\ \A m \in ModuleNames :
            ServiceKey[m] \in DOMAIN compose.services <=>
                m \in enabled /\ m \in present \union {"mongodb"}
        /\ compose.services["startup-api"].depends =
            DOMAIN compose.services \intersect
                {"startup-rabbitmq", "startup-db", "startup-redis", "startup-postgresql"}
===============================================================================
