--------------------------- MODULE LocalPostgres ---------------------------
(***************************************************************************)
(* The PostgreSQL server of the project (local_postgres.py): the commands  *)
(* "newsradar db init", "repair", "start" and "stop", one at a time, each  *)
(* a process that looks at the data directory, at postgresql.conf and at   *)
(* .env, runs the tools of PostgreSQL step by step, and may be killed      *)
(* between any two of them.                                                *)
(***************************************************************************)
EXTENDS Naturals, FiniteSets

CONSTANTS
  Ports,      \* that may be asked for
  DefaultPort,\* POSTGRES_DEFAULT_PORT
  BuiltinPort,\* of a cluster that was not configured
  NoPort

ASSUME PortsAssumption == DefaultPort \in Ports /\ NoPort \notin Ports \cup {BuiltinPort}

VARIABLES
  cluster,    \* data directory: "absent", "partial" if initdb was cut short, "ready"
  conf,       \* port of postgresql.conf
  created,    \* the database exists
  serving,    \* port its server listens at, or NoPort
  url,        \* port of the project's DATABASE_URL in .env, or NoPort
  setting,    \* NEWSRADAR_POSTGRES_PORT in .env, or NoPort
  taken,      \* ports that are excluded, or that others listen at
  command,    \* in progress, or "none"
  step,       \* its next step
  port,       \* its port
  known,      \* it was given the right password
  started,    \* it has started the server
  halfway     \* a change of the port was cut between its two files  (history)

disk == <<cluster, conf, created>>
env == <<url, setting>>
manager == <<command, step, port, known, started>>
postgresVars == <<disk, serving, env, taken, manager, halfway>>

PostgresInit ==
  /\ cluster = "absent" /\ conf = BuiltinPort /\ created = FALSE /\ serving = NoPort
  /\ url = NoPort /\ setting = NoPort /\ taken = {}
  /\ command = "none" /\ step = "none" /\ port = NoPort /\ known = FALSE /\ started = FALSE
  /\ halfway = FALSE

Initialized == cluster # "absent"
ClusterRunning == serving # NoPort
PortAvailable == port \notin taken /\ serving # port

(* Every command ends by giving up what it holds.                          *)
Over ==
  /\ command' = "none" /\ step' = "none" /\ port' = NoPort /\ known' = FALSE /\ started' = FALSE
Goes(s) == step' = s /\ UNCHANGED <<command, port, known, started>>

(* resolve_postgres_port: the environment, .env, or the default.           *)
Resolved(given) ==
  IF given # NoPort THEN given ELSE IF setting # NoPort THEN setting ELSE DefaultPort

Call(c) ==
  /\ command = "none"
  /\ command' = c /\ step' = "check" /\ started' = FALSE
  /\ \E given \in Ports \cup {NoPort} : port' = Resolved(given)
  /\ known' \in IF c = "repair" THEN BOOLEAN ELSE {FALSE}
  /\ UNCHANGED <<disk, serving, env, taken, halfway>>

---------------------------------------------------------------------------
(* What each command makes of what it finds; an error ends it, as does     *)
(* having nothing to do.                                                   *)
CheckInit ==
  IF ~Initialized /\ url # port /\ PortAvailable THEN Goes("initdb") ELSE Over

HasDatabaseUrl == url # NoPort
Moving == HasDatabaseUrl /\ url # port
CheckRepair ==
  \/ ~Initialized /\ Over
  \/ /\ Initialized /\ Moving
     /\ IF ClusterRunning \/ ~PortAvailable THEN Over ELSE Goes("conf")
  \/ Initialized /\ url = port /\ Over
  \/ Initialized /\ ~HasDatabaseUrl /\ ~known /\ Over
  \/ /\ Initialized /\ ~HasDatabaseUrl
     /\ IF ClusterRunning THEN Goes("look") ELSE IF PortAvailable THEN Goes("start") ELSE Over

CheckStart ==
  IF Initialized /\ ~ClusterRunning /\ PortAvailable THEN Goes("start") ELSE Over

Check ==
  /\ step = "check"
  /\ \/ command = "init" /\ CheckInit
     \/ command = "repair" /\ CheckRepair
     \/ command = "start" /\ CheckStart
  /\ UNCHANGED <<disk, serving, env, taken, halfway>>

Stop ==
  /\ command = "stop" /\ step = "check"
  /\ serving' \in {NoPort, serving}
  /\ Over /\ UNCHANGED <<disk, env, taken, halfway>>

---------------------------------------------------------------------------
(* The steps.                                                              *)
InitDb ==
  /\ step = "initdb"
  /\ cluster' = "ready" /\ Goes("configure")
  /\ UNCHANGED <<conf, created, serving, env, taken, halfway>>

Configure ==
  /\ step = "configure"
  /\ conf' = port /\ Goes("start")
  /\ UNCHANGED <<cluster, created, serving, env, taken, halfway>>

StartProcess ==
  /\ step = "start" /\ cluster = "ready" /\ conf \notin taken
  /\ serving' = conf /\ started' = TRUE
  /\ step' = CASE command = "init" -> "createdb" [] command = "repair" -> "look" [] OTHER -> "end"
  /\ UNCHANGED <<disk, env, taken, command, port, known, halfway>>

(* The server answers at its own port, to the password of the cluster;     *)
(* nobody else's server does.                                              *)
Answering == serving = port
LookForDatabase ==
  /\ step = "look" /\ Answering /\ known
  /\ Goes(IF created THEN "url" ELSE "createdb")
  /\ UNCHANGED <<disk, serving, env, taken, halfway>>

CreateDb ==
  /\ step = "createdb" /\ Answering
  /\ created' = TRUE /\ Goes("url")
  /\ UNCHANGED <<cluster, conf, serving, env, taken, halfway>>

(* A wrong one: the address is there before the database is. *)
WritesUrlEarly(s) == s \in {"url", "createdb"}
WritesUrl(s) == s = "url"
WriteUrl ==
  /\ WritesUrl(step)
  /\ url' = port /\ setting' = port
  /\ Over /\ UNCHANGED <<disk, serving, taken, halfway>>

(* _write_cluster_port, then .env: each replaced at once.                  *)
WriteClusterPort ==
  /\ step = "conf"
  /\ conf' = port /\ halfway' = TRUE /\ Goes("env")
  /\ UNCHANGED <<cluster, created, serving, env, taken>>
WriteMovedUrl ==
  /\ step = "env"
  /\ url' = port /\ setting' = port /\ halfway' = FALSE
  /\ Over /\ UNCHANGED <<disk, serving, taken>>

(* Any of them may fail; then the server is stopped if this command has    *)
(* started it, and that may fail as well.                                  *)
StepFails ==
  /\ step \notin {"none", "check"}
  /\ serving' \in IF started /\ command # "start" THEN {NoPort, serving} ELSE {serving}
  /\ Over /\ UNCHANGED <<disk, env, taken, halfway>>

(* The command is killed; initdb leaves what it has made so far.           *)
Kill ==
  /\ command # "none"
  /\ cluster' \in IF step = "initdb" THEN {"absent", "partial", "ready"} ELSE {cluster}
  /\ Over /\ UNCHANGED <<conf, created, serving, env, taken, halfway>>

---------------------------------------------------------------------------
(* Around it: the server ends with the machine, others come and go at the  *)
(* ports, and .env is lost or edited.                                      *)
ServerEnds ==
  /\ ClusterRunning /\ serving' = NoPort
  /\ UNCHANGED <<disk, env, taken, manager, halfway>>
OthersMove ==
  /\ \E p \in Ports \ {serving} :
       taken' = IF p \in taken THEN taken \ {p} ELSE taken \cup {p}
  /\ UNCHANGED <<disk, serving, env, manager, halfway>>
LoseEnv ==
  /\ env # <<NoPort, NoPort>> /\ command = "none"
  /\ url' = NoPort /\ setting' = NoPort /\ halfway' = FALSE
  /\ UNCHANGED <<disk, serving, taken, manager>>

PostgresNext ==
  \/ \E c \in {"init", "repair", "start", "stop"} : Call(c)
  \/ Check \/ Stop \/ InitDb \/ Configure \/ StartProcess \/ LookForDatabase \/ CreateDb
  \/ WriteUrl \/ WriteClusterPort \/ WriteMovedUrl \/ StepFails \/ Kill
  \/ ServerEnds \/ OthersMove \/ LoseEnv
PostgresSpec == PostgresInit /\ [][PostgresNext]_postgresVars

---------------------------------------------------------------------------
(* Properties.                                                             *)

(* The address in .env is that of a cluster that is whole and has the      *)
(* database, whichever step failed or was killed before; and of the port   *)
(* of its configuration, unless a change of the port was cut between the   *)
(* two files.  A server that runs under that address listens there.        *)
UrlIsUsable ==
  url # NoPort =>
    /\ cluster = "ready" /\ created
    /\ conf = url \/ halfway
    /\ serving \in {NoPort, conf}
=============================================================================
