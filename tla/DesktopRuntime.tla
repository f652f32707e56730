--------------------------- MODULE DesktopRuntime ---------------------------
(***************************************************************************)
(* The packaged desktop window and the processes it starts: the controller *)
(* (DesktopController) that owns one service, the supervisor (serve) with  *)
(* its web and worker processes, and the bounded clean-up of processes     *)
(* that a window, a supervisor or the system left behind.                  *)
(*                                                                         *)
(* The system gives the identifier of a dead process to a new one, also of *)
(* another program, so a process is told by its identifier and its time of *)
(* creation.  One window runs at a time (the mutex of the desktop); a      *)
(* service started from the command line is not branded.                   *)
(***************************************************************************)
EXTENDS Naturals, SequencesExt, FiniteSetsExt

CONSTANTS
  Pids,          \* process identifiers of the system
  Nobody,
  MaxBorn,       \* processes created                              (bound)
  MaxWindows,    \* times the desktop is launched                  (bound)
  MaxExits,      \* processes and windows that die by themselves   (bound)
  MaxDenied      \* accesses the system denies                     (bound)

Identity == [pid : Pids, born : 1..MaxBorn]
Process == [role : {"serve", "web", "worker", "other"}, branded : BOOLEAN,
            born : 1..MaxBorn, parent : Identity \cup {Nobody},
            up : BOOLEAN,             \* this web process holds the port
            kids : 0..2,              \* children this supervisor started
            window : 0..MaxWindows]   \* the window that started the service, or 0

ASSUME DesktopAssumption ==
  /\ Nobody \notin Pids \cup Identity \cup Process
  /\ MaxBorn \in Nat /\ MaxWindows \in Nat /\ MaxExits \in Nat /\ MaxDenied \in Nat

VARIABLES
  table,         \* the processes of the system
  born,          \* how many were created
  window,        \* the window that runs, or ran last
  at, phase,     \* the step of its controller, and of the clean-up it is in
  quitting,      \* the clean-up ends the window
  owned,         \* _owned_process
  identity,      \* _owned_process_identity
  cleaned,       \* _initial_orphan_cleanup_done
  targets,       \* processes it is stopping
  failed,        \* some could not be stopped
  exits, denied,
  crashed, unsure  \* windows that died; that could not read an identity

control == <<window, at, phase, quitting, owned, identity, cleaned, targets, failed>>
counters == <<exits, denied, crashed, unsure>>
desktopVars == <<table, born, control, counters>>

Idle(p) == table[p] = Nobody
Running(p) == table[p] # Nobody
IdentityOf(p) == [pid |-> p, born |-> table[p].born]

(* A wrong one: the identifier alone. *)
MatchesPid(id) == Running(id.pid)
Matches(id) == Running(id.pid) /\ table[id.pid].born = id.born

Alive(id) == id # Nobody /\ Running(id.pid) /\ table[id.pid].born = id.born
Children(id) == {IdentityOf(p) : p \in {q \in Pids : Running(q) /\ table[q].parent = id}}

(* The health probe: some web process answers at the port.                 *)
PortAnswers == \E p \in Pids : Running(p) /\ table[p].up

DesktopTypeOK ==
  /\ table \in [Pids -> Process \cup {Nobody}]
  /\ born \in 0..MaxBorn
  /\ window \in 0..MaxWindows
  /\ at \in {"off", "idle", "scan", "stop", "probe", "spawn", "confirm", "health", "tree"}
  /\ phase \in {"initial", "tree", "release"} /\ quitting \in BOOLEAN
  /\ owned \in Identity \cup {Nobody} /\ identity \in Identity \cup {Nobody}
  /\ owned = Nobody => identity = Nobody
  /\ cleaned \in BOOLEAN /\ failed \in BOOLEAN
  /\ targets \subseteq Identity
  /\ at # "stop" => targets = {}

DesktopInit ==
  /\ table = [p \in Pids |-> Nobody]
  /\ born = 0 /\ window = 0
  /\ at = "off" /\ phase = "initial" /\ quitting = FALSE
  /\ owned = Nobody /\ identity = Nobody
  /\ cleaned = FALSE /\ failed = FALSE
  /\ targets = {}
  /\ exits = 0 /\ denied = 0 /\ crashed = {} /\ unsure = {}

---------------------------------------------------------------------------
(* Processes.                                                              *)

Created(p, role, branded, parent, w) ==
  [table EXCEPT ![p] = [role |-> role, branded |-> branded, born |-> born + 1, parent |-> parent,
                        up |-> FALSE, kids |-> 0, window |-> w]]
MayCreate(p) == Idle(p) /\ born < MaxBorn
Without(ids) == [p \in Pids |-> IF Running(p) /\ IdentityOf(p) \in ids THEN Nobody ELSE table[p]]

(* RuntimeSupervisor.start: the web process first, then the worker.        *)
ServeStarts(p) ==
  /\ Running(p) /\ table[p].role = "serve" /\ table[p].kids < 2
  /\ \E q \in Pids :
       /\ MayCreate(q)
       /\ LET role == IF table[p].kids = 0 THEN "web" ELSE "worker" IN
            table' = [Created(q, role, table[p].branded, IdentityOf(p), table[p].window)
                        EXCEPT ![p].kids = @ + 1]
  /\ born' = born + 1
  /\ UNCHANGED <<control, counters>>

(* RuntimeSupervisor.run: a child that ended takes the other one with it,  *)
(* for which stop waits, and then the supervisor.                          *)
ServeStops(p) ==
  LET children == Children(IdentityOf(p)) IN
  /\ Running(p) /\ table[p].role = "serve" /\ table[p].kids = 2
  /\ Cardinality(children) < 2
  /\ table' = Without(IF children = {} THEN {IdentityOf(p)} ELSE children)
  /\ UNCHANGED <<born, control, counters>>

(* A web process binds the port, or ends because it is taken.              *)
WebStarts(p) ==
  /\ Running(p) /\ table[p].role = "web" /\ ~table[p].up
  /\ table' = IF PortAnswers THEN Without({IdentityOf(p)}) ELSE [table EXCEPT ![p].up = TRUE]
  /\ UNCHANGED <<born, control, counters>>

Exits(p) ==
  /\ Running(p) /\ exits < MaxExits
  /\ table' = Without({IdentityOf(p)})
  /\ exits' = exits + 1
  /\ UNCHANGED <<born, control, denied, crashed, unsure>>

(* Another program, and newsradar serve on a command line.                 *)
OthersStart(p) ==
  /\ MayCreate(p)
  /\ \E role \in {"other", "serve"} : table' = Created(p, role, FALSE, Nobody, 0)
  /\ born' = born + 1
  /\ UNCHANGED <<control, counters>>

---------------------------------------------------------------------------
(* The controller.  Every step is one of its calls to the system.          *)

Proceeds(step) == at' = step
Keeps == UNCHANGED <<owned, identity, cleaned>>
Begins(step, p, quits) ==
  /\ Proceeds(step) /\ phase' = p /\ quitting' = quits
  /\ failed' = FALSE /\ targets' = {}
Same == UNCHANGED <<phase, quitting, failed, targets>>

Launch ==
  /\ at = "off" /\ window < MaxWindows
  /\ window' = window + 1
  /\ Begins("scan", "initial", FALSE)
  /\ UNCHANGED <<table, born, owned, identity, cleaned, counters>>

ClickStart ==
  /\ at = "idle"
  /\ Begins(IF cleaned THEN "probe" ELSE "scan", "initial", FALSE)
  /\ Keeps /\ UNCHANGED <<table, born, window, counters>>

Forgets == owned' = Nobody /\ identity' = Nobody /\ cleaned' = FALSE

(* stop_service and quit: what the window does not own goes on.            *)
ClickStop ==
  /\ at = "idle"
  /\ IF owned # Nobody THEN \E quits \in BOOLEAN : Begins("tree", "tree", quits) /\ Keeps
     ELSE Begins("off", "initial", FALSE) /\ Forgets
  /\ UNCHANGED <<table, born, window, counters>>

(* The window dies, and its memory with it.                                *)
Crash ==
  /\ at # "off" /\ exits < MaxExits
  /\ exits' = exits + 1 /\ crashed' = crashed \cup {window}
  /\ Begins("off", "initial", FALSE) /\ Forgets
  /\ UNCHANGED <<table, born, window, denied, unsure>>

Internal(p) == Running(p) /\ table[p].branded /\ table[p].role \in {"web", "worker"}

(* A wrong one: the parent is told by its identifier alone. *)
OrphanByPid(p) == Internal(p) /\ ~(table[p].parent # Nobody /\ Running(table[p].parent.pid))
Orphan(p) == Internal(p) /\ ~Alive(table[p].parent)

(* cleanup_orphaned_internal_processes selects its targets.  A process     *)
(* that cannot be inspected is not touched: it counts as a failure, except *)
(* when its program cannot be read, so that it is passed over in silence.  *)
ScanOrphans ==
  /\ at = "scan"
  /\ LET orphans == {IdentityOf(p) : p \in {q \in Pids : Orphan(q)}} IN
       \/ targets' = orphans /\ UNCHANGED <<failed, denied, unsure>>
       \/ /\ denied < MaxDenied /\ denied' = denied + 1
          /\ \E id \in orphans :
               /\ targets' = orphans \ {id}
               /\ \/ failed' = TRUE /\ UNCHANGED unsure
                  \/ unsure' = unsure \cup {table[id.pid].window} /\ UNCHANGED failed
  /\ Proceeds("stop")
  /\ Keeps /\ UNCHANGED <<table, born, window, phase, quitting, exits, crashed>>

(* _cleanup_owned_process: the snapshot of stop_owned_process_tree, which  *)
(* may be denied.  An owned process whose identity is not known is not     *)
(* stopped while it runs.                                                  *)
Snapshot ==
  \/ /\ targets' = IF Matches(identity)
                    THEN Children(IdentityOf(identity.pid)) \cup {IdentityOf(identity.pid)} ELSE {}
     /\ UNCHANGED <<failed, denied>>
  \/ /\ Running(identity.pid) /\ denied < MaxDenied /\ denied' = denied + 1
     /\ failed' = TRUE /\ UNCHANGED targets
Tree ==
  /\ at = "tree"
  /\ IF identity # Nobody THEN Snapshot /\ Proceeds("stop") /\ UNCHANGED <<phase, quitting>>
     ELSE /\ IF Alive(owned) THEN Proceeds("idle") /\ Same
             ELSE Proceeds("scan") /\ phase' = "release" /\ UNCHANGED <<quitting, failed, targets>>
          /\ UNCHANGED denied
  /\ Keeps /\ UNCHANGED <<table, born, window, exits, crashed, unsure>>

(* terminate, then kill, one process after the other and the root last.    *)
(* Each is told by its identity again.                                     *)
StopTargets ==
  /\ at = "stop" /\ targets # {}
  /\ \E id \in targets :
       /\ id = identity => targets = {id}
       /\ targets' = targets \ {id}
       /\ \/ Matches(id) /\ table' = Without({IdentityOf(id.pid)}) /\ UNCHANGED <<failed, denied>>
          \/ /\ Matches(id) /\ denied < MaxDenied /\ denied' = denied + 1
             /\ failed' = TRUE /\ UNCHANGED table
          \/ /\ ~Matches(id) /\ UNCHANGED <<table, denied>>
             /\ failed' = (failed \/ (phase # "tree" /\ Running(id.pid)))
  /\ Keeps /\ UNCHANGED <<born, window, at, phase, quitting, exits, crashed, unsure>>

(* The clean-up ends: that of start_service, that of the tree, after which *)
(* orphans are sought, and that of the orphans.                            *)
Stopped ==
  /\ at = "stop" /\ targets = {}
  /\ \/ /\ phase = "initial" /\ cleaned' = ~failed
        /\ Proceeds(IF failed THEN "idle" ELSE "probe")
        /\ UNCHANGED <<phase, owned, identity>>
     \/ /\ phase = "tree" /\ Proceeds("scan") /\ phase' = "release"
        /\ Keeps
     \/ /\ phase = "release" /\ failed /\ Proceeds("idle") /\ UNCHANGED phase
        /\ Keeps
     \/ /\ phase = "release" /\ ~failed /\ UNCHANGED phase
        /\ Proceeds(IF quitting THEN "off" ELSE "idle")
        /\ owned' = Nobody /\ identity' = Nobody
        /\ cleaned' = (cleaned /\ ~quitting)
  /\ UNCHANGED <<table, born, window, quitting, failed, targets, counters>>

(* status: an owned process that runs, or whoever answers, is enough.      *)
ProbeHealth ==
  /\ at = "probe"
  /\ Proceeds(IF Alive(owned) \/ PortAnswers THEN "idle" ELSE "spawn")
  /\ Same /\ Keeps /\ UNCHANGED <<table, born, window, counters>>

(* The process is created and its identity read, which may be denied.      *)
Spawn ==
  /\ at = "spawn"
  /\ \E p \in Pids :
       /\ MayCreate(p)
       /\ table' = Created(p, "serve", TRUE, Nobody, window)
       /\ owned' = [pid |-> p, born |-> born + 1]
  /\ born' = born + 1
  /\ \/ identity' = owned' /\ Proceeds("health") /\ UNCHANGED <<denied, unsure>>
     \/ /\ denied < MaxDenied /\ denied' = denied + 1
        /\ unsure' = unsure \cup {window}
        /\ Proceeds("confirm") /\ UNCHANGED identity
  /\ Same /\ UNCHANGED <<window, cleaned, exits, crashed>>

(* Without an identity: it is left alone while it runs.                    *)
Confirm ==
  /\ at = "confirm"
  /\ IF Alive(owned) THEN Proceeds("idle") /\ Same ELSE Begins("tree", "tree", FALSE)
  /\ Keeps /\ UNCHANGED <<table, born, window, counters>>

(* It answers; it ended, or does not answer in time and is stopped.        *)
Health ==
  /\ at = "health"
  /\ \/ PortAnswers /\ Proceeds("idle") /\ Same
     \/ ~PortAnswers /\ Begins("tree", "tree", FALSE)
  /\ Keeps /\ UNCHANGED <<table, born, window, counters>>

DesktopNext ==
  \/ \E p \in Pids : ServeStarts(p) \/ ServeStops(p) \/ WebStarts(p) \/ Exits(p) \/ OthersStart(p)
  \/ Launch \/ ClickStart \/ ClickStop \/ Crash
  \/ ScanOrphans \/ Tree \/ StopTargets \/ Stopped \/ ProbeHealth \/ Spawn \/ Confirm \/ Health

DesktopSpec == DesktopInit /\ [][DesktopNext]_desktopVars

---------------------------------------------------------------------------
(* Properties.                                                             *)

InHand(w) == w = window /\ at # "off" /\ owned # Nobody

(* What a window started is in its hand until it is gone: a window that    *)
(* stopped its service, or quit, leaves no supervisor, web or worker       *)
(* process of it, also of a service whose supervisor died before and was   *)
(* replaced.  Excepted are windows that died, and those that were denied   *)
(* the identity of their service.                                          *)
NothingEscapes ==
  \A p \in Pids : Running(p) /\ table[p].window > 0 =>
    \/ InHand(table[p].window)
    \/ table[p].window \in crashed \cup unsure

(* A window stops only what it started itself, and internal processes      *)
(* whose supervisor is gone: no service of a command line, no program that *)
(* got a recycled identifier, nothing of a living supervisor of a window   *)
(* that died.                                                              *)
OthersAreLeftAlone ==
  [][\A p \in Pids :
       at = "stop" /\ targets' # targets /\ Running(p) /\ table'[p] = Nobody
         => table[p].window = window \/ Orphan(p)]_desktopVars
=============================================================================
