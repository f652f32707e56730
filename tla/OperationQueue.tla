-------------------------- MODULE OperationQueue --------------------------
(***************************************************************************)
(* The durable operation queue of newsradar/operations: the rows of        *)
(* operation_runs, operation_attempts and workers, and the worker          *)
(* processes that lease, renew, execute and finish operations.             *)
(*                                                                         *)
(* Every transaction of OperationRepository is one action (it commits a    *)
(* single unit under row locks); everything between two transactions is    *)
(* interleaved.  A worker process is two threads: the main thread, which   *)
(* leases, monitors and finishes, and the handler thread it starts for     *)
(* each attempt.  Clocks are abstracted to what the code compares: a lease *)
(* is live or expired, a queued operation is due or not yet due.           *)
(***************************************************************************)
EXTENDS Naturals

CONSTANTS
  Operations,      \* rows operation_runs may come to hold
  Processes,       \* "newsradar worker" processes
  WorkerIds,       \* values of --worker-id
  IdOf,            \* the --worker-id each process runs under
  MaxAttempts,     \* MAX_ATTEMPTS
  MonitorErrors,   \* may a lease check of the monitor raise (database error)?
  MaxCrashes,      \* bound: process deaths in a behaviour
  None             \* SQL NULL

ASSUME IdOfAssumption == IdOf \in [Processes -> WorkerIds]
ASSUME MaxAttemptsAssumption == MaxAttempts \in Nat \ {0}
ASSUME BoundAssumption == MaxCrashes \in Nat /\ MonitorErrors \in BOOLEAN
ASSUME NoneAssumption ==
  /\ None \notin Operations \cup WorkerIds \cup Processes
  /\ None \notin Operations \X (1..MaxAttempts)
  /\ None # "cancelled"

(* An attempt is identified by its operation and its attempt_number; a     *)
(* lease (OperationLease) names the attempt it is for.                     *)
Attempts == Operations \X (1..MaxAttempts)

Terminal == {"succeeded", "partial", "failed", "cancelled"}
Statuses == {"absent", "queued", "running"} \cup Terminal

(* What the handler thread leaves behind: a result status, OperationResult *)
(* (FAILED, retryable=False) as "fatal", OperationCancelled as "cancelled",*)
(* and any other exception as "failed", the retryable internal failure.    *)
Outcomes == Terminal \cup {"fatal"}
HandlerOutcomes == Outcomes \ {"cancelled"}  \* no handler returns CANCELLED

VARIABLES
  status, attempts, lessee, lease, due, cancel,  \* operation_runs
  row,                                           \* operation_attempts.status
  current,                                       \* workers.current_operation_run_id
  main, held,                                    \* main thread of a process
  thread, runner, seen, outcome,                 \* handler thread of an attempt
  crashes                                        \* deaths so far (bounded)

operationRow == <<status, attempts, lessee, lease, due, cancel>>
mainThread == <<main, held>>
handlerThread == <<thread, runner, seen, outcome>>
vars == <<operationRow, row, current, mainThread, handlerThread, crashes>>

TypeOK ==
  /\ status \in [Operations -> Statuses]
  /\ attempts \in [Operations -> 0..MaxAttempts]
  /\ lessee \in [Operations -> WorkerIds \cup {None}]
  /\ lease \in [Operations -> {"none", "live", "expired"}]
  /\ due \in [Operations -> BOOLEAN]
  /\ cancel \in [Operations -> BOOLEAN]
  /\ row \in [Attempts -> {"none", "running", "interrupted"} \cup Terminal]
  /\ current \in [WorkerIds -> Operations \cup {None}]
  /\ main \in [Processes -> {"down", "idle", "watching", "renewed", "failing"}]
  /\ held \in [Processes -> Attempts \cup {None}]
  /\ thread \in [Attempts -> {"none", "running", "renewed", "returned"}]
  /\ runner \in [Attempts -> Processes \cup {None}]
  /\ seen \in [Attempts -> BOOLEAN]
  /\ outcome \in [Attempts -> Outcomes \cup {None}]
  /\ crashes \in Nat

Init ==
  /\ status = [o \in Operations |-> "absent"]
  /\ attempts = [o \in Operations |-> 0]
  /\ lessee = [o \in Operations |-> None]
  /\ lease = [o \in Operations |-> "none"]
  /\ due = [o \in Operations |-> FALSE]
  /\ cancel = [o \in Operations |-> FALSE]
  /\ row = [a \in Attempts |-> "none"]
  /\ current = [w \in WorkerIds |-> None]
  /\ main = [p \in Processes |-> "down"]
  /\ held = [p \in Processes |-> None]
  /\ thread = [a \in Attempts |-> "none"]
  /\ runner = [a \in Attempts |-> None]
  /\ seen = [a \in Attempts |-> FALSE]
  /\ outcome = [a \in Attempts |-> None]
  /\ crashes = 0

---------------------------------------------------------------------------
(* The queue as the web process, the CLI and the clock see it.             *)

(* OperationRepository.enqueue; "later" is not_before in the future.       *)
Enqueue(o, now) ==
  /\ status[o] = "absent"
  /\ status' = [status EXCEPT ![o] = "queued"]
  /\ due' = [due EXCEPT ![o] = now]
  /\ UNCHANGED <<attempts, lessee, lease, cancel, row, current, mainThread,
                 handlerThread, crashes>>

(* Time reaches next_attempt_at of a queued operation.                     *)
Mature(o) ==
  /\ status[o] = "queued" /\ ~due[o]
  /\ due' = [due EXCEPT ![o] = TRUE]
  /\ UNCHANGED <<status, attempts, lessee, lease, cancel, row, current,
                 mainThread, handlerThread, crashes>>

(* Time passes lease_expires_at: the lessee is dead, or only slow.         *)
Lapse(o) ==
  /\ lease[o] = "live"
  /\ lease' = [lease EXCEPT ![o] = "expired"]
  /\ UNCHANGED <<status, attempts, lessee, due, cancel, row, current,
                 mainThread, handlerThread, crashes>>

(* OperationRepository.request_cancel.                                     *)
RequestCancel(o) ==
  /\ status[o] \in {"queued", "running"}
  /\ cancel' = [cancel EXCEPT ![o] = TRUE]
  /\ status' = [status EXCEPT ![o] = IF @ = "queued" THEN "cancelled" ELSE @]
  /\ UNCHANGED <<attempts, lessee, lease, due, row, current, mainThread,
                 handlerThread, crashes>>

---------------------------------------------------------------------------
(* Transactions of the main thread.                                        *)

Newest(o) == <<o, attempts[o]>>

(* A wrong one: nothing is reclaimed. *)
ReadyQueuedOnly(o) ==
  attempts[o] < MaxAttempts /\ status[o] = "queued" /\ due[o]

(* _next_ready_statement: what lease_next may claim.                       *)
Ready(o) ==
  /\ attempts[o] < MaxAttempts
  /\ \/ status[o] = "queued" /\ due[o]
     \/ status[o] = "running" /\ lease[o] = "expired"

(* A wrong one: the former attempt stays open. *)
RowLeftOpen(o) == row
(* lease_next on an operation in state RUNNING closes the attempt that     *)
(* lost its lease and releases the worker row of its lessee.               *)
InterruptedRow(o) ==
  IF status[o] = "running" THEN [row EXCEPT ![Newest(o)] = "interrupted"] ELSE row
ReleasedCurrent(o) ==
  IF status[o] = "running" THEN [current EXCEPT ![lessee[o]] = None] ELSE current

(* lease_next, and the start of the handler thread for the new attempt.    *)
(* SKIP LOCKED passes over rows another transaction holds, so any ready    *)
(* operation may be the one returned.                                      *)
LeaseNext(p, o) ==
  LET a == <<o, attempts[o] + 1>>
      w == IdOf[p]
  IN /\ main[p] = "idle"
     /\ Ready(o)
     /\ row' = [InterruptedRow(o) EXCEPT ![a] = "running"]
     /\ current' = [ReleasedCurrent(o) EXCEPT ![w] = o]
     /\ attempts' = [attempts EXCEPT ![o] = @ + 1]
     /\ status' = [status EXCEPT ![o] = "running"]
     /\ lessee' = [lessee EXCEPT ![o] = w]
     /\ lease' = [lease EXCEPT ![o] = "live"]
     /\ main' = [main EXCEPT ![p] = "watching"]
     /\ held' = [held EXCEPT ![p] = a]
     /\ thread' = [thread EXCEPT ![a] = "running"]
     /\ runner' = [runner EXCEPT ![a] = p]
     /\ UNCHANGED <<due, cancel, seen, outcome, crashes>>

(* lease_next found nothing: heartbeat_worker(status="idle").  It leaves   *)
(* the row of a worker bound to a RUNNING operation as it is.              *)
IdleHeartbeat(p) ==
  LET w == IdOf[p]
      bound == current[w] # None /\ status[current[w]] = "running"
  IN /\ main[p] = "idle"
     /\ ~bound
     /\ current' = [current EXCEPT ![w] = None]
     /\ UNCHANGED <<operationRow, row, mainThread, handlerThread, crashes>>

(* A renew_lease that does not compare the worker identifiers.             *)
RenewableByAnyone(a) == status[a[1]] = "running"

(* renew_lease succeeds for attempt a: the operation is RUNNING and its    *)
(* worker_id is the lease's.  Neither the attempt's own status nor the     *)
(* expiry is looked at.                                                    *)
Renewable(a) == status[a[1]] = "running" /\ lessee[a[1]] = IdOf[runner[a]]

Renew(a) ==
  /\ Renewable(a)
  /\ lease' = [lease EXCEPT ![a[1]] = "live"]
  /\ current' = [current EXCEPT ![lessee[a[1]]] = a[1]]

RefuseRenewal(a) == ~Renewable(a) /\ UNCHANGED <<lease, current>>

(* The monitor's lease check, first transaction: renew_lease.  A refusal   *)
(* sets cancellation_seen.  lease_guard_lock excludes a checkpoint's check.*)
MonitorRenew(p) ==
  LET a == held[p]
  IN /\ main[p] = "watching"
     /\ thread[a] # "renewed"
     /\ \/ Renew(a) /\ main' = [main EXCEPT ![p] = "renewed"] /\ UNCHANGED seen
        \/ RefuseRenewal(a) /\ seen' = [seen EXCEPT ![a] = TRUE] /\ UNCHANGED main
     /\ UNCHANGED <<status, attempts, lessee, due, cancel, row, held, thread,
                    runner, outcome, crashes>>

(* Second transaction of the monitor's lease check: is_cancel_requested.   *)
MonitorRead(p) ==
  /\ main[p] = "renewed"
  /\ main' = [main EXCEPT ![p] = "watching"]
  /\ seen' = [seen EXCEPT ![held[p]] = @ \/ cancel[held[p][1]]]
  /\ UNCHANGED <<operationRow, row, current, held, thread, runner, outcome, crashes>>

(* The monitor's lease check raises: run_once records an internal failure  *)
(* without waiting for the handler thread, which keeps running.            *)
MonitorError(p) ==
  /\ MonitorErrors
  /\ main[p] \in {"watching", "renewed"}
  /\ main' = [main EXCEPT ![p] = "failing"]
  /\ UNCHANGED <<operationRow, row, current, held, handlerThread, crashes>>

(* A finish_attempt in which a retry takes precedence over a cancellation. *)
FinalRetryFirst(o, r) ==
  CASE r = "failed" /\ attempts[o] < MaxAttempts -> "queued"
    [] ~(r = "failed" /\ attempts[o] < MaxAttempts) /\ cancel[o] -> "cancelled"
    [] r = "fatal" /\ ~cancel[o] -> "failed"
    [] OTHER -> r

(* The verdict finish_attempt writes for outcome r of operation o.         *)
Final(o, r) ==
  CASE cancel[o] -> "cancelled"
    [] ~cancel[o] /\ r = "failed" /\ attempts[o] < MaxAttempts -> "queued"
    [] ~cancel[o] /\ r = "fatal" -> "failed"
    [] OTHER -> r

(* The guard of finish_attempt: the attempt is open, and its worker is the *)
(* lessee.  First a wrong one, which looks at the operation only.          *)
MayFinishUnfenced(a) == status[a[1]] = "running"
MayFinish(a) ==
  /\ status[a[1]] = "running"
  /\ lessee[a[1]] = IdOf[runner[a]]
  /\ row[a] = "running"

(* finish_attempt: only the running attempt of the lessee decides.         *)
Finish(a, r) ==
  LET o == a[1]
      w == IdOf[runner[a]]
  IN IF MayFinish(a)
     THEN /\ status' = [status EXCEPT ![o] = Final(o, r)]
          /\ row' = [row EXCEPT ![a] = IF Final(o, r) = "queued" THEN "failed"
                                       ELSE Final(o, r)]
          /\ lease' = [lease EXCEPT ![o] = "none"]
          /\ lessee' = [lessee EXCEPT ![o] = None]
          /\ due' = [due EXCEPT ![o] = @ /\ Final(o, r) # "queued"]
          /\ current' = [current EXCEPT ![w] = IF @ = o THEN None ELSE @]
          /\ UNCHANGED <<attempts, cancel>>
     ELSE UNCHANGED <<operationRow, row, current>>

(* The handler threads of attempts A are no more, nor their local state.   *)
Gone(A) ==
  /\ thread' = [a \in Attempts |-> IF a \in A THEN "none" ELSE thread[a]]
  /\ runner' = [a \in Attempts |-> IF a \in A THEN None ELSE runner[a]]
  /\ seen' = [a \in Attempts |-> seen[a] /\ a \notin A]
  /\ outcome' = [a \in Attempts |-> IF a \in A THEN None ELSE outcome[a]]

(* The handler thread has ended, run_once joins it and finishes.           *)
FinishReturned(p) ==
  LET a == held[p]
  IN /\ main[p] = "watching"
     /\ thread[a] = "returned"
     /\ Finish(a, outcome[a])
     /\ main' = [main EXCEPT ![p] = "idle"]
     /\ held' = [held EXCEPT ![p] = None]
     /\ Gone({a})
     /\ UNCHANGED crashes

(* The monitor raised: run_once finishes as FAILED and abandons the thread.*)
FinishErrored(p) ==
  /\ main[p] = "failing"
  /\ Finish(held[p], "failed")
  /\ main' = [main EXCEPT ![p] = "idle"]
  /\ held' = [held EXCEPT ![p] = None]
  /\ UNCHANGED <<handlerThread, crashes>>

---------------------------------------------------------------------------
(* The handler thread.                                                     *)

(* The handler thread ends with outcome r for run_once to join, or for     *)
(* nobody when its run was finished without it.                            *)
Ends(a, r) ==
  IF held[runner[a]] = a
  THEN /\ thread' = [thread EXCEPT ![a] = "returned"]
       /\ outcome' = [outcome EXCEPT ![a] = r]
       /\ UNCHANGED <<runner, seen>>
  ELSE Gone({a})

Goes(a, pc) ==
  /\ thread' = [thread EXCEPT ![a] = pc]
  /\ UNCHANGED <<runner, seen, outcome>>

(* The monitor of a's run holds lease_guard_lock.                          *)
MonitorChecks(a) == held[runner[a]] = a /\ main[runner[a]] = "renewed"

(* checkpoint: raises when cancellation_seen is set or renew_lease refuses.*)
CheckpointRenew(a) ==
  /\ thread[a] = "running"
  /\ \/ /\ seen[a]
        /\ Ends(a, "cancelled")
        /\ UNCHANGED <<lease, current>>
     \/ /\ ~seen[a] /\ ~MonitorChecks(a)
        /\ \/ RefuseRenewal(a) /\ Ends(a, "cancelled")
           \/ Renew(a) /\ Goes(a, "renewed")
  /\ UNCHANGED <<status, attempts, lessee, due, cancel, row, mainThread, crashes>>

(* checkpoint, second transaction: raise if cancelled, else go on working. *)
CheckpointRead(a) ==
  /\ thread[a] = "renewed"
  /\ \/ cancel[a[1]] /\ Ends(a, "cancelled")
     \/ ~cancel[a[1]] /\ Goes(a, "running")
  /\ UNCHANGED <<operationRow, row, current, mainThread, crashes>>

(* The handler returns a result or raises (an error of its checkpoint too).*)
HandlerReturn(a, r) ==
  /\ thread[a] \in {"running", "renewed"}
  /\ thread[a] = "renewed" => r = "failed"
  /\ Ends(a, r)
  /\ UNCHANGED <<operationRow, row, current, mainThread, crashes>>

---------------------------------------------------------------------------
(* Process life.                                                           *)

Start(p) ==
  /\ main[p] = "down"
  /\ main' = [main EXCEPT ![p] = "idle"]
  /\ UNCHANGED <<operationRow, row, current, held, handlerThread, crashes>>

(* The process dies between two transactions, all its threads with it.     *)
Crash(p) ==
  /\ main[p] # "down"
  /\ crashes < MaxCrashes
  /\ crashes' = crashes + 1
  /\ main' = [main EXCEPT ![p] = "down"]
  /\ held' = [held EXCEPT ![p] = None]
  /\ Gone({a \in Attempts : runner[a] = p})
  /\ UNCHANGED <<operationRow, row, current>>

MainStep(p) ==
  \/ \E o \in Operations : LeaseNext(p, o)
  \/ IdleHeartbeat(p)
  \/ MonitorRenew(p)
  \/ MonitorRead(p)
  \/ MonitorError(p)
  \/ FinishReturned(p)
  \/ FinishErrored(p)

HandlerStep(a) ==
  \/ CheckpointRenew(a)
  \/ CheckpointRead(a)
  \/ \E r \in HandlerOutcomes : HandlerReturn(a, r)

Next ==
  \/ \E o \in Operations :
       \/ \E now \in BOOLEAN : Enqueue(o, now)
       \/ Mature(o) \/ Lapse(o) \/ RequestCancel(o)
  \/ \E p \in Processes : MainStep(p) \/ Start(p) \/ Crash(p)
  \/ \E a \in Attempts : HandlerStep(a)

Spec == Init /\ [][Next]_vars

(* Fairness.  Clocks advance; run_worker loops for ever and is started     *)
(* again after a death; a transaction that can run eventually runs; a      *)
(* handler works under a deadline, so it cannot go from checkpoint to      *)
(* checkpoint for ever; completed.wait returns at once after the handler   *)
(* ended, so the monitor cannot check for ever (both strong fairness).     *)
Fairness ==
  /\ \A o \in Operations : WF_vars(Mature(o)) /\ WF_vars(Lapse(o))
  /\ \A p \in Processes :
       /\ WF_vars(Start(p))
       /\ WF_vars(\E o \in Operations : LeaseNext(p, o))
       /\ WF_vars(MonitorRead(p))
       /\ SF_vars(FinishReturned(p))
       /\ WF_vars(FinishErrored(p))
  /\ \A a \in Attempts :
       /\ WF_vars(CheckpointRead(a))
       /\ SF_vars(\E r \in HandlerOutcomes : HandlerReturn(a, r))

FairSpec == Spec /\ Fairness

---------------------------------------------------------------------------
(* Properties.                                                             *)

(* Attempt rows are a linear history of their operation: exactly the       *)
(* numbers up to attempt_count exist, and an attempt is open only if it is *)
(* the newest one of a RUNNING operation.  Reclaiming an expired lease     *)
(* (lease_next), finishing and cancelling all have to keep the two tables  *)
(* in step.                                                                *)
AttemptsAreLinear ==
  \A a \in Attempts :
    /\ row[a] = "none" <=> a[2] > attempts[a[1]]
    /\ row[a] = "running" <=> status[a[1]] = "running" /\ a[2] = attempts[a[1]]

(* A cancellation is never lost: once request_cancel returned TRUE the     *)
(* operation is not queued again by a retryable failure, and it ends as    *)
(* CANCELLED however its handler, its lease or its worker fare.            *)
CancelDecides == \A o \in Operations : cancel[o] => status[o] \in {"running", "cancelled"}

(* The converse: a checkpoint that raises because the lease was lost, not  *)
(* because somebody cancelled, never makes the operation CANCELLED.        *)
CancelledOnRequestOnly == \A o \in Operations : status[o] = "cancelled" => cancel[o]

(* A workers row that points to a RUNNING operation is the row of its      *)
(* lessee, so the idle heartbeat is held back for its lessee only.         *)
BoundWorkerIsLessee ==
  \A w \in WorkerIds :
    LET o == current[w]
    IN o # None /\ status[o] = "running" => lessee[o] = w

(* A closed attempt and a decided operation are history: no late finish,   *)
(* renewal, reclaim or cancel rewrites them.                               *)
HistoryIsKept ==
  [][/\ \A a \in Attempts : row[a] \notin {"none", "running"} => row'[a] = row[a]
     /\ \A o \in Operations :
          status[o] \in Terminal =>
            /\ status'[o] = status[o]
            /\ attempts'[o] = attempts[o]
            /\ cancel'[o] = cancel[o]]_vars

(* Only the process that holds the newest attempt takes an operation out   *)
(* of RUNNING: the result of a reclaimed attempt is dropped, whatever the  *)
(* order in which the old and the new worker finish.                       *)
OnlyNewestDecides ==
  [][\A o \in Operations :
       status[o] = "running" /\ status'[o] # "running" =>
         \E p \in Processes : held[p] = Newest(o) /\ held'[p] = None]_vars

(* run_once waits for the handler: no exception of a lease check has ended *)
(* it before.  No other process runs under the identifier of p.            *)
Awaited(a) == held[runner[a]] = a
HasOwnIdentifier(p) == \A q \in Processes : IdOf[q] = IdOf[p] => q = p

(* A checkpoint whose renewal succeeds belongs to the newest, still open   *)
(* attempt: after a reclaim the former lessee's handler cannot pass one.   *)
(* renew_lease compares identifiers only: not so for a handler that its    *)
(* run_once has left behind, nor under an identifier that is shared.       *)
CheckpointsAreFenced ==
  [][\A a \in Attempts :
       /\ thread[a] = "running" /\ thread'[a] = "renewed"
       /\ Awaited(a) /\ HasOwnIdentifier(runner[a])
       => a = Newest(a[1]) /\ row[a] = "running"]_vars

(* The operations as the rest of the program sees them obey the contract.  *)
Contract == INSTANCE OperationContract
ImplementsContract == Contract!ContractSpec

(* The last attempt of o was given up: its process died (or restarted)     *)
(* while it ran.                                                           *)
Abandoned(o) ==
  /\ status[o] = "running"
  /\ attempts[o] = MaxAttempts
  /\ \A p \in Processes : held[p] # Newest(o)

(* Every operation gets a verdict, or its last attempt was abandoned.      *)
Settles ==
  \A o \in Operations :
    status[o] \in {"queued", "running"} ~> status[o] \in Terminal \/ Abandoned(o)

(* Rows of an operation, its attempts and its workers agree.               *)
HistoryIsSound == TypeOK /\ AttemptsAreLinear /\ BoundWorkerIsLessee

(* Operations are cancelled when, and only when, it was asked for.         *)
CancellationIsExact == CancelDecides /\ CancelledOnRequestOnly

(* What ended stays as it is, and what ends is ended by who holds it.      *)
HistoryIsFenced == HistoryIsKept /\ OnlyNewestDecides
=============================================================================
