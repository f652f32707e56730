----------------------------- MODULE LeaseLocks -----------------------------
(***************************************************************************)
(* The row locks of the transactions that meet on one running wave: lease  *)
(* maintenance and reclaim (OperationRepository), claims and verdicts of   *)
(* its members (WaveRepository), a cancellation from the web.  PostgreSQL  *)
(* keeps every lock until the transaction ends.  What the transactions     *)
(* write is the subject of OperationQueue and WaveMembers.                 *)
(***************************************************************************)
EXTENDS Naturals, Sequences, FiniteSets

CONSTANT Members  \* source ids of the wave

ASSUME LocksAssumption == IsFiniteSet(Members)

VARIABLES
  attempt,        \* number of the newest attempt
  txn,            \* locks the open transaction of a process takes, in order
  held            \* how many of them it holds

lockVars == <<attempt, txn, held>>

(* A handler works in one thread, its lease monitor in another.            *)
Processes == {"handler1", "monitor1", "handler2", "monitor2", "worker1", "worker2", "web"}
AttemptOf(p) == IF p \in {"handler2", "monitor2"} THEN 2 ELSE 1

Operation == <<"operation_run", 0>>
Attempt(a) == <<"operation_attempt", a>>
Worker(a) == <<"worker", a>>
Member(m) == <<"high_value_wave_member", m>>

(* FOR UPDATE, an UPDATE that leaves the keys alone, a foreign key check.  *)
Lock(row, mode) == [row |-> row, mode |-> mode]

Conflict(x, y) ==
  /\ x.row = y.row
  /\ \/ "update" \in {x.mode, y.mode}
     \/ {x.mode, y.mode} = {"no_key_update"}

---------------------------------------------------------------------------
(* The transactions, as the locks they take.                               *)

(* _lock_lease_rows; and the opposite order.                               *)
OperationFirst(a) == <<Lock(Operation, "update"), Lock(Attempt(a), "update")>>
LeaseRows(a) == <<Lock(Attempt(a), "update"), Lock(Operation, "update")>>

(* renew_lease and finish_attempt flush the worker row last.               *)
Maintain(a) == Append(LeaseRows(a), Lock(Worker(a), "no_key_update"))

(* heartbeat_worker                                                        *)
Heartbeat(a) == <<Lock(Worker(a), "no_key_update")>>

(* request_cancel                                                          *)
CancelLocks == <<Lock(Operation, "update")>>

(* lease_next by the second worker, when the lease of the first one has    *)
(* expired: the attempt that it makes INTERRUPTED is flushed when the row  *)
(* of the former worker is read, the worker rows at the end.               *)
Reclaim ==
  <<Lock(Operation, "update"), Lock(Attempt(1), "no_key_update"),
    Lock(Worker(1), "no_key_update"), Lock(Worker(2), "no_key_update")>>

(* claim_member: the new claim_attempt_id is checked against its table.    *)
ClaimMember(a, m) == <<Lock(Member(m), "update"), Lock(Attempt(a), "key_share")>>

(* finish_member counts the member in the operation row.                   *)
FinishMember(m) == <<Lock(Member(m), "update"), Lock(Operation, "no_key_update")>>

(* A member that is not fetched is claimed and finished at once.           *)
ClaimAndFinish(a, m) == Append(ClaimMember(a, m), Lock(Operation, "no_key_update"))

Transactions(p) ==
  CASE p \in {"monitor1", "monitor2"} -> {Maintain(AttemptOf(p))}
    [] p \in {"handler1", "handler2"} ->
         {ClaimMember(AttemptOf(p), m) : m \in Members} \cup {FinishMember(m) : m \in Members}
           \cup {ClaimAndFinish(AttemptOf(p), m) : m \in Members}
    [] p = "worker1" -> {Heartbeat(1)}
    [] p = "worker2" -> {Heartbeat(2), Reclaim}
    [] p = "web" -> {CancelLocks}

---------------------------------------------------------------------------
LocksTypeOK ==
  /\ attempt \in 1..2
  /\ \A p \in Processes :
       /\ txn[p] = <<>> \/ txn[p] \in Transactions(p)
       /\ held[p] \in 0..Len(txn[p])
  /\ \A p, q \in Processes : \A i \in 1..held[p], j \in 1..held[q] :
       p # q => ~Conflict(txn[p][i], txn[q][j])

LocksInit ==
  /\ attempt = 1
  /\ txn = [p \in Processes |-> <<>>]
  /\ held = [p \in Processes |-> 0]

Open(p) == txn[p] # <<>>
Wants(p) == Open(p) /\ held[p] < Len(txn[p])

(* The processes that hold what p asks for.                                *)
Blockers(p) ==
  {q \in Processes \ {p} : \E i \in 1..held[q] : Conflict(txn[p][held[p] + 1], txn[q][i])}

(* Handlers and monitors live from their attempt on, those of the first    *)
(* attempt also after it was reclaimed.                                    *)
Begin(p, t) ==
  /\ ~Open(p) /\ AttemptOf(p) <= attempt
  /\ t = Reclaim => attempt = 1
  /\ txn' = [txn EXCEPT ![p] = t]
  /\ UNCHANGED <<attempt, held>>

Acquire(p) ==
  /\ Wants(p) /\ Blockers(p) = {}
  /\ held' = [held EXCEPT ![p] = @ + 1]
  /\ UNCHANGED <<attempt, txn>>

Close(p) ==
  /\ txn' = [txn EXCEPT ![p] = <<>>]
  /\ held' = [held EXCEPT ![p] = 0]

Commit(p) ==
  /\ Open(p) /\ ~Wants(p)
  /\ attempt' = IF txn[p] = Reclaim THEN 2 ELSE attempt
  /\ Close(p)

(* SKIP LOCKED finds no operation; or lock_timeout ends the wait.          *)
GiveUp(p) ==
  /\ Wants(p) /\ Blockers(p) # {}
  /\ Close(p)
  /\ UNCHANGED attempt

LocksNext ==
  \E p \in Processes :
    Acquire(p) \/ Commit(p) \/ GiveUp(p) \/ \E t \in Transactions(p) : Begin(p, t)

LocksSpec == LocksInit /\ [][LocksNext]_lockVars

---------------------------------------------------------------------------
(* The query of lease_next skips an operation that is locked.              *)
Waits(p) == Wants(p) /\ ~(txn[p] = Reclaim /\ held[p] = 0)

WaitInCircle(circle) ==
  circle # {} /\ \A p \in circle : Waits(p) /\ Blockers(p) \cap circle # {}

(* src/newsradar/operations/repository.py:301-308: lease maintenance takes *)
(* the rows in the order of the foreign key checks of the members, "so the *)
(* attempt row must always be acquired first": no transactions would wait  *)
(* for each other in a circle.                                             *)
NoDeadlock == \A circle \in SUBSET Processes : ~WaitInCircle(circle)

(* What holds of all of them, reclaims included: member updates, verdicts, *)
(* heartbeats and cancellations never wait in a circle of their own.  In   *)
(* each there is a reclaim, and the maintenance of the very attempt that   *)
(* it takes over, which holds the attempt.                                 *)
OnlyReclaimsDeadlock ==
  \A circle \in SUBSET Processes :
    WaitInCircle(circle) =>
      /\ {"monitor1", "worker2"} \subseteq circle
      /\ txn["worker2"] = Reclaim /\ held["worker2"] = 1
=============================================================================
