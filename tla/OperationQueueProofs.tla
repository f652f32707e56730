------------------------ MODULE OperationQueueProofs ------------------------
(***************************************************************************)
(* Safety of OperationQueue for every number of operations, processes and  *)
(* attempts, and every assignment of worker identifiers, shared ones       *)
(* included.                                                               *)
(***************************************************************************)
EXTENDS OperationQueue, TLAPS

(* The two threads of a process agree on what runs.                        *)
Control ==
  /\ \A p \in Processes :
       main[p] \in {"watching", "renewed", "failing"} <=> held[p] # None
  /\ \A p \in Processes : held[p] # None => runner[held[p]] = p
  /\ \A a \in Attempts : thread[a] # "none" => runner[a] # None
  /\ \A a \in Attempts : thread[a] = "returned" => outcome[a] \in Outcomes
  /\ \A a \in Attempts : row[a] = "none" => runner[a] = None

(* A RUNNING operation has a lessee, who leased its newest attempt.        *)
Leased ==
  /\ \A o \in Operations :
       status[o] = "running" => lessee[o] # None /\ attempts[o] > 0
  /\ \A a \in Attempts :
       row[a] = "running" /\ runner[a] # None => lessee[a[1]] = IdOf[runner[a]]

(* Every bound worker row is the lessee's, and of a RUNNING operation.     *)
BoundIsLessee ==
  \A w \in WorkerIds :
    current[w] # None => status[current[w]] = "running" /\ lessee[current[w]] = w

(* A handler that was told to stop while its attempt is open was told so   *)
(* by a cancellation.                                                      *)
StoppedOnRequest ==
  \A a \in Attempts :
    seen[a] \/ outcome[a] = "cancelled" =>
      row[a] # "none" /\ (row[a] = "running" => cancel[a[1]])

IInv ==
  /\ TypeOK
  /\ Control
  /\ AttemptsAreLinear
  /\ Leased
  /\ BoundIsLessee
  /\ StoppedOnRequest
  /\ CancelDecides
  /\ CancelledOnRequestOnly

USE IdOfAssumption, MaxAttemptsAssumption, BoundAssumption, NoneAssumption

(* The empty queue satisfies the inductive invariant.                      *)
LEMMA InitIInv == Init => IInv
  BY DEF Init, IInv, TypeOK, Control, AttemptsAreLinear, Leased, BoundIsLessee,
         StoppedOnRequest, CancelDecides, CancelledOnRequestOnly, Attempts, Newest,
         Statuses, Terminal, Outcomes

(* Attempts are pairs of an operation and a number.                        *)
LEMMA AttemptPairs ==
  /\ \A o \in Operations, n \in 1..MaxAttempts : <<o, n>> \in Attempts
  /\ \A a \in Attempts :
       a[1] \in Operations /\ a[2] \in 1..MaxAttempts /\ a = <<a[1], a[2]>>
  /\ \A o \in Operations, n \in 1..MaxAttempts, a \in Attempts :
       a = <<o, n>> <=> a[1] = o /\ a[2] = n
  /\ None \notin Attempts
  BY DEF Attempts

(* Enqueuing an operation keeps the inductive invariant.                   *)
LEMMA EnqueueStep ==
  ASSUME IInv, NEW o \in Operations, NEW now \in BOOLEAN, Enqueue(o, now)
  PROVE  IInv'
<1> USE DEF IInv, Enqueue, mainThread, handlerThread
<1>1. TypeOK' BY DEF TypeOK, Statuses
<1>2. AttemptsAreLinear'
  BY AttemptPairs DEF AttemptsAreLinear, TypeOK
<1>3. BoundIsLessee' BY DEF BoundIsLessee, TypeOK
<1>4. Leased' BY DEF Leased, TypeOK
<1>5. CancelDecides' /\ CancelledOnRequestOnly'
  BY DEF CancelDecides, CancelledOnRequestOnly, TypeOK
<1>6. Control' /\ StoppedOnRequest' BY DEF Control, StoppedOnRequest
<1> QED BY <1>1, <1>2, <1>3, <1>4, <1>5, <1>6

(* So does the passing of time: retries mature, leases lapse.              *)
LEMMA ClockStep ==
  ASSUME IInv, NEW o \in Operations, Mature(o) \/ Lapse(o)
  PROVE  IInv'
<1> USE DEF IInv, Mature, Lapse, mainThread, handlerThread
<1>1. TypeOK' BY DEF TypeOK
<1>2. AttemptsAreLinear' /\ CancelDecides' /\ CancelledOnRequestOnly'
  BY DEF AttemptsAreLinear, CancelDecides, CancelledOnRequestOnly
<1>3. Leased' /\ BoundIsLessee' BY DEF Leased, BoundIsLessee
<1>4. Control' /\ StoppedOnRequest' BY DEF Control, StoppedOnRequest
<1> QED BY <1>1, <1>2, <1>3, <1>4

(* request_cancel keeps it.                                                *)
LEMMA CancelStep ==
  ASSUME IInv, NEW o \in Operations, RequestCancel(o)
  PROVE  IInv'
<1> USE DEF IInv, RequestCancel, mainThread, handlerThread
<1>1. TypeOK' BY DEF TypeOK, Statuses, Terminal
<1>2. AttemptsAreLinear'
  BY AttemptPairs DEF AttemptsAreLinear, TypeOK
<1>3. Leased' /\ BoundIsLessee' BY DEF Leased, BoundIsLessee, TypeOK
<1>4. CancelDecides' /\ CancelledOnRequestOnly'
  BY DEF CancelDecides, CancelledOnRequestOnly, TypeOK
<1>5. StoppedOnRequest' BY AttemptPairs DEF StoppedOnRequest, TypeOK
<1>6. Control' BY DEF Control
<1> QED BY <1>1, <1>2, <1>3, <1>4, <1>5, <1>6

(* A worker process that starts keeps it.                                  *)
LEMMA StartStep == ASSUME IInv, NEW p \in Processes, Start(p) PROVE IInv'
<1> USE DEF IInv, Start, operationRow, handlerThread
<1>1. TypeOK' BY DEF TypeOK
<1>2. Control' BY DEF Control, TypeOK
<1>3. AttemptsAreLinear' /\ CancelDecides' /\ CancelledOnRequestOnly'
  BY DEF AttemptsAreLinear, CancelDecides, CancelledOnRequestOnly
<1>4. Leased' /\ BoundIsLessee' /\ StoppedOnRequest'
  BY DEF Leased, BoundIsLessee, StoppedOnRequest
<1> QED BY <1>1, <1>2, <1>3, <1>4

(* A worker process that dies keeps it.                                    *)
LEMMA CrashStep == ASSUME IInv, NEW p \in Processes, Crash(p) PROVE IInv'
<1> USE DEF IInv, Crash, Gone, operationRow
<1>1. TypeOK' BY DEF TypeOK
<1>2. Control' BY DEF Control, TypeOK
<1>3. AttemptsAreLinear' /\ CancelDecides' /\ CancelledOnRequestOnly'
  BY DEF AttemptsAreLinear, CancelDecides, CancelledOnRequestOnly
<1>4. Leased' BY DEF Leased, TypeOK
<1>5. BoundIsLessee' BY DEF BoundIsLessee
<1>6. StoppedOnRequest' BY DEF StoppedOnRequest, TypeOK
<1> QED BY <1>1, <1>2, <1>3, <1>4, <1>5, <1>6

(* lease_next opens an attempt that did not exist.                         *)
LEMMA LeaseFacts ==
  ASSUME IInv, NEW p \in Processes, NEW o \in Operations, LeaseNext(p, o)
  PROVE  LET a == <<o, attempts[o] + 1>>
         IN /\ attempts[o] \in Nat /\ attempts[o] < MaxAttempts
            /\ attempts[o] + 1 \in 1..MaxAttempts
            /\ a \in Attempts /\ IdOf[p] \in WorkerIds
            /\ row[a] = "none" /\ runner[a] = None /\ held[p] = None
            /\ ~seen[a] /\ outcome[a] # "cancelled"
<1> DEFINE a == <<o, attempts[o] + 1>>
<1> USE DEF IInv
<1>1. /\ attempts[o] \in Nat /\ attempts[o] < MaxAttempts
      /\ attempts[o] + 1 \in 1..MaxAttempts
      /\ a \in Attempts /\ IdOf[p] \in WorkerIds
  <2>1. attempts[o] \in 0..MaxAttempts /\ IdOf[p] \in WorkerIds
    BY IdOfAssumption DEF TypeOK
  <2>2. attempts[o] < MaxAttempts BY DEF LeaseNext, Ready
  <2>3. attempts[o] \in Nat /\ attempts[o] + 1 \in 1..MaxAttempts
    BY <2>1, <2>2, MaxAttemptsAssumption
  <2> QED BY <2>1, <2>2, <2>3, AttemptPairs
<1>2. /\ row[a] = "none" /\ runner[a] = None /\ held[p] = None
      /\ ~seen[a] /\ outcome[a] # "cancelled"
  BY <1>1 DEF LeaseNext, TypeOK, AttemptsAreLinear, Control, StoppedOnRequest
<1> QED BY <1>1, <1>2

(* lease_next keeps it: the case where all its conjuncts are at stake.     *)
LEMMA LeaseStep ==
  ASSUME IInv, NEW p \in Processes, NEW o \in Operations, LeaseNext(p, o)
  PROVE  IInv'
<1> DEFINE a == <<o, attempts[o] + 1>>
           w == IdOf[p]
<1> USE DEF IInv
<1>1. /\ attempts[o] \in Nat /\ attempts[o] < MaxAttempts
      /\ attempts[o] + 1 \in 1..MaxAttempts
      /\ a \in Attempts /\ w \in WorkerIds
  BY LeaseFacts
<1>2. /\ row[a] = "none" /\ runner[a] = None /\ held[p] = None
      /\ ~seen[a] /\ outcome[a] # "cancelled"
  BY LeaseFacts
<1>3. \A b \in Attempts :
        row'[b] = IF b = a THEN "running"
                  ELSE IF row[b] = "running" /\ b[1] = o THEN "interrupted"
                  ELSE row[b]
  <2>1. CASE status[o] = "running"
    <3>1. Newest(o) \in Attempts /\ Newest(o)[1] = o /\ Newest(o)[2] = attempts[o]
      BY <1>1, <2>1, AttemptPairs DEF Leased, Newest
    <3>2. row' = [row EXCEPT ![Newest(o)] = "interrupted", ![a] = "running"]
      BY <2>1 DEF LeaseNext, InterruptedRow
    <3>3. \A b \in Attempts : row[b] = "running" /\ b[1] = o <=> b = Newest(o)
      BY <1>1, <2>1, <3>1, AttemptPairs DEF AttemptsAreLinear, Newest
    <3> QED BY <1>1, <3>1, <3>2, <3>3 DEF TypeOK
  <2>2. CASE status[o] # "running"
    <3>1. row' = [row EXCEPT ![a] = "running"]
      BY <2>2 DEF LeaseNext, InterruptedRow
    <3> QED BY <1>1, <2>2, <3>1 DEF TypeOK, AttemptsAreLinear
  <2> QED BY <2>1, <2>2
<1>4. \A v \in WorkerIds :
        current'[v] = IF v = w THEN o
                      ELSE IF status[o] = "running" /\ v = lessee[o] THEN None
                      ELSE current[v]
  BY <1>1 DEF LeaseNext, ReleasedCurrent, TypeOK
<1>5. /\ status' = [status EXCEPT ![o] = "running"]
      /\ lessee' = [lessee EXCEPT ![o] = w]
      /\ attempts' = [attempts EXCEPT ![o] = @ + 1]
      /\ main' = [main EXCEPT ![p] = "watching"]
      /\ held' = [held EXCEPT ![p] = a]
      /\ thread' = [thread EXCEPT ![a] = "running"]
      /\ runner' = [runner EXCEPT ![a] = p]
      /\ UNCHANGED <<due, cancel, seen, outcome, crashes>>
  BY DEF LeaseNext
<1>6. TypeOK'
  BY <1>1 DEF LeaseNext, InterruptedRow, ReleasedCurrent, TypeOK, Statuses
<1>7. Control'
  <2>1. \A q \in Processes :
          (main'[q] \in {"watching", "renewed", "failing"} <=> held'[q] # None)
    BY <1>1, <1>5, AttemptPairs DEF Control, TypeOK
  <2>2. \A q \in Processes : held'[q] # None => runner'[held'[q]] = q
    <3> SUFFICES ASSUME NEW q \in Processes, held'[q] # None
                 PROVE  runner'[held'[q]] = q
      OBVIOUS
    <3>1. CASE q = p BY <1>1, <1>5, <3>1 DEF TypeOK
    <3>2. CASE q # p
      <4>1. held'[q] = held[q] /\ held[q] \in Attempts /\ runner[held[q]] = q
        BY <1>5, <3>2 DEF Control, TypeOK
      <4>2. held[q] # a BY <1>2, <4>1
      <4> QED BY <1>5, <4>1, <4>2 DEF TypeOK
    <3> QED BY <3>1, <3>2
  <2>3. \A b \in Attempts :
          /\ thread'[b] # "none" => runner'[b] # None
          /\ thread'[b] = "returned" => outcome'[b] \in Outcomes
          /\ row'[b] = "none" => runner'[b] = None
    BY <1>1, <1>3, <1>5 DEF Control, TypeOK
  <2> QED BY <2>1, <2>2, <2>3 DEF Control
<1>8. AttemptsAreLinear'
  <2> SUFFICES ASSUME NEW b \in Attempts
               PROVE  /\ row'[b] = "none" <=> b[2] > attempts'[b[1]]
                      /\ row'[b] = "running" <=>
                           status'[b[1]] = "running" /\ b[2] = attempts'[b[1]]
    BY DEF AttemptsAreLinear
  <2>1. b[1] \in Operations /\ b[2] \in Nat
        /\ (b = a <=> b[1] = o /\ b[2] = attempts[o] + 1)
    BY <1>1, AttemptPairs
  <2>2. CASE b[1] = o
    <3>1. status'[b[1]] = "running" /\ attempts'[b[1]] = attempts[o] + 1
      BY <1>5, <2>2 DEF TypeOK
    <3>2. (row[b] = "none" <=> b[2] > attempts[o])
          /\ (row[b] = "running" => b[2] = attempts[o])
      BY <2>2 DEF AttemptsAreLinear
    <3> QED BY <1>1, <1>3, <2>1, <2>2, <3>1, <3>2
  <2>3. CASE b[1] # o
    BY <1>3, <1>5, <2>1, <2>3 DEF AttemptsAreLinear, TypeOK
  <2> QED BY <2>2, <2>3
<1>9. Leased'
  <2>1. \A q \in Operations :
          status'[q] = "running" => lessee'[q] # None /\ attempts'[q] > 0
    BY <1>1, <1>5 DEF Leased, TypeOK
  <2>2. \A b \in Attempts :
          row'[b] = "running" /\ runner'[b] # None =>
            lessee'[b[1]] = IdOf[runner'[b]]
    <3> SUFFICES ASSUME NEW b \in Attempts, row'[b] = "running", runner'[b] # None
                 PROVE  lessee'[b[1]] = IdOf[runner'[b]]
      OBVIOUS
    <3>1. CASE b = a BY <1>1, <1>5, <3>1, AttemptPairs DEF TypeOK
    <3>2. CASE b # a
      <4>1. row[b] = "running" /\ b[1] # o BY <1>3, <3>2
      <4>2. runner'[b] = runner[b] BY <1>5, <3>2
      <4>3. lessee'[b[1]] = lessee[b[1]] BY <1>5, <4>1
      <4> QED BY <4>1, <4>2, <4>3 DEF Leased
    <3> QED BY <3>1, <3>2
  <2> QED BY <2>1, <2>2 DEF Leased
<1>10. BoundIsLessee'
  BY <1>1, <1>4, <1>5 DEF BoundIsLessee, TypeOK
<1>11. StoppedOnRequest'
  <2> SUFFICES ASSUME NEW b \in Attempts, seen[b] \/ outcome[b] = "cancelled"
               PROVE  row'[b] # "none" /\ (row'[b] = "running" => cancel[b[1]])
    BY <1>5 DEF StoppedOnRequest
  <2>1. b # a BY <1>2
  <2> QED BY <2>1, <1>3 DEF StoppedOnRequest
<1>12. CancelDecides' /\ CancelledOnRequestOnly'
  BY <1>5 DEF CancelDecides, CancelledOnRequestOnly, TypeOK
<1> QED BY <1>6, <1>7, <1>8, <1>9, <1>10, <1>11, <1>12

(* heartbeat_worker keeps it.                                              *)
LEMMA IdleStep == ASSUME IInv, NEW p \in Processes, IdleHeartbeat(p) PROVE IInv'
<1> USE DEF IInv, IdleHeartbeat, operationRow, mainThread, handlerThread
<1>1. IdOf[p] \in WorkerIds OBVIOUS
<1>2. TypeOK' BY <1>1 DEF TypeOK
<1>3. BoundIsLessee' BY <1>1 DEF TypeOK, BoundIsLessee
<1>4. Control' BY DEF Control
<1>5. AttemptsAreLinear' /\ CancelDecides' /\ CancelledOnRequestOnly'
  BY DEF AttemptsAreLinear, CancelDecides, CancelledOnRequestOnly
<1>6. Leased' /\ StoppedOnRequest' BY DEF Leased, StoppedOnRequest
<1> QED BY <1>2, <1>3, <1>4, <1>5, <1>6

(* A successful renewal binds the lessee's worker row.                     *)
LEMMA RenewalFacts ==
  ASSUME IInv, NEW a \in Attempts, Renew(a), UNCHANGED <<status, lessee>>
  PROVE  /\ lease' \in [Operations -> {"none", "live", "expired"}]
         /\ current' \in [WorkerIds -> Operations \cup {None}]
         /\ BoundIsLessee'
<1> USE DEF IInv, Renew, Renewable
<1>1. a[1] \in Operations /\ lessee[a[1]] \in WorkerIds
  BY DEF Attempts, TypeOK, Leased
<1> QED BY <1>1 DEF TypeOK, BoundIsLessee

(* A refused renewal of an open attempt: there is none, because the lessee *)
(* of an open attempt can renew.                                           *)
LEMMA RefusedAttemptIsClosed ==
  ASSUME IInv, NEW a \in Attempts, runner[a] # None, ~Renewable(a)
  PROVE  row[a] # "running"
  BY DEF IInv, Renewable, Leased, AttemptsAreLinear

(* renew_lease by the monitor keeps it, granted or refused.                *)
LEMMA MonitorRenewStep == ASSUME IInv, NEW p \in Processes, MonitorRenew(p) PROVE IInv'
<1> DEFINE a == held[p]
<1> USE DEF IInv, MonitorRenew
<1>1. a \in Attempts /\ runner[a] = p BY DEF TypeOK, Control
<1>2. /\ lease' \in [Operations -> {"none", "live", "expired"}]
      /\ current' \in [WorkerIds -> Operations \cup {None}]
      /\ BoundIsLessee'
  BY <1>1, RenewalFacts DEF RefuseRenewal, TypeOK, BoundIsLessee
<1>3. TypeOK' BY <1>1, <1>2 DEF TypeOK
<1>4. Control' BY <1>1 DEF Control, TypeOK
<1>5. StoppedOnRequest'
  <2>1. CASE UNCHANGED seen BY <2>1 DEF StoppedOnRequest
  <2>2. CASE RefuseRenewal(a) /\ seen' = [seen EXCEPT ![a] = TRUE]
    <3>1. row[a] # "running" /\ row[a] # "none"
      BY <1>1, <2>2, RefusedAttemptIsClosed DEF RefuseRenewal, Control
    <3> QED BY <1>1, <2>2, <3>1 DEF StoppedOnRequest, TypeOK
  <2> QED BY <2>1, <2>2
<1>6. AttemptsAreLinear' /\ CancelDecides' /\ CancelledOnRequestOnly'
  BY DEF AttemptsAreLinear, CancelDecides, CancelledOnRequestOnly
<1>7. Leased' BY DEF Leased
<1> QED BY <1>2, <1>3, <1>4, <1>5, <1>6, <1>7

(* The read of the cancellation flag by the monitor keeps it.              *)
LEMMA MonitorReadStep == ASSUME IInv, NEW p \in Processes, MonitorRead(p) PROVE IInv'
<1> USE DEF IInv, MonitorRead, operationRow
<1>1. held[p] \in Attempts /\ runner[held[p]] = p /\ row[held[p]] # "none"
  BY DEF TypeOK, Control
<1>2. cancel[held[p][1]] \in BOOLEAN BY <1>1 DEF TypeOK, Attempts
<1>3. TypeOK' BY <1>1, <1>2 DEF TypeOK
<1>4. Control' BY <1>1 DEF Control, TypeOK
<1>5. StoppedOnRequest' BY <1>1, <1>2 DEF StoppedOnRequest, TypeOK
<1>6. AttemptsAreLinear' /\ CancelDecides' /\ CancelledOnRequestOnly'
  BY DEF AttemptsAreLinear, CancelDecides, CancelledOnRequestOnly
<1>7. Leased' /\ BoundIsLessee' BY DEF Leased, BoundIsLessee
<1> QED BY <1>3, <1>4, <1>5, <1>6, <1>7

(* A lease check that raises keeps it.                                     *)
LEMMA MonitorErrorStep == ASSUME IInv, NEW p \in Processes, MonitorError(p) PROVE IInv'
<1> USE DEF IInv, MonitorError, operationRow, handlerThread
<1>1. TypeOK' BY DEF TypeOK
<1>2. Control' BY DEF Control, TypeOK
<1>3. AttemptsAreLinear' /\ CancelDecides' /\ CancelledOnRequestOnly'
  BY DEF AttemptsAreLinear, CancelDecides, CancelledOnRequestOnly
<1>4. Leased' /\ BoundIsLessee' /\ StoppedOnRequest'
  BY DEF Leased, BoundIsLessee, StoppedOnRequest
<1> QED BY <1>1, <1>2, <1>3, <1>4

(* What the handler thread of a leaves when it ends.                       *)
LEMMA EndFacts ==
  ASSUME IInv, NEW a \in Attempts, NEW r \in Outcomes, thread[a] # "none",
         r = "cancelled" /\ row[a] = "running" => cancel[a[1]],
         Ends(a, r), UNCHANGED <<mainThread, row, status, attempts, lessee, cancel>>
  PROVE  /\ thread' \in [Attempts -> {"none", "running", "renewed", "returned"}]
         /\ runner' \in [Attempts -> Processes \cup {None}]
         /\ seen' \in [Attempts -> BOOLEAN]
         /\ outcome' \in [Attempts -> Outcomes \cup {None}]
         /\ Control' /\ Leased' /\ StoppedOnRequest'
<1> USE DEF IInv, mainThread
<1>1. runner[a] \in Processes /\ row[a] # "none"
  BY DEF TypeOK, Control
<1>2. CASE held[runner[a]] = a
  <2> USE <1>1, <1>2 DEF Ends
  <2>1. /\ thread' \in [Attempts -> {"none", "running", "renewed", "returned"}]
        /\ UNCHANGED <<runner, seen>>
        /\ outcome' \in [Attempts -> Outcomes \cup {None}]
    BY DEF TypeOK
  <2>2. Control' BY DEF Control, TypeOK
  <2>3. Leased' BY DEF Leased
  <2>4. StoppedOnRequest' BY DEF StoppedOnRequest, TypeOK
  <2> QED BY <2>1, <2>2, <2>3, <2>4 DEF TypeOK
<1>3. CASE held[runner[a]] # a
  <2> USE <1>1, <1>3 DEF Ends, Gone
  <2>1. /\ thread' \in [Attempts -> {"none", "running", "renewed", "returned"}]
        /\ runner' \in [Attempts -> Processes \cup {None}]
        /\ outcome' \in [Attempts -> Outcomes \cup {None}]
    BY DEF TypeOK
  <2>5. seen' \in [Attempts -> BOOLEAN]
    <3>1. seen' = [b \in Attempts |-> seen[b] /\ b \notin {a}] OBVIOUS
    <3> QED BY ONLY <3>1
  <2>2. Control' BY DEF Control, TypeOK
  <2>3. Leased' BY DEF Leased
  <2>4. StoppedOnRequest' BY DEF StoppedOnRequest, TypeOK
  <2> QED BY <2>1, <2>2, <2>3, <2>4, <2>5
<1> QED BY <1>2, <1>3

(* renew_lease by a checkpoint of the handler keeps it.                    *)
LEMMA CheckpointRenewStep ==
  ASSUME IInv, NEW a \in Attempts, CheckpointRenew(a)
  PROVE  IInv'
<1> USE DEF IInv, CheckpointRenew, mainThread
<1>1. runner[a] # None /\ row[a] # "none" BY DEF Control
<1>2. AttemptsAreLinear' /\ CancelDecides' /\ CancelledOnRequestOnly'
  BY DEF AttemptsAreLinear, CancelDecides, CancelledOnRequestOnly
<1>3. CASE seen[a] /\ Ends(a, "cancelled") /\ UNCHANGED <<lease, current>>
  <2>1. row[a] = "running" => cancel[a[1]] BY <1>3 DEF StoppedOnRequest
  <2>2. BoundIsLessee' BY <1>3 DEF BoundIsLessee
  <2> QED BY <1>2, <1>3, <2>1, <2>2, EndFacts DEF TypeOK, Outcomes, Terminal
<1>4. CASE RefuseRenewal(a) /\ Ends(a, "cancelled")
  <2>1. row[a] # "running" BY <1>1, <1>4, RefusedAttemptIsClosed DEF RefuseRenewal
  <2>2. BoundIsLessee' BY <1>4 DEF RefuseRenewal, BoundIsLessee
  <2> QED BY <1>2, <1>4, <2>1, <2>2, EndFacts
          DEF RefuseRenewal, TypeOK, Outcomes, Terminal
<1>5. CASE Renew(a) /\ Goes(a, "renewed")
  <2> USE <1>5 DEF Goes
  <2>1. /\ lease' \in [Operations -> {"none", "live", "expired"}]
        /\ current' \in [WorkerIds -> Operations \cup {None}]
        /\ BoundIsLessee'
    BY RenewalFacts
  <2>2. TypeOK' BY <2>1 DEF TypeOK
  <2>3. Control' BY <1>1 DEF Control, TypeOK
  <2>4. Leased' /\ StoppedOnRequest' BY DEF Leased, StoppedOnRequest
  <2> QED BY <1>2, <2>1, <2>2, <2>3, <2>4
<1> QED BY <1>3, <1>4, <1>5

(* The read of the cancellation flag by a checkpoint keeps it.             *)
LEMMA CheckpointReadStep ==
  ASSUME IInv, NEW a \in Attempts, CheckpointRead(a)
  PROVE  IInv'
<1> USE DEF IInv, CheckpointRead, mainThread, operationRow
<1>1. runner[a] # None /\ row[a] # "none" BY DEF Control
<1>2. AttemptsAreLinear' /\ CancelDecides' /\ CancelledOnRequestOnly' /\ BoundIsLessee'
  BY DEF AttemptsAreLinear, CancelDecides, CancelledOnRequestOnly, BoundIsLessee
<1>3. CASE cancel[a[1]] /\ Ends(a, "cancelled")
  BY <1>2, <1>3, EndFacts DEF TypeOK, Outcomes, Terminal
<1>4. CASE Goes(a, "running")
  <2> USE <1>4 DEF Goes
  <2>1. TypeOK' BY DEF TypeOK
  <2>2. Control' BY <1>1 DEF Control, TypeOK
  <2>3. Leased' /\ StoppedOnRequest' BY DEF Leased, StoppedOnRequest
  <2> QED BY <1>2, <2>1, <2>2, <2>3
<1> QED BY <1>3, <1>4

(* A handler that returns keeps it.                                        *)
LEMMA HandlerReturnStep ==
  ASSUME IInv, NEW a \in Attempts, NEW r \in HandlerOutcomes, HandlerReturn(a, r)
  PROVE  IInv'
<1> USE DEF IInv, HandlerReturn, mainThread, operationRow
<1>1. AttemptsAreLinear' /\ CancelDecides' /\ CancelledOnRequestOnly' /\ BoundIsLessee'
  BY DEF AttemptsAreLinear, CancelDecides, CancelledOnRequestOnly, BoundIsLessee
<1>2. r \in Outcomes /\ r # "cancelled" BY DEF HandlerOutcomes
<1> QED BY <1>1, <1>2, EndFacts DEF TypeOK

(* finish_attempt keeps the two tables in step and writes a verdict that   *)
(* agrees with the cancellation flag.                                      *)
LEMMA FinishFacts ==
  ASSUME IInv, NEW p \in Processes, held[p] # None, NEW r \in Outcomes,
         r = "cancelled" /\ row[held[p]] = "running" => cancel[held[p][1]],
         Finish(held[p], r)
  PROVE  /\ status' \in [Operations -> Statuses]
         /\ attempts' = attempts /\ cancel' = cancel
         /\ lessee' \in [Operations -> WorkerIds \cup {None}]
         /\ lease' \in [Operations -> {"none", "live", "expired"}]
         /\ due' \in [Operations -> BOOLEAN]
         /\ row' \in [Attempts -> {"none", "running", "interrupted"} \cup Terminal]
         /\ current' \in [WorkerIds -> Operations \cup {None}]
         /\ \A b \in Attempts :
              /\ row'[b] = "none" <=> row[b] = "none"
              /\ row'[b] = "running" =>
                   row[b] = "running" /\ lessee'[b[1]] = lessee[b[1]]
         /\ \A o \in Operations :
              status'[o] = "running" => status[o] = "running" /\ lessee'[o] = lessee[o]
         /\ AttemptsAreLinear' /\ BoundIsLessee'
         /\ CancelDecides' /\ CancelledOnRequestOnly'
<1> DEFINE a == held[p]
           o == a[1]
           w == IdOf[p]
           f == Final(o, r)
<1> USE DEF IInv
<1>1. /\ a \in Attempts /\ o \in Operations /\ runner[a] = p
      /\ w \in WorkerIds
  BY AttemptPairs DEF Control, TypeOK
<1>2. CASE ~MayFinish(a)
  <2>1. UNCHANGED <<status, attempts, lessee, lease, due, cancel, row, current>>
    BY <1>2 DEF Finish, operationRow
  <2> QED BY <2>1 DEF TypeOK, AttemptsAreLinear, BoundIsLessee, CancelDecides,
                      CancelledOnRequestOnly
<1>3. CASE MayFinish(a)
  <2>1. /\ status[o] = "running" /\ lessee[o] = w /\ row[a] = "running"
        /\ a[2] = attempts[o]
    BY <1>1, <1>3 DEF MayFinish, AttemptsAreLinear
  <2>2. /\ f \in Terminal \cup {"queued"}
        /\ f = "cancelled" <=> cancel[o]
        /\ f = "queued" => ~cancel[o]
    BY <1>1, <2>1 DEF Final, Outcomes, Terminal
  <2>3. /\ status' = [status EXCEPT ![o] = f]
        /\ row' = [row EXCEPT ![a] = IF f = "queued" THEN "failed" ELSE f]
        /\ lease' = [lease EXCEPT ![o] = "none"]
        /\ lessee' = [lessee EXCEPT ![o] = None]
        /\ due' = [due EXCEPT ![o] = @ /\ f # "queued"]
        /\ current' = [current EXCEPT ![w] = IF @ = o THEN None ELSE @]
        /\ UNCHANGED <<attempts, cancel>>
    BY <1>1, <1>3 DEF Finish
  <2> HIDE DEF f
  <2>4. /\ status' \in [Operations -> Statuses]
        /\ lessee' \in [Operations -> WorkerIds \cup {None}]
        /\ lease' \in [Operations -> {"none", "live", "expired"}]
        /\ row' \in [Attempts -> {"none", "running", "interrupted"} \cup Terminal]
        /\ current' \in [WorkerIds -> Operations \cup {None}]
    BY <1>1, <2>2, <2>3 DEF TypeOK, Statuses, Terminal
  <2>5. due' \in [Operations -> BOOLEAN]
    BY <2>3 DEF TypeOK
  <2>6. \A b \in Attempts :
          /\ row'[b] = "none" <=> row[b] = "none"
          /\ row'[b] = "running" <=> row[b] = "running" /\ b # a
    BY <1>1, <2>1, <2>2, <2>3 DEF TypeOK, Terminal
  <2>7. \A b \in Attempts : row[b] = "running" /\ b[1] = o => b = a
    BY <1>1, <2>1, AttemptPairs DEF AttemptsAreLinear
  <2>8. \A b \in Attempts :
          /\ row'[b] = "none" <=> row[b] = "none"
          /\ row'[b] = "running" =>
               row[b] = "running" /\ lessee'[b[1]] = lessee[b[1]]
    BY <1>1, <2>3, <2>6, <2>7, AttemptPairs DEF TypeOK
  <2>9. \A q \in Operations :
          status'[q] = "running" => status[q] = "running" /\ lessee'[q] = lessee[q]
    BY <1>1, <2>2, <2>3 DEF TypeOK, Terminal
  <2>10. AttemptsAreLinear'
    BY <1>1, <2>2, <2>3, <2>6, <2>7, AttemptPairs DEF AttemptsAreLinear, TypeOK, Terminal
  <2>11. BoundIsLessee'
    BY <1>1, <2>1, <2>3 DEF BoundIsLessee, TypeOK
  <2>12. CancelDecides' /\ CancelledOnRequestOnly'
    BY <1>1, <2>2, <2>3 DEF CancelDecides, CancelledOnRequestOnly, TypeOK, Terminal
  <2> QED BY <2>3, <2>4, <2>5, <2>8, <2>9, <2>10, <2>11, <2>12
<1> QED BY <1>2, <1>3

(* finish_attempt with the result of the handler keeps it.                 *)
LEMMA FinishReturnedStep ==
  ASSUME IInv, NEW p \in Processes, FinishReturned(p)
  PROVE  IInv'
<1> DEFINE a == held[p]
<1> USE DEF IInv
<1>1. /\ main[p] = "watching" /\ thread[a] = "returned" /\ Finish(a, outcome[a])
      /\ main' = [main EXCEPT ![p] = "idle"] /\ held' = [held EXCEPT ![p] = None]
      /\ Gone({a}) /\ crashes' = crashes
  BY DEF FinishReturned
<1>2. /\ held[p] # None /\ a \in Attempts /\ runner[a] = p
      /\ outcome[a] \in Outcomes /\ row[a] # "none"
      /\ outcome[a] = "cancelled" /\ row[a] = "running" => cancel[a[1]]
  BY <1>1 DEF Control, TypeOK, StoppedOnRequest
<1>3. /\ status' \in [Operations -> Statuses]
      /\ attempts' = attempts /\ cancel' = cancel
      /\ lessee' \in [Operations -> WorkerIds \cup {None}]
      /\ lease' \in [Operations -> {"none", "live", "expired"}]
      /\ due' \in [Operations -> BOOLEAN]
      /\ row' \in [Attempts -> {"none", "running", "interrupted"} \cup Terminal]
      /\ current' \in [WorkerIds -> Operations \cup {None}]
      /\ \A b \in Attempts :
           /\ row'[b] = "none" <=> row[b] = "none"
           /\ row'[b] = "running" =>
                row[b] = "running" /\ lessee'[b[1]] = lessee[b[1]]
      /\ \A o \in Operations :
           status'[o] = "running" => status[o] = "running" /\ lessee'[o] = lessee[o]
      /\ AttemptsAreLinear' /\ BoundIsLessee'
      /\ CancelDecides' /\ CancelledOnRequestOnly'
  BY <1>1, <1>2, FinishFacts
<1>4. TypeOK' BY <1>1, <1>2, <1>3 DEF TypeOK, Gone
<1>5. Control'
  BY <1>1, <1>2, <1>3, AttemptPairs DEF Control, Gone, TypeOK
<1>6. Leased' BY <1>1, <1>3 DEF Leased, Gone
<1>7. StoppedOnRequest' BY <1>1, <1>2, <1>3 DEF StoppedOnRequest, Gone, TypeOK
<1> QED BY <1>3, <1>4, <1>5, <1>6, <1>7

(* finish_attempt after an error keeps it.                                 *)
LEMMA FinishErroredStep ==
  ASSUME IInv, NEW p \in Processes, FinishErrored(p)
  PROVE  IInv'
<1> DEFINE a == held[p]
<1> USE DEF IInv, handlerThread
<1>1. /\ main[p] = "failing" /\ Finish(a, "failed")
      /\ main' = [main EXCEPT ![p] = "idle"] /\ held' = [held EXCEPT ![p] = None]
      /\ UNCHANGED <<handlerThread, crashes>>
  BY DEF FinishErrored
<1>2. held[p] # None BY <1>1 DEF Control
<1>3. "failed" \in Outcomes BY DEF Outcomes, Terminal
<1>4. /\ status' \in [Operations -> Statuses]
      /\ attempts' = attempts /\ cancel' = cancel
      /\ lessee' \in [Operations -> WorkerIds \cup {None}]
      /\ lease' \in [Operations -> {"none", "live", "expired"}]
      /\ due' \in [Operations -> BOOLEAN]
      /\ row' \in [Attempts -> {"none", "running", "interrupted"} \cup Terminal]
      /\ current' \in [WorkerIds -> Operations \cup {None}]
      /\ \A b \in Attempts :
           /\ row'[b] = "none" <=> row[b] = "none"
           /\ row'[b] = "running" =>
                row[b] = "running" /\ lessee'[b[1]] = lessee[b[1]]
      /\ \A o \in Operations :
           status'[o] = "running" => status[o] = "running" /\ lessee'[o] = lessee[o]
      /\ AttemptsAreLinear' /\ BoundIsLessee'
      /\ CancelDecides' /\ CancelledOnRequestOnly'
  BY <1>1, <1>2, <1>3, FinishFacts
<1>5. TypeOK' BY <1>1, <1>2, <1>4 DEF TypeOK
<1>6. Control' BY <1>1, <1>4 DEF Control, TypeOK
<1>7. Leased' BY <1>1, <1>4 DEF Leased
<1>8. StoppedOnRequest' BY <1>1, <1>4 DEF StoppedOnRequest
<1> QED BY <1>4, <1>5, <1>6, <1>7, <1>8

(* Every step of the queue keeps the inductive invariant.                  *)
LEMMA NextIInv == IInv /\ [Next]_vars => IInv'
<1> SUFFICES ASSUME IInv, [Next]_vars PROVE IInv'
  OBVIOUS
<1>1. CASE UNCHANGED vars
  BY <1>1 DEF vars, operationRow, mainThread, handlerThread, IInv, TypeOK, Control,
     AttemptsAreLinear, Leased, BoundIsLessee, StoppedOnRequest, CancelDecides,
     CancelledOnRequestOnly
<1>2. ASSUME NEW o \in Operations,
             \/ \E now \in BOOLEAN : Enqueue(o, now)
             \/ Mature(o) \/ Lapse(o) \/ RequestCancel(o)
      PROVE  IInv'
  BY <1>2, EnqueueStep, ClockStep, CancelStep
<1>3. ASSUME NEW p \in Processes, MainStep(p) \/ Start(p) \/ Crash(p)
      PROVE  IInv'
  BY <1>3, LeaseStep, IdleStep, MonitorRenewStep, MonitorReadStep, MonitorErrorStep,
     FinishReturnedStep, FinishErroredStep, StartStep, CrashStep DEF MainStep
<1>4. ASSUME NEW a \in Attempts, HandlerStep(a)
      PROVE  IInv'
  BY <1>4, CheckpointRenewStep, CheckpointReadStep, HandlerReturnStep DEF HandlerStep
<1> QED BY <1>1, <1>2, <1>3, <1>4 DEF Next

(* The inductive invariant holds in every reachable state.                 *)
THEOREM Invariance == Spec => []IInv
BY InitIInv, NextIInv, PTL DEF Spec

(* Type correctness of the queue.                                          *)
THEOREM TypeCorrect == Spec => []TypeOK
<1>1. IInv => TypeOK BY DEF IInv
<1> QED BY <1>1, Invariance, PTL

(* The attempt rows of every operation are a linear history of it.         *)
THEOREM LinearAttempts == Spec => []AttemptsAreLinear
<1>1. IInv => AttemptsAreLinear BY DEF IInv
<1> QED BY <1>1, Invariance, PTL

(* An accepted cancellation decides the verdict, and nothing else cancels. *)
THEOREM CancellationExact == Spec => []CancellationIsExact
<1>1. IInv => CancellationIsExact BY DEF IInv, CancellationIsExact
<1> QED BY <1>1, Invariance, PTL

(* Worker rows bound to a RUNNING operation are those of lessees.          *)
THEOREM BoundWorkers == Spec => []BoundWorkerIsLessee
<1>1. IInv => BoundWorkerIsLessee
  BY DEF IInv, TypeOK, BoundIsLessee, BoundWorkerIsLessee
<1> QED BY <1>1, Invariance, PTL

(* Operations, attempts and workers agree, in every reachable state.       *)
THEOREM SoundHistory == Spec => []HistoryIsSound
BY TypeCorrect, LinearAttempts, BoundWorkers, PTL DEF HistoryIsSound

---------------------------------------------------------------------------
(* Every step of the queue is a step of the contract, or none of its       *)
(* business.                                                               *)

(* finish_attempt is a step of the contract, or changes nothing in it.     *)
LEMMA FinishKeepsContract ==
  ASSUME IInv, NEW p \in Processes, held[p] # None, NEW r \in Outcomes,
         r = "cancelled" /\ row[held[p]] = "running" => cancel[held[p][1]],
         Finish(held[p], r)
  PROVE  [Contract!ContractNext]_<<status, attempts, cancel>>
<1> DEFINE a == held[p]
           o == a[1]
           f == Final(o, r)
<1> USE DEF IInv
<1>1. a \in Attempts /\ o \in Operations BY AttemptPairs DEF TypeOK
<1>2. CASE ~MayFinish(a)
  BY <1>2 DEF Finish, operationRow
<1>3. CASE MayFinish(a)
  <2>1. status[o] = "running" /\ row[a] = "running" BY <1>3 DEF MayFinish
  <2>2. status' = [status EXCEPT ![o] = f] /\ UNCHANGED <<attempts, cancel>>
    BY <1>3 DEF Finish
  <2>3. CASE f = "queued"
    <3>1. ~cancel[o] /\ attempts[o] < MaxAttempts
      BY <1>1, <2>3 DEF Final, Outcomes, Terminal
    <3> QED BY <1>1, <2>1, <2>2, <2>3, <3>1
            DEF Contract!ContractNext, Contract!GiveBack
  <2>4. CASE f # "queued"
    <3>1. /\ f \in {"succeeded", "partial", "failed", "cancelled"}
          /\ f = "cancelled" <=> cancel[o]
      BY <1>1, <2>1, <2>4 DEF Final, Outcomes, Terminal
    <3>2. Contract!Decide(o, f)
      BY <2>1, <2>2, <3>1 DEF Contract!Decide
    <3> QED BY <1>1, <3>1, <3>2 DEF Contract!ContractNext
  <2> QED BY <2>3, <2>4
<1> QED BY <1>2, <1>3

(* Every step of the queue is a step of the contract or stutters in it.    *)
LEMMA NextKeepsContract ==
  ASSUME IInv, [Next]_vars
  PROVE  [Contract!ContractNext]_<<status, attempts, cancel>>
<1> USE DEF IInv
<1>1. CASE UNCHANGED vars BY <1>1 DEF vars, operationRow
<1>2. ASSUME NEW o \in Operations, NEW now \in BOOLEAN, Enqueue(o, now)
      PROVE  Contract!ContractNext
  BY <1>2 DEF Enqueue, Contract!ContractNext, Contract!Submit
<1>3. ASSUME NEW o \in Operations, RequestCancel(o)
      PROVE  Contract!ContractNext
  BY <1>3 DEF RequestCancel, Contract!ContractNext, Contract!AskCancel
<1>4. ASSUME NEW p \in Processes, NEW o \in Operations, LeaseNext(p, o)
      PROVE  Contract!ContractNext
  BY <1>4 DEF LeaseNext, Ready, Contract!ContractNext, Contract!Begin
<1>5. ASSUME NEW p \in Processes, FinishReturned(p)
      PROVE  [Contract!ContractNext]_<<status, attempts, cancel>>
  <2>1. /\ held[p] # None /\ outcome[held[p]] \in Outcomes
        /\ outcome[held[p]] = "cancelled" /\ row[held[p]] = "running" =>
             cancel[held[p][1]]
        /\ Finish(held[p], outcome[held[p]])
    BY <1>5 DEF FinishReturned, Control, TypeOK, StoppedOnRequest
  <2> QED BY <2>1, FinishKeepsContract
<1>6. ASSUME NEW p \in Processes, FinishErrored(p)
      PROVE  [Contract!ContractNext]_<<status, attempts, cancel>>
  <2>1. held[p] # None /\ Finish(held[p], "failed") /\ "failed" \in Outcomes
    BY <1>6 DEF FinishErrored, Control, Outcomes, Terminal
  <2> QED BY <2>1, FinishKeepsContract
<1>7. ASSUME NEW o \in Operations, Mature(o) \/ Lapse(o)
      PROVE  UNCHANGED <<status, attempts, cancel>>
  BY <1>7 DEF Mature, Lapse
<1>8. ASSUME NEW p \in Processes,
             \/ IdleHeartbeat(p) \/ MonitorRenew(p) \/ MonitorRead(p)
             \/ MonitorError(p) \/ Start(p) \/ Crash(p)
      PROVE  UNCHANGED <<status, attempts, cancel>>
  BY <1>8 DEF IdleHeartbeat, MonitorRenew, MonitorRead, MonitorError, Start, Crash,
     operationRow
<1>9. ASSUME NEW a \in Attempts, HandlerStep(a)
      PROVE  UNCHANGED <<status, attempts, cancel>>
  BY <1>9 DEF HandlerStep, CheckpointRenew, CheckpointRead, HandlerReturn, operationRow
<1> QED BY <1>1, <1>2, <1>3, <1>4, <1>5, <1>6, <1>7, <1>8, <1>9 DEF Next, MainStep

(* The queue with its leases, threads and crashes implements the contract  *)
(* the enqueuing components rely on.                                       *)
THEOREM QueueImplementsContract == Spec => ImplementsContract
<1>1. Init => Contract!ContractInit BY DEF Init, Contract!ContractInit
<1>2. IInv /\ [Next]_vars => [Contract!ContractNext]_(Contract!contractVars)
  BY NextKeepsContract DEF Contract!contractVars
<1> QED BY <1>1, <1>2, Invariance, PTL
        DEF Spec, ImplementsContract, Contract!ContractSpec

---------------------------------------------------------------------------
(* The result of a reclaimed attempt is dropped.                           *)
THEOREM NewestDecides == Spec => OnlyNewestDecides
<1> DEFINE A == \A o \in Operations :
                  status[o] = "running" /\ status'[o] # "running" =>
                    \E p \in Processes : held[p] = Newest(o) /\ held'[p] = None
<1>1. ASSUME IInv, [Next]_vars PROVE A
  <2> SUFFICES ASSUME NEW o \in Operations, status[o] = "running", status'[o] # "running"
               PROVE  \E p \in Processes : held[p] = Newest(o) /\ held'[p] = None
    OBVIOUS
  <2> USE <1>1 DEF IInv
  <2>1. ASSUME NEW p \in Processes, NEW r, held[p] # None, Finish(held[p], r),
               held'[p] = None
        PROVE  \E q \in Processes : held[q] = Newest(o) /\ held'[q] = None
    <3>1. held[p] \in Attempts BY <2>1 DEF TypeOK
    <3>2. held[p][1] = o /\ row[held[p]] = "running"
      BY <2>1, <3>1 DEF Finish, MayFinish, operationRow, TypeOK
    <3>3. held[p] = Newest(o)
      BY <3>1, <3>2, AttemptPairs DEF AttemptsAreLinear, Newest
    <3> QED BY <2>1, <3>3
  <2>2. CASE \E p \in Processes : FinishReturned(p) \/ FinishErrored(p)
    <3>1. PICK p \in Processes : FinishReturned(p) \/ FinishErrored(p) BY <2>2
    <3>2. held[p] # None /\ held'[p] = None
      BY <3>1 DEF FinishReturned, FinishErrored, Control, TypeOK
    <3> QED BY <2>1, <3>1, <3>2 DEF FinishReturned, FinishErrored
  <2>3. ASSUME ~\E p \in Processes : FinishReturned(p) \/ FinishErrored(p)
        PROVE  FALSE
    <3>1. ASSUME NEW q \in Operations, NEW now \in BOOLEAN,
                 Enqueue(q, now) \/ Mature(q) \/ Lapse(q) \/ RequestCancel(q)
          PROVE  FALSE
      BY <3>1 DEF Enqueue, Mature, Lapse, RequestCancel, TypeOK
    <3>2. ASSUME NEW p \in Processes, NEW q \in Operations, LeaseNext(p, q)
          PROVE  FALSE
      BY <3>2 DEF LeaseNext, TypeOK
    <3>3. ASSUME NEW p \in Processes,
                 \/ IdleHeartbeat(p) \/ MonitorRenew(p) \/ MonitorRead(p)
                 \/ MonitorError(p) \/ Start(p) \/ Crash(p)
          PROVE  FALSE
      BY <3>3 DEF IdleHeartbeat, MonitorRenew, MonitorRead, MonitorError, Start, Crash,
         operationRow
    <3>4. ASSUME NEW a \in Attempts, HandlerStep(a) PROVE FALSE
      BY <3>4 DEF HandlerStep, CheckpointRenew, CheckpointRead, HandlerReturn,
         operationRow
    <3> QED BY <2>3, <3>1, <3>2, <3>3, <3>4 DEF Next, MainStep, vars, operationRow
  <2> QED BY <2>2, <2>3
<1>2. A => [A]_vars OBVIOUS
<1> QED BY <1>1, Invariance, PTL DEF Spec, OnlyNewestDecides

---------------------------------------------------------------------------
(* Closed attempts and decided operations are never rewritten.             *)
THEOREM HistoryKept == Spec => HistoryIsKept
<1> DEFINE A == /\ \A a \in Attempts : row[a] \notin {"none", "running"} => row'[a] = row[a]
                /\ \A o \in Operations :
                     status[o] \in Terminal =>
                       /\ status'[o] = status[o]
                       /\ attempts'[o] = attempts[o]
                       /\ cancel'[o] = cancel[o]
<1>1. ASSUME IInv, [Next]_vars PROVE A
  <2> USE <1>1 DEF IInv
  <2>1. CASE UNCHANGED vars BY <2>1 DEF vars, operationRow
  <2>2. ASSUME NEW o \in Operations, NEW now \in BOOLEAN,
               Enqueue(o, now) \/ Mature(o) \/ Lapse(o) \/ RequestCancel(o)
        PROVE  A
    BY <2>2 DEF Enqueue, Mature, Lapse, RequestCancel, TypeOK, Terminal
  <2>3. ASSUME NEW p \in Processes, NEW o \in Operations, LeaseNext(p, o) PROVE A
    <3> DEFINE a == <<o, attempts[o] + 1>>
    <3>1. /\ a \in Attempts /\ row[a] = "none" /\ status[o] \in {"queued", "running"}
          /\ attempts[o] \in Nat
      BY <2>3, LeaseFacts DEF LeaseNext, Ready
    <3>2. status[o] = "running" => Newest(o) \in Attempts /\ row[Newest(o)] = "running"
      BY AttemptPairs DEF Newest, AttemptsAreLinear, Leased, TypeOK
    <3>3. \A b \in Attempts : row[b] \notin {"none", "running"} => row'[b] = row[b]
      BY <2>3, <3>1, <3>2 DEF LeaseNext, InterruptedRow, TypeOK
    <3>4. /\ status' = [status EXCEPT ![o] = "running"]
          /\ attempts' = [attempts EXCEPT ![o] = @ + 1] /\ cancel' = cancel
      BY <2>3 DEF LeaseNext
    <3> QED BY <3>1, <3>3, <3>4 DEF TypeOK, Terminal
  <2>4. ASSUME NEW p \in Processes, NEW r, held[p] # None, Finish(held[p], r) PROVE A
    <3>1. held[p] \in Attempts /\ held[p][1] \in Operations
      BY <2>4, AttemptPairs DEF TypeOK
    <3> QED BY <2>4, <3>1 DEF Finish, MayFinish, operationRow, TypeOK, Terminal
  <2>5. ASSUME NEW p \in Processes, FinishReturned(p) \/ FinishErrored(p) PROVE A
    <3>1. held[p] # None BY <2>5 DEF FinishReturned, FinishErrored, Control
    <3> QED BY <2>4, <2>5, <3>1 DEF FinishReturned, FinishErrored
  <2>6. ASSUME NEW p \in Processes,
               \/ IdleHeartbeat(p) \/ MonitorRenew(p) \/ MonitorRead(p)
               \/ MonitorError(p) \/ Start(p) \/ Crash(p)
        PROVE  A
    BY <2>6 DEF IdleHeartbeat, MonitorRenew, MonitorRead, MonitorError, Start, Crash,
       operationRow
  <2>7. ASSUME NEW a \in Attempts, HandlerStep(a) PROVE A
    BY <2>7 DEF HandlerStep, CheckpointRenew, CheckpointRead, HandlerReturn, operationRow
  <2> QED BY <2>1, <2>2, <2>3, <2>5, <2>6, <2>7 DEF Next, MainStep
<1>2. A => [A]_vars OBVIOUS
<1> QED BY <1>1, Invariance, PTL DEF Spec, HistoryIsKept

(* History is closed to late actors, and the newest attempt closes it.     *)
THEOREM FencedHistory == Spec => HistoryIsFenced
BY HistoryKept, NewestDecides DEF HistoryIsFenced

---------------------------------------------------------------------------
(* A process with an identifier of its own that is the lessee of the       *)
(* operation it works for works on its newest attempt.                     *)
Fenced ==
  \A a \in Attempts, p \in Processes :
    /\ HasOwnIdentifier(p) /\ held[p] = a
    /\ status[a[1]] = "running" /\ lessee[a[1]] = IdOf[p]
    => a[2] = attempts[a[1]]

(* Every step keeps the invariant of the checkpoints.                      *)
LEMMA NextFenced ==
  ASSUME IInv, Fenced, [Next]_vars
  PROVE  Fenced'
<1> USE DEF IInv
<1>1. CASE UNCHANGED vars
  BY <1>1 DEF vars, operationRow, mainThread, Fenced
<1>2. ASSUME NEW o \in Operations, NEW now \in BOOLEAN,
             Enqueue(o, now) \/ Mature(o) \/ Lapse(o) \/ RequestCancel(o)
      PROVE  Fenced'
  <2>1. UNCHANGED <<attempts, lessee, held>>
    BY <1>2 DEF Enqueue, Mature, Lapse, RequestCancel, mainThread
  <2>2. \A q \in Operations : status'[q] = "running" => status[q] = "running"
    BY <1>2 DEF Enqueue, Mature, Lapse, RequestCancel, TypeOK
  <2> QED BY <2>1, <2>2, AttemptPairs DEF Fenced
<1>3. ASSUME NEW p \in Processes, NEW o \in Operations, LeaseNext(p, o)
      PROVE  Fenced'
  <2> DEFINE a == <<o, attempts[o] + 1>>
  <2>1. a \in Attempts /\ held[p] = None /\ attempts[o] \in Nat
    BY <1>3, LeaseFacts
  <2>2. /\ status' = [status EXCEPT ![o] = "running"]
        /\ lessee' = [lessee EXCEPT ![o] = IdOf[p]]
        /\ attempts' = [attempts EXCEPT ![o] = @ + 1]
        /\ held' = [held EXCEPT ![p] = a]
    BY <1>3 DEF LeaseNext
  <2>3. ASSUME NEW b \in Attempts, NEW q \in Processes, HasOwnIdentifier(q),
               held'[q] = b, status'[b[1]] = "running", lessee'[b[1]] = IdOf[q]
        PROVE  b[2] = attempts'[b[1]]
    <3>1. b[1] \in Operations BY AttemptPairs
    <3>2. CASE q = p BY <2>1, <2>2, <2>3, <3>1, <3>2, AttemptPairs DEF TypeOK
    <3>3. CASE q # p
      <4>1. held[q] = b BY <2>2, <2>3, <3>3 DEF TypeOK
      <4>2. b[1] # o
        BY <2>2, <2>3, <3>1, <3>3 DEF TypeOK, HasOwnIdentifier
      <4> QED BY <2>2, <2>3, <3>1, <4>1, <4>2 DEF Fenced, TypeOK
    <3> QED BY <3>2, <3>3
  <2> QED BY <2>3 DEF Fenced
<1>4. ASSUME NEW p \in Processes,
             \/ IdleHeartbeat(p) \/ MonitorRenew(p) \/ MonitorRead(p) \/ MonitorError(p) \/ Start(p)
      PROVE  Fenced'
  BY <1>4 DEF IdleHeartbeat, MonitorRenew, MonitorRead, MonitorError, Start, operationRow, mainThread,
     Fenced
<1>5. ASSUME NEW p \in Processes, FinishReturned(p) \/ FinishErrored(p) PROVE Fenced'
  <2> DEFINE a == held[p]
  <2>1. PICK r \in Outcomes : /\ a \in Attempts /\ a # None /\ Finish(a, r)
                              /\ r = "cancelled" /\ row[a] = "running" => cancel[a[1]]
    BY <1>5 DEF FinishReturned, FinishErrored, Control, TypeOK, StoppedOnRequest, Outcomes, Terminal
  <2>2. /\ attempts' = attempts
        /\ \A o \in Operations :
             status'[o] = "running" => status[o] = "running" /\ lessee'[o] = lessee[o]
    BY <2>1, FinishFacts
  <2>3. held' = [held EXCEPT ![p] = None]
    BY <1>5 DEF FinishReturned, FinishErrored
  <2>4. ASSUME NEW b \in Attempts, NEW q \in Processes, HasOwnIdentifier(q),
               held'[q] = b, status'[b[1]] = "running", lessee'[b[1]] = IdOf[q]
        PROVE  b[2] = attempts'[b[1]]
    <3>1. b[1] \in Operations /\ b # None BY AttemptPairs
    <3>2. held[q] = b BY <2>3, <2>4, <3>1 DEF TypeOK
    <3> QED BY <2>2, <2>4, <3>1, <3>2 DEF Fenced
  <2> QED BY <2>4 DEF Fenced
<1>6. ASSUME NEW p \in Processes, Crash(p) PROVE Fenced'
  <2>1. held' = [held EXCEPT ![p] = None] /\ UNCHANGED <<status, attempts, lessee>>
    BY <1>6 DEF Crash, operationRow
  <2>2. ASSUME NEW b \in Attempts, NEW q \in Processes, HasOwnIdentifier(q),
               held'[q] = b, status'[b[1]] = "running", lessee'[b[1]] = IdOf[q]
        PROVE  b[2] = attempts'[b[1]]
    <3>1. b # None /\ held[q] = b BY <2>1, <2>2, AttemptPairs DEF TypeOK
    <3> QED BY <2>1, <2>2, <3>1 DEF Fenced
  <2> QED BY <2>2 DEF Fenced
<1>7. ASSUME NEW a \in Attempts, HandlerStep(a) PROVE Fenced'
  <2>1. UNCHANGED <<status, attempts, lessee, held>>
    BY <1>7 DEF HandlerStep, CheckpointRenew, CheckpointRead, HandlerReturn, operationRow, mainThread
  <2> QED BY <2>1 DEF Fenced
<1> QED BY <1>1, <1>2, <1>3, <1>4, <1>5, <1>6, <1>7 DEF Next, MainStep

(* A handler that its worker waits for, under an identifier of its own,    *)
(* passes a checkpoint only while its attempt is the newest and open, also *)
(* where other handlers were left behind and other identifiers are shared. *)
THEOREM CheckpointsFenced == Spec => CheckpointsAreFenced
<1> DEFINE A == \A a \in Attempts :
                  /\ thread[a] = "running" /\ thread'[a] = "renewed"
                  /\ Awaited(a) /\ HasOwnIdentifier(runner[a])
                  => a = Newest(a[1]) /\ row[a] = "running"
<1>1. Init => Fenced
  BY AttemptPairs DEF Init, Fenced
<1>2. IInv /\ Fenced /\ [Next]_vars => Fenced'
  BY NextFenced
<1>3. ASSUME IInv, Fenced, [Next]_vars PROVE A
  <2> SUFFICES ASSUME NEW a \in Attempts, thread[a] = "running", thread'[a] = "renewed",
                      Awaited(a), HasOwnIdentifier(runner[a])
               PROVE  a = Newest(a[1]) /\ row[a] = "running"
    OBVIOUS
  <2> USE <1>3 DEF IInv
  <2>1. Renew(a)
    <3>1. ASSUME NEW o \in Operations, NEW now \in BOOLEAN,
                 Enqueue(o, now) \/ Mature(o) \/ Lapse(o) \/ RequestCancel(o)
          PROVE  FALSE
      BY <3>1 DEF Enqueue, Mature, Lapse, RequestCancel, handlerThread
    <3>2. ASSUME NEW p \in Processes, NEW o \in Operations, LeaseNext(p, o)
          PROVE  FALSE
      BY <3>2 DEF LeaseNext, TypeOK
    <3>3. ASSUME NEW p \in Processes,
                 \/ IdleHeartbeat(p) \/ MonitorRenew(p) \/ MonitorRead(p)
                 \/ MonitorError(p) \/ Start(p) \/ FinishErrored(p)
          PROVE  FALSE
      BY <3>3 DEF IdleHeartbeat, MonitorRenew, MonitorRead, MonitorError, Start,
         FinishErrored, handlerThread
    <3>4. ASSUME NEW p \in Processes, Crash(p) \/ FinishReturned(p) PROVE FALSE
      BY <3>4 DEF Crash, FinishReturned, Gone, TypeOK
    <3>5. PICK b \in Attempts : HandlerStep(b)
      BY <3>1, <3>2, <3>3, <3>4
      DEF Next, MainStep, vars, handlerThread
    <3>6. ~CheckpointRead(b) /\ ~\E r \in HandlerOutcomes : HandlerReturn(b, r)
      BY DEF CheckpointRead, HandlerReturn, Ends, Goes, Gone, TypeOK
    <3>7. CheckpointRenew(b) BY <3>5, <3>6 DEF HandlerStep
    <3>8. ASSUME NEW r, Ends(b, r) PROVE FALSE
      BY <3>8 DEF Ends, Gone, TypeOK
    <3> QED BY <3>7, <3>8 DEF CheckpointRenew, Goes, TypeOK
  <2>2. held[runner[a]] = a /\ runner[a] \in Processes
    BY DEF Awaited, Control, TypeOK
  <2>3. a[2] = attempts[a[1]] /\ status[a[1]] = "running"
    BY <2>1, <2>2 DEF Renew, Renewable, Fenced
  <2> QED BY <2>3, AttemptPairs DEF AttemptsAreLinear, Newest
<1>4. A => [A]_vars OBVIOUS
<1> QED BY <1>1, <1>2, <1>3, Invariance, PTL DEF Spec, CheckpointsAreFenced
=============================================================================
