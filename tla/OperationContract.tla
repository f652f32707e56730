------------------------- MODULE OperationContract -------------------------
(***************************************************************************)
(* What the durable queue promises the rest of the program about an        *)
(* operation, without leases, workers or threads: at-least-once execution  *)
(* within a budget of starts, one verdict that is never revised, and a     *)
(* cancellation that, once accepted, decides the verdict.  OperationQueue  *)
(* implements it; the components that enqueue operations rely on it.       *)
(***************************************************************************)
EXTENDS Naturals

CONSTANTS Operations, MaxAttempts

VARIABLES status, attempts, cancel

contractVars == <<status, attempts, cancel>>

ContractInit ==
  /\ status = [o \in Operations |-> "absent"]
  /\ attempts = [o \in Operations |-> 0]
  /\ cancel = [o \in Operations |-> FALSE]

Submit(o) ==
  /\ status[o] = "absent"
  /\ status' = [status EXCEPT ![o] = "queued"]
  /\ UNCHANGED <<attempts, cancel>>

(* A start, or a restart of an operation whose worker is given up.         *)
Begin(o) ==
  /\ status[o] \in {"queued", "running"}
  /\ attempts[o] < MaxAttempts
  /\ status' = [status EXCEPT ![o] = "running"]
  /\ attempts' = [attempts EXCEPT ![o] = @ + 1]
  /\ UNCHANGED cancel

(* The attempt failed and there is budget for another one.                 *)
GiveBack(o) ==
  /\ status[o] = "running" /\ ~cancel[o]
  /\ attempts[o] < MaxAttempts
  /\ status' = [status EXCEPT ![o] = "queued"]
  /\ UNCHANGED <<attempts, cancel>>

Decide(o, verdict) ==
  /\ status[o] = "running"
  /\ verdict = "cancelled" <=> cancel[o]
  /\ status' = [status EXCEPT ![o] = verdict]
  /\ UNCHANGED <<attempts, cancel>>

(* A queued operation is withdrawn at once, a running one is asked to stop.*)
AskCancel(o) ==
  /\ status[o] \in {"queued", "running"}
  /\ status' = [status EXCEPT ![o] = IF @ = "queued" THEN "cancelled" ELSE @]
  /\ cancel' = [cancel EXCEPT ![o] = TRUE]
  /\ UNCHANGED attempts

ContractNext ==
  \E o \in Operations :
    \/ Submit(o) \/ Begin(o) \/ GiveBack(o) \/ AskCancel(o)
    \/ \E v \in {"succeeded", "partial", "failed", "cancelled"} : Decide(o, v)

ContractSpec == ContractInit /\ [][ContractNext]_contractVars
=============================================================================
