---------------------------- MODULE WaveMembers ----------------------------
(***************************************************************************)
(* One high-value news wave: its frozen member manifest                    *)
(* (high_value_wave_members, WaveRepository) and the handlers that work    *)
(* through it (HighValueWaveHandler), one per attempt of its operation.    *)
(*                                                                         *)
(* The operation itself is the one OperationContract describes; a reclaim  *)
(* or a monitor error leaves the handler of the former attempt running, so *)
(* several handlers may work on the manifest at once.  A handler is an     *)
(* asyncio loop: members are interleaved only where it awaits a fetch.     *)
(***************************************************************************)
EXTENDS Naturals, FiniteSets

CONSTANTS
  Wave,           \* the operation
  Members,        \* source ids of the frozen plan
  Fetchable,      \* the members whose snapshot says fetchable
  MaxAttempts,    \* MAX_ATTEMPTS
  Limit,          \* global_concurrency
  None            \* SQL NULL

ASSUME WaveAssumption ==
  /\ IsFiniteSet(Members) /\ Fetchable \subseteq Members
  /\ MaxAttempts \in Nat \ {0} /\ Limit \in Nat \ {0}
  /\ None \notin Nat

VARIABLES
  status, attempts, cancel,     \* operation_runs
  progress,                     \* operation_runs.progress_current
  state, claim,                 \* high_value_wave_members
  lock,                         \* advisory lock of a source: the fetching attempt
  run, outcome,                 \* handler of an attempt, and what it returns
  at, got,                      \* its member tasks, and the results they hold
  selection                     \* members its event stage selects items of

operation == <<status, attempts, cancel>>
manifest == <<progress, state, claim>>
handler == <<run, outcome, at, got, selection>>
vars == <<operation, manifest, lock, handler>>

Queue == INSTANCE OperationContract WITH Operations <- {Wave}

Attempts == 1..MaxAttempts

(* Verdicts of a member; "rejected" stands for failed, blocked, timeout    *)
(* and stale_result, which nothing in the wave tells apart.                *)
Verdicts == {"succeeded", "partial", "rejected"}
Unfinished == {"pending", "running"}

(* Task of a member: waiting for the semaphore, claimed, submitted to a    *)
(* thread, fetching, waiting for the loop again, about to be finished.     *)
Tasks == {"out", "waiting", "claimed", "submitted", "fetching", "fetched", "checked"}
InFlight(a) == {m \in Members : at[a][m] \notin {"out", "waiting"}}
InThread(a) == {m \in Members : at[a][m] \in {"submitted", "fetching"}}

(* The semaphores bound what one handler fetches at a time.                *)
TypeOK ==
  /\ progress \in 0..Cardinality(Members)
  /\ state \in [Members -> Unfinished \cup Verdicts]
  /\ claim \in [Members -> Attempts \cup {None}]
  /\ lock \in [Members -> Attempts \cup {None}]
  /\ run \in [Attempts -> {"none", "listing", "gathering", "judged", "events",
                           "stopping", "returned", "over"}]
  /\ outcome \in [Attempts -> {"none", "succeeded", "partial", "incomplete",
                               "failed", "error", "cancelled"}]
  /\ at \in [Attempts -> [Members -> Tasks]]
  /\ got \in [Attempts -> [Members -> Verdicts \cup {"none"}]]
  /\ selection \in [Attempts -> SUBSET Members]
  /\ \A a \in Attempts : Cardinality(InFlight(a)) <= Limit

Init ==
  /\ Queue!ContractInit
  /\ progress = 0
  /\ state = [m \in Members |-> "pending"]
  /\ claim = [m \in Members |-> None]
  /\ lock = [m \in Members |-> None]
  /\ run = [a \in Attempts |-> "none"]
  /\ outcome = [a \in Attempts |-> "none"]
  /\ at = [a \in Attempts |-> [m \in Members |-> "out"]]
  /\ got = [a \in Attempts |-> [m \in Members |-> "none"]]
  /\ selection = [a \in Attempts |-> {}]

---------------------------------------------------------------------------
(* The operation, as the queue runs it.                                    *)

(* enqueue_high_value_wave: the operation and its pending members, at once.*)
Enqueue == Queue!Submit(Wave) /\ UNCHANGED <<manifest, lock, handler>>

RequestCancel == Queue!AskCancel(Wave) /\ UNCHANGED <<manifest, lock, handler>>

(* A worker leases the wave; it may have been taken from a running handler.*)
Lease ==
  /\ Queue!Begin(Wave)
  /\ run' = [run EXCEPT ![attempts'[Wave]] = "listing"]
  /\ UNCHANGED <<manifest, lock, outcome, at, got, selection>>

Current(a) == a = attempts[Wave] /\ status[Wave] = "running"

(* finish_attempt of a with a verdict of its handler: a retryable failure  *)
(* is given back while there is budget; a result of a former attempt is    *)
(* dropped.                                                                *)
Conclude(a, r) ==
  CASE ~Current(a) -> UNCHANGED operation
    [] Current(a) /\ cancel[Wave] -> Queue!Decide(Wave, "cancelled")
    [] Current(a) /\ ~cancel[Wave] /\ r = "error" /\ a < MaxAttempts -> Queue!GiveBack(Wave)
    [] Current(a) /\ ~cancel[Wave] /\ (r # "error" \/ a = MaxAttempts) ->
         Queue!Decide(Wave, IF r \in {"succeeded", "partial"} THEN r ELSE "failed")

(* run_once after the handler returned or raised.                          *)
Finish(a) ==
  /\ run[a] = "returned"
  /\ Conclude(a, outcome[a])
  /\ run' = [run EXCEPT ![a] = "over"]
  /\ outcome' = [outcome EXCEPT ![a] = "none"]
  /\ UNCHANGED <<manifest, lock, at, got, selection>>

Active(a) == run[a] \notin {"none", "over"}

(* The lease check of the monitor raises: the attempt is finished as a     *)
(* retryable failure, its handler goes on.                                 *)
MonitorError(a) ==
  /\ Active(a) /\ Current(a)
  /\ Conclude(a, "error")
  /\ UNCHANGED <<manifest, lock, handler>>

(* The handler's process dies; its advisory locks go with its connections. *)
Die(a) ==
  /\ Active(a)
  /\ run' = [run EXCEPT ![a] = "over"]
  /\ outcome' = [outcome EXCEPT ![a] = "none"]
  /\ at' = [at EXCEPT ![a] = [m \in Members |-> "out"]]
  /\ got' = [got EXCEPT ![a] = [m \in Members |-> "none"]]
  /\ lock' = [m \in Members |-> IF lock[m] = a THEN None ELSE lock[m]]
  /\ UNCHANGED <<operation, manifest, selection>>

---------------------------------------------------------------------------
(* The handler of attempt a.                                               *)

(* A checkpoint passes only while the operation runs and nobody asked to   *)
(* cancel it; one of a former attempt passes at most when the new attempt  *)
(* has the same worker id, and raises otherwise.                           *)
Passes == status[Wave] = "running" /\ ~cancel[Wave]
Raises(a) == ~Current(a) \/ cancel[Wave]

(* _unfinished_members, and a gather over them.                            *)
List(a) ==
  /\ run[a] = "listing"
  /\ run' = [run EXCEPT ![a] = "gathering"]
  /\ at' = [at EXCEPT ![a] =
             [m \in Members |-> IF state[m] \in Unfinished THEN "waiting" ELSE "out"]]
  /\ UNCHANGED <<operation, manifest, lock, outcome, got, selection>>

(* The loop of a is at an await, so another member may go on.              *)
LoopIsFree(a) == run[a] = "gathering" /\ \A m \in Members : at[a][m] \notin {"claimed", "checked"}

Goes(a, m, task) == at' = [at EXCEPT ![a][m] = task]
Holds(a, m, v) == got' = [got EXCEPT ![a][m] = v]

(* A slot of the global semaphore is free.                                 *)
HasSlot(a) == Cardinality(InFlight(a)) < Limit

(* claim_member: a pending member, or one an earlier attempt left running. *)
Claimable(a, m) ==
  \/ state[m] = "pending"
  \/ state[m] = "running" /\ claim[m] # None /\ claim[m] < a

(* finish_member counts a member when it leaves the unfinished states, up  *)
(* to progress_total.                                                      *)
Advanced(m) ==
  IF state[m] \in Unfinished /\ progress < Cardinality(Members) THEN progress + 1 ELSE progress

(* finish_member writes the verdict of the claimant.                       *)
Write(m, v) ==
  /\ state' = [state EXCEPT ![m] = v]
  /\ progress' = Advanced(m)

(* One transaction claims the member and finishes it when the definition   *)
(* changed, the snapshot is not fetchable or the deadline passed.          *)
Claim(a, m) ==
  /\ LoopIsFree(a) /\ at[a][m] = "waiting" /\ HasSlot(a)
  /\ \/ /\ ~Claimable(a, m)
        /\ Goes(a, m, "out")
        /\ UNCHANGED manifest
     \/ /\ Claimable(a, m)
        /\ claim' = [claim EXCEPT ![m] = a]
        /\ \/ Write(m, "rejected") /\ Goes(a, m, "out")
           \/ /\ m \in Fetchable
              /\ state' = [state EXCEPT ![m] = "running"]
              /\ Goes(a, m, "claimed")
              /\ UNCHANGED progress
  /\ UNCHANGED <<operation, lock, run, outcome, got, selection>>

(* gather raises: the tasks of the loop are cancelled, and the handler     *)
(* returns when the threads have ended.                                    *)
Abort(a, r) ==
  /\ run' = [run EXCEPT ![a] = "stopping"]
  /\ outcome' = [outcome EXCEPT ![a] = r]
  /\ at' = [at EXCEPT ![a] = [m \in Members |-> IF m \in InThread(a) THEN @[m] ELSE "out"]]
  /\ got' = [got EXCEPT ![a] = [m \in Members |-> "none"]]

(* A database error in one of the handler's transactions.                  *)
HandlerError(a) ==
  /\ run[a] \in {"listing", "gathering", "judged"}
  /\ Abort(a, "error")
  /\ UNCHANGED <<operation, manifest, lock, selection>>

(* checkpoint("before_wave_fetch"), the deadline, and asyncio.to_thread.   *)
BeforeFetch(a, m) ==
  /\ run[a] = "gathering" /\ at[a][m] = "claimed"
  /\ \/ /\ Passes
        /\ \/ Goes(a, m, "submitted") /\ UNCHANGED got
           \/ Goes(a, m, "checked") /\ Holds(a, m, "rejected")
        /\ UNCHANGED <<run, outcome>>
     \/ Raises(a) /\ Abort(a, "cancelled")
  /\ UNCHANGED <<operation, manifest, lock, selection>>

(* pg_try_advisory_lock: a source fetched by another attempt is blocked.   *)
FetchStart(a, m) ==
  /\ at[a][m] = "submitted"
  /\ \/ /\ lock[m] = None
        /\ lock' = [lock EXCEPT ![m] = a]
        /\ Goes(a, m, "fetching")
        /\ UNCHANGED got
     \/ /\ lock[m] # None
        /\ Goes(a, m, IF run[a] = "gathering" THEN "fetched" ELSE "out")
        /\ IF run[a] = "gathering" THEN Holds(a, m, "rejected") ELSE UNCHANGED got
        /\ UNCHANGED lock
  /\ UNCHANGED <<operation, manifest, run, outcome, selection>>

(* The fetch returns a summary, or raises: an unexpected error skips the   *)
(* checkpoint after the fetch, a cancellation stops the handler.           *)
FetchEnd(a, m) ==
  /\ at[a][m] = "fetching"
  /\ lock' = [lock EXCEPT ![m] = None]
  /\ \/ /\ run[a] = "gathering"
        /\ \/ \E v \in Verdicts : Holds(a, m, v) /\ Goes(a, m, "fetched")
           \/ LoopIsFree(a) /\ Holds(a, m, "rejected") /\ Goes(a, m, "checked")
        /\ UNCHANGED <<run, outcome>>
     \/ /\ LoopIsFree(a) /\ Raises(a)
        /\ run' = [run EXCEPT ![a] = "stopping"]
        /\ outcome' = [outcome EXCEPT ![a] = "cancelled"]
        /\ at' = [at EXCEPT ![a] =
                   [n \in Members |-> IF n \in InThread(a) \ {m} THEN @[n] ELSE "out"]]
        /\ got' = [got EXCEPT ![a] = [n \in Members |-> "none"]]
     \/ /\ run[a] = "stopping"
        /\ Goes(a, m, "out")
        /\ UNCHANGED <<run, outcome, got>>
  /\ UNCHANGED <<operation, manifest, selection>>

(* checkpoint("after_wave_fetch") and the deadline, which drops the result.*)
AfterFetch(a, m) ==
  /\ LoopIsFree(a) /\ at[a][m] = "fetched"
  /\ \/ /\ Passes
        /\ Goes(a, m, "checked")
        /\ Holds(a, m, got[a][m]) \/ Holds(a, m, "rejected")
        /\ UNCHANGED <<run, outcome>>
     \/ Raises(a) /\ Abort(a, "cancelled")
  /\ UNCHANGED <<operation, manifest, lock, selection>>

(* finish_member refuses who lost the claim; without the fence it writes.  *)
NeedsNoClaim(a, m) == TRUE
HoldsClaim(a, m) == claim[m] = a

FinishMember(a, m) ==
  /\ run[a] = "gathering" /\ at[a][m] = "checked"
  /\ IF HoldsClaim(a, m)
     THEN Write(m, got[a][m]) /\ UNCHANGED claim
     ELSE UNCHANGED manifest
  /\ Goes(a, m, "out")
  /\ Holds(a, m, "none")
  /\ UNCHANGED <<operation, lock, run, outcome, selection>>

(* The threads of a stopped handler have ended.                            *)
Stopped(a) ==
  /\ run[a] = "stopping" /\ InThread(a) = {}
  /\ run' = [run EXCEPT ![a] = "returned"]
  /\ UNCHANGED <<operation, manifest, lock, outcome, at, got, selection>>

Finished == {m \in Members : state[m] \in Verdicts}
Selectable == {m \in Members : state[m] \in {"succeeded", "partial"}}

(* The manifest must be terminal for the event stage; an unchecked one.    *)
ManifestUnchecked == TRUE
ManifestTerminal == Finished = Members

(* _operation_result when all member tasks of a are done.                  *)
Judge(a) ==
  /\ run[a] = "gathering" /\ \A m \in Members : at[a][m] = "out"
  /\ IF ManifestTerminal
     THEN /\ run' = [run EXCEPT ![a] = "judged"]
          /\ outcome' = [outcome EXCEPT ![a] =
               IF \A m \in Members : state[m] = "succeeded" THEN "succeeded" ELSE "partial"]
     ELSE /\ run' = [run EXCEPT ![a] = "returned"]
          /\ outcome' = [outcome EXCEPT ![a] = "incomplete"]
  /\ UNCHANGED <<operation, manifest, lock, at, got, selection>>

(* A stage of the event pipeline ends the handler otherwise.               *)
EventTrouble(a) ==
  /\ run' = [run EXCEPT ![a] = "returned"]
  /\ \/ Raises(a) /\ outcome' = [outcome EXCEPT ![a] = "cancelled"]
     \/ outcome' = [outcome EXCEPT ![a] = "failed"]

(* event_selection_scope, after a checkpoint.                              *)
EventStart(a) ==
  /\ run[a] = "judged"
  /\ \/ /\ Passes
        /\ run' = [run EXCEPT ![a] = "events"]
        /\ selection' = [selection EXCEPT ![a] = Selectable]
        /\ UNCHANGED outcome
     \/ EventTrouble(a) /\ UNCHANGED selection
  /\ UNCHANGED <<operation, manifest, lock, at, got>>

(* The event pipeline and the checkpoint after it.                         *)
EventEnd(a) ==
  /\ run[a] = "events"
  /\ \/ Passes /\ run' = [run EXCEPT ![a] = "returned"] /\ UNCHANGED outcome
     \/ EventTrouble(a)
  /\ UNCHANGED <<operation, manifest, lock, at, got, selection>>

MemberStep(a, m) ==
  \/ Claim(a, m) \/ BeforeFetch(a, m) \/ FetchStart(a, m)
  \/ FetchEnd(a, m) \/ AfterFetch(a, m) \/ FinishMember(a, m)

HandlerStep(a) ==
  \/ List(a) \/ HandlerError(a) \/ Stopped(a)
  \/ Judge(a) \/ EventStart(a) \/ EventEnd(a)
  \/ \E m \in Members : MemberStep(a, m)

Next ==
  \/ Enqueue \/ RequestCancel \/ Lease
  \/ \E a \in Attempts : HandlerStep(a) \/ Finish(a) \/ MonitorError(a) \/ Die(a)

Spec == Init /\ [][Next]_vars

---------------------------------------------------------------------------
(* Properties.                                                             *)

(* The live progress of the operation is the number of finished members,   *)
(* however many attempts claimed, fetched or lost each of them.            *)
ProgressCounts == progress = Cardinality(Finished)

(* The verdict of a member is final: no later attempt claims it again, no  *)
(* earlier one that comes late overwrites it.                              *)
VerdictsAreFinal ==
  [][\A m \in Members : state[m] \in Verdicts =>
       state'[m] = state[m] /\ claim'[m] = claim[m]]_vars

(* docs/superpowers/specs/2026-07-16-high-value-news-wave-v1-5-design.md:  *)
(* an old worker cannot overwrite what a new attempt claimed.              *)
OldAttemptsAreFenced ==
  [][\A a \in Attempts, m \in Members :
       at[a][m] # at'[a][m] /\ (state[m] # state'[m] \/ claim[m] # claim'[m])
         => claim[m] = None \/ claim[m] <= a]_vars

(* The event stage builds its manifest on fetch results that no longer     *)
(* change: until its handler is over, its selection is what is selectable. *)
EventsOnFrozenManifest ==
  \A a \in Attempts :
    run[a] = "events" => Finished = Members /\ selection[a] = Selectable

(* A wave is reported SUCCEEDED or PARTIAL only with every member finished,*)
(* and SUCCEEDED only if all of them succeeded.                            *)
SuccessIsComplete ==
  /\ status[Wave] \in {"succeeded", "partial"} => Finished = Members
  /\ status[Wave] = "succeeded" => \A m \in Members : state[m] = "succeeded"

(* The guard against an incomplete manifest never fails a wave: whatever   *)
(* earlier attempts still hold, the attempt that decides has taken over or *)
(* found finished every member.                                            *)
IncompleteNeverDecides ==
  \A a \in Attempts : run[a] = "returned" /\ outcome[a] = "incomplete" => ~Current(a)

(* The manifest agrees with everything that is read from it: the progress, *)
(* the event stage and the verdict of the wave.                            *)
ManifestIsSound ==
  /\ TypeOK /\ ProgressCounts
  /\ EventsOnFrozenManifest /\ SuccessIsComplete /\ IncompleteNeverDecides

(* What is written into the manifest stays against whoever comes late.     *)
VerdictsAreFenced == VerdictsAreFinal /\ OldAttemptsAreFenced
=============================================================================
