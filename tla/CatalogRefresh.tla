--------------------------- MODULE CatalogRefresh ---------------------------
(***************************************************************************)
(* Batches of the source catalog refresh: the commands that create them    *)
(* (OperationCommandService), their frozen members                         *)
(* (source_catalog_refresh_members, CatalogRefreshRepository) and the      *)
(* handlers that work through the three lanes of a batch                   *)
(* (CatalogRefreshHandler), one per attempt of its operation.              *)
(*                                                                         *)
(* The operations are those of OperationContract.  A handler whose attempt *)
(* was given up may go on, and a worker may have loaded other definitions  *)
(* of a source than those the batch was frozen with.                       *)
(***************************************************************************)
EXTENDS Naturals, FiniteSets

CONSTANTS
  Sources,
  Lane, Provider,   \* lane and provider of a source in the frozen plan
  Verified,         \* the sources whose catalog entry is complete
  MaxBatches,       \* bound on the operations
  MaxAttempts,      \* MAX_ATTEMPTS
  Workers,          \* bound on the handlers at work
  MaxStarts,        \* bound on the handlers that are started
  Limit,            \* global_concurrency
  Rounds,           \* successful content probes that are asked for: 3
  Catalogs,         \* the sources that are not archived, when a plan is built
  Drifts,           \* what a worker knows of the sources, against the plan
  None              \* SQL NULL

ASSUME CatalogAssumption ==
  /\ IsFiniteSet(Sources) /\ Verified \subseteq Sources
  /\ Lane \in [Sources -> {"content", "capability", "catalog"}]
  /\ {MaxBatches, MaxAttempts, Workers, MaxStarts, Limit, Rounds} \subseteq Nat \ {0}
  /\ Catalogs \subseteq SUBSET Sources
  /\ Drifts \subseteq [Sources -> {"same", "changed", "unknown"}]
  /\ None \notin Nat

VARIABLES
  status, attempts, cancel,   \* operation_runs
  state, claim, progress,     \* source_catalog_refresh_members, progress_current
  plan,                       \* plan a retry or recovery command has read
  counted,                    \* batches that have a progress_total
  phase, outcome, drift,      \* handler of an attempt
  left, group,                \* its members to visit, the provider it is at
  at, rounds, retried,        \* its member tasks
  probed                      \* history: attempts that sent a request for a member

operation == <<status, attempts, cancel>>
members == <<state, claim, progress>>
tasks == <<at, rounds, retried>>
handler == <<phase, outcome, drift, left, group, tasks, probed>>
plans == <<plan, counted>>
vars == <<operation, members, plans, handler>>

Batches == 1..MaxBatches
Attempts == Batches \X (1..MaxAttempts)

Queue == INSTANCE OperationContract WITH Operations <- Batches

(* "transient" is a failure with a retryable code, "rejected" any other    *)
(* failed, blocked or degraded verdict but a stale result.                 *)
Verdicts == {"succeeded", "transient", "rejected", "stale"}
Unfinished == {"pending", "running"}
MembersOf(b) == {s \in Sources : state[b][s] # "absent"}
Finished(b) == {s \in Sources : state[b][s] \in Verdicts}
Terminal == {"succeeded", "partial", "failed", "cancelled"}
Active(b) == status[b] \in {"queued", "running"}
Started == {a \in Attempts : phase[a] # "none"}
AtWork == {a \in Attempts : phase[a] \notin {"none", "over"}}
InFlight(a) == {s \in Sources : at[a][s] = "probing"}

NoDrift == [s \in Sources |-> "same"]
NoTasks == [s \in Sources |-> "out"]

TypeOK ==
  /\ state \in [Batches -> [Sources -> {"absent"} \cup Unfinished \cup Verdicts]]
  /\ claim \in [Batches -> [Sources -> 1..MaxAttempts \cup {None}]]
  /\ \A b \in Batches : progress[b] \in 0..Cardinality(MembersOf(b))
  /\ plan = None \/ plan \in SUBSET Sources
  /\ phase \in [Attempts -> {"none", "start", "content", "capability", "stale", "probing",
                             "finishing", "after", "catalog", "returned", "over"}]
  /\ outcome \in [Attempts -> {"none", "succeeded", "partial", "failed", "error", "cancelled"}]
  /\ drift \in [Attempts -> Drifts \cup {NoDrift}]
  /\ left \in [Attempts -> SUBSET Sources]
  /\ at \in [Attempts -> [Sources -> {"out", "waiting", "probing", "checked"}]]
  /\ \A a \in Attempts : Cardinality(InFlight(a)) <= Limit

Init ==
  /\ Queue!ContractInit
  /\ state = [b \in Batches |-> [s \in Sources |-> "absent"]]
  /\ claim = [b \in Batches |-> [s \in Sources |-> None]]
  /\ progress = [b \in Batches |-> 0]
  /\ plan = None /\ counted = {}
  /\ phase = [a \in Attempts |-> "none"]
  /\ outcome = [a \in Attempts |-> "none"]
  /\ drift = [a \in Attempts |-> NoDrift]
  /\ left = [a \in Attempts |-> {}]
  /\ group = [a \in Attempts |-> None]
  /\ at = [a \in Attempts |-> NoTasks]
  /\ rounds = [a \in Attempts |-> [s \in Sources |-> 0]]
  /\ retried = [a \in Attempts |-> {}]
  /\ probed = [b \in Batches |-> [s \in Sources |-> {}]]

---------------------------------------------------------------------------
(* Commands.                                                               *)

(* No other refresh may be active, checked and inserted under an advisory  *)
(* lock that is held to the commit.                                        *)
NoneActive == \A c \in Batches : ~Active(c)

(* Operations are numbered in the order in which they are inserted.        *)
IsNext(b) == \A c \in Batches : c < b <=> status[c] # "absent"

(* enqueue_source_catalog_refresh: the operation and its members, at once. *)
Created(b, ms) ==
  /\ IsNext(b)
  /\ NoneActive
  /\ Queue!Submit(b)
  /\ state' = [state EXCEPT ![b] = [s \in Sources |-> IF s \in ms THEN "pending" ELSE "absent"]]
  /\ counted' = counted \cup {b}
  /\ UNCHANGED <<claim, progress, handler>>

Refresh(b) == (\E ms \in Catalogs : Created(b, ms)) /\ UNCHANGED plan

(* retry_source_catalog_refresh and recover_abandoned_... read their plan  *)
(* before the lock is taken.                                               *)
Retryable(b) == {s \in Sources : state[b][s] = "transient"}
Abandoned(b) == {s \in Sources : state[b][s] = "running"}

ReadPlan(b) ==
  /\ plan = None
  /\ \/ plan' = Retryable(b)
     \/ status[b] \in Terminal /\ plan' = Abandoned(b)
  /\ plan' # {}
  /\ UNCHANGED <<operation, members, counted, handler>>

EnqueuePlan(b) ==
  /\ plan # None
  /\ \/ Created(b, plan)
     \/ ~NoneActive /\ UNCHANGED <<operation, members, counted, handler>>
  /\ plan' = None

(* The generic retry of an operation enqueues a copy of its scope, without *)
(* members or a count of them and whatever else is active.                 *)
Copy(b, c) ==
  /\ IsNext(b)
  /\ status[c] \in Terminal
  /\ Queue!Submit(b)
  /\ UNCHANGED <<members, plans, handler>>

RequestCancel(b) == Queue!AskCancel(b) /\ UNCHANGED <<members, plans, handler>>

---------------------------------------------------------------------------
(* The operation, as the queue runs it.                                    *)

Goes(a, p) == phase' = [phase EXCEPT ![a] = p]

(* A worker that has loaded its own definitions leases the batch.          *)
Lease(b) ==
  /\ Cardinality(AtWork) < Workers /\ Cardinality(Started) < MaxStarts
  /\ Queue!Begin(b)
  /\ LET a == <<b, attempts'[b]>>
     IN /\ Goes(a, "start")
        /\ \E d \in Drifts : drift' = [drift EXCEPT ![a] = d]
  /\ UNCHANGED <<members, plans, outcome, left, group, tasks, probed>>

Current(a) == a[2] = attempts[a[1]] /\ status[a[1]] = "running"

(* finish_attempt: only an error of the handler is worth another attempt.  *)
Conclude(a, r) ==
  LET b == a[1]
  IN CASE ~Current(a) -> UNCHANGED operation
       [] Current(a) /\ cancel[b] -> Queue!Decide(b, "cancelled")
       [] Current(a) /\ ~cancel[b] /\ r = "error" /\ a[2] < MaxAttempts -> Queue!GiveBack(b)
       [] Current(a) /\ ~cancel[b] /\ (r # "error" \/ a[2] = MaxAttempts) ->
            Queue!Decide(b, IF r \in {"succeeded", "partial"} THEN r ELSE "failed")

Stopped(a, p, r) ==
  /\ Goes(a, p)
  /\ outcome' = [outcome EXCEPT ![a] = r]
  /\ left' = [left EXCEPT ![a] = {}]
  /\ group' = [group EXCEPT ![a] = None]
  /\ at' = [at EXCEPT ![a] = NoTasks]
  /\ rounds' = [rounds EXCEPT ![a] = [s \in Sources |-> 0]]
  /\ retried' = [retried EXCEPT ![a] = {}]
  /\ drift' = [drift EXCEPT ![a] = NoDrift]
  /\ UNCHANGED probed

Finish(a) ==
  /\ phase[a] = "returned"
  /\ Conclude(a, outcome[a])
  /\ Stopped(a, "over", "none")
  /\ UNCHANGED <<members, plans>>

(* The monitor's lease check raises; the handler goes on.                  *)
MonitorError(a) ==
  /\ a \in AtWork /\ Current(a)
  /\ Conclude(a, "error")
  /\ UNCHANGED <<members, plans, handler>>

Die(a) ==
  /\ a \in AtWork
  /\ Stopped(a, "over", "none")
  /\ UNCHANGED <<operation, members, plans>>

(* A checkpoint passes while the operation runs and nobody asked to cancel *)
(* it, and raises for a former attempt unless the worker id is the same.   *)
Passes(a) == status[a[1]] = "running" /\ ~cancel[a[1]]
Raises(a) == ~Current(a) \/ cancel[a[1]]

(* What ends a handler early: the checkpoint, or the deadline of the batch.*)
Interrupted(a) ==
  \/ Raises(a) /\ Stopped(a, "returned", "cancelled")
  \/ Stopped(a, "returned", "failed")

---------------------------------------------------------------------------
(* Members.                                                                *)

(* finish_member counts a member when it leaves the unfinished states; one *)
(* that is finished again is not counted again.                            *)
Counted(b, s) ==
  IF state[b][s] \in Unfinished /\ progress[b] < Cardinality(MembersOf(b))
  THEN progress[b] + 1 ELSE progress[b]

(* The fence of a handler that has claimed the member; nobody takes a      *)
(* claim over, so that it refuses nobody.                                  *)
HoldsClaim(a, s) == claim[a[1]][s] = a[2]

(* finish_member, where the handler has no claim (the context variable     *)
(* _active_claim_attempt_id is unset) and there is no fence.               *)
Write(a, s, v) ==
  /\ state' = [state EXCEPT ![a[1]][s] = v]
  /\ progress' = [progress EXCEPT ![a[1]] = Counted(a[1], s)]

(* claim_member and claim_members accept pending members only, and neither *)
(* what an earlier attempt left running nor, as the first one here would,  *)
(* finished members.                                                       *)
ClaimableAgain(a, s) == state[a[1]][s] # "running"
Claimable(a, s) == state[a[1]][s] = "pending"

Claimed(a, ms) == claim' = [claim EXCEPT ![a[1]] =
                             [s \in Sources |-> IF s \in ms THEN a[2] ELSE @[s]]]
Sends(a, ms) == probed' = [probed EXCEPT ![a[1]] =
                            [s \in Sources |-> IF s \in ms THEN @[s] \cup {a[2]} ELSE @[s]]]

InLane(a, lane) == {s \in Sources : Lane[s] = lane /\ state[a[1]][s] \in Unfinished}
Task(a, s, t) == at' = [at EXCEPT ![a][s] = t]

---------------------------------------------------------------------------
(* The content lane: a gather over the content members.                    *)

Start(a) ==
  /\ phase[a] = "start"
  /\ \/ /\ Goes(a, "content")
        /\ at' = [at EXCEPT ![a] =
                   [s \in Sources |-> IF s \in InLane(a, "content") THEN "waiting" ELSE "out"]]
        /\ UNCHANGED <<outcome, drift, left, group, rounds, retried, probed>>
     \/ Stopped(a, "returned", "failed")
  /\ UNCHANGED <<operation, members, plans>>

(* _run_content_member up to its first request: a source the worker does   *)
(* not know is finished without a claim, a changed one with it.            *)
ClaimContent(a, s) ==
  /\ phase[a] = "content" /\ at[a][s] = "waiting"
  /\ Cardinality(InFlight(a)) < Limit
  /\ \/ /\ drift[a][s] = "unknown"
        /\ Write(a, s, "stale") /\ Task(a, s, "out")
        /\ UNCHANGED <<claim, phase, outcome, drift, left, group, rounds, retried, probed>>
     \/ /\ drift[a][s] # "unknown" /\ ~Claimable(a, s)
        /\ Task(a, s, "out")
        /\ UNCHANGED <<members, phase, outcome, drift, left, group, rounds, retried, probed>>
     \/ /\ drift[a][s] # "unknown" /\ Claimable(a, s)
        /\ Claimed(a, {s})
        /\ \/ /\ Write(a, s, IF drift[a][s] = "changed" THEN "stale" ELSE "rejected")
              /\ Task(a, s, "out")
              /\ UNCHANGED <<phase, outcome, drift, left, group, rounds, retried, probed>>
           \/ /\ drift[a][s] = "same"
              /\ state' = [state EXCEPT ![a[1]][s] = "running"]
              /\ \/ /\ Passes(a)
                    /\ Task(a, s, "probing") /\ Sends(a, {s})
                    /\ UNCHANGED <<phase, outcome, drift, left, group, rounds, retried>>
                 \/ Interrupted(a)
              /\ UNCHANGED progress
     \/ Stopped(a, "returned", "failed") /\ UNCHANGED members
  /\ UNCHANGED <<operation, plans>>

(* A probe returns.  An exception in it ends the member at once; after the *)
(* checkpoint a success counts, a first transient failure is tried again,  *)
(* and anything else is the verdict.                                       *)
ProbeEnd(a, s) ==
  /\ at[a][s] = "probing" /\ HoldsClaim(a, s)
  /\ \/ /\ \/ Write(a, s, "rejected")
           \/ Passes(a) /\ rounds[a][s] + 1 = Rounds /\ Write(a, s, "succeeded")
           \/ Passes(a) /\ Write(a, s, "transient")
        /\ Task(a, s, "out")
        /\ UNCHANGED <<phase, outcome, rounds, retried, left, group, drift, probed>>
     \/ /\ Passes(a)
        /\ \/ /\ rounds[a][s] + 1 < Rounds
              /\ rounds' = [rounds EXCEPT ![a][s] = @ + 1]
              /\ UNCHANGED retried
           \/ /\ s \notin retried[a]
              /\ retried' = [retried EXCEPT ![a] = @ \cup {s}]
              /\ UNCHANGED rounds
        /\ UNCHANGED <<state, progress, at, phase, outcome, left, group, drift, probed>>
     \/ Interrupted(a) /\ UNCHANGED <<state, progress>>
  /\ UNCHANGED <<operation, claim, plans>>

---------------------------------------------------------------------------
(* The capability lane: one probe for the members of a provider.           *)

Listed(a, p, lane) ==
  /\ Goes(a, p)
  /\ left' = [left EXCEPT ![a] = InLane(a, lane)]
  /\ UNCHANGED <<operation, members, plans, outcome, drift, group, tasks, probed>>

EndContent(a) == phase[a] = "content" /\ at[a] = NoTasks /\ Listed(a, "capability", "capability")

GroupOf(a) == {s \in left[a] : Provider[s] = group[a]}
Drifted(a) == {s \in GroupOf(a) : drift[a][s] # "same"}

(* Looking up a member that was finished since it was listed raises        *)
(* StopIteration; an unknown or unavailable source is not looked up.       *)
LookupFails(a, ms) == \E s \in ms : drift[a][s] # "unknown" /\ state[a[1]][s] \in Verdicts
LookupPasses(a, ms) == \A s \in ms : drift[a][s] = "same" => state[a[1]][s] \in Unfinished

BeginGroup(a, p) ==
  LET ms == {s \in left[a] : Provider[s] = p}
  IN /\ phase[a] = "capability" /\ ms # {}
     /\ \/ /\ Passes(a) /\ LookupPasses(a, ms)
           /\ Goes(a, "stale")
           /\ group' = [group EXCEPT ![a] = p]
           /\ UNCHANGED <<outcome, drift, left, tasks, probed>>
        \/ Passes(a) /\ LookupFails(a, ms) /\ Stopped(a, "returned", "error")
        \/ Interrupted(a)
     /\ UNCHANGED <<operation, members, plans>>

Visited(a, ms) == left' = [left EXCEPT ![a] = @ \ ms]

FinishStale(a, s) ==
  /\ phase[a] = "stale" /\ s \in Drifted(a)
  /\ Write(a, s, "stale") /\ Visited(a, {s})
  /\ UNCHANGED <<operation, claim, plans, phase, outcome, drift, group, tasks, probed>>

(* claim_members: all members of the group, or none and no probe.          *)
ClaimGroup(a) ==
  LET ms == GroupOf(a)
  IN /\ phase[a] = "stale" /\ Drifted(a) = {}
     /\ IF ms # {} /\ \A s \in ms : Claimable(a, s)
        THEN /\ Claimed(a, ms) /\ Sends(a, ms)
             /\ state' = [state EXCEPT ![a[1]] =
                           [s \in Sources |-> IF s \in ms THEN "running" ELSE @[s]]]
             /\ Goes(a, "probing")
             /\ UNCHANGED <<left, progress>>
        ELSE Goes(a, "after") /\ Visited(a, ms) /\ UNCHANGED <<members, probed>>
     /\ UNCHANGED <<operation, plans, outcome, drift, group, tasks>>

GroupProbed(a) ==
  /\ phase[a] = "probing" /\ \A s \in GroupOf(a) : HoldsClaim(a, s)
  /\ Goes(a, "finishing")
  /\ UNCHANGED <<operation, members, plans, outcome, drift, left, group, tasks, probed>>

(* _capability_conclusion looks the member up again, then the claimant     *)
(* finishes it, whoever did so in between.                                 *)
FinishCapability(a, s) ==
  /\ phase[a] = "finishing" /\ s \in GroupOf(a) /\ HoldsClaim(a, s)
  /\ \/ /\ \E v \in {"succeeded", "transient", "rejected"} : Write(a, s, v)
        /\ Visited(a, {s})
        /\ Goes(a, IF GroupOf(a) = {s} THEN "after" ELSE "finishing")
        /\ UNCHANGED <<outcome, drift, group, tasks, probed>>
     \/ /\ state[a[1]][s] \in Verdicts
        /\ Stopped(a, "returned", "error") /\ UNCHANGED <<state, progress>>
  /\ UNCHANGED <<operation, claim, plans>>

EndGroup(a) ==
  /\ phase[a] = "after"
  /\ \/ /\ Passes(a)
        /\ Goes(a, "capability")
        /\ group' = [group EXCEPT ![a] = None]
        /\ UNCHANGED <<outcome, drift, left, tasks, probed>>
     \/ Raises(a) /\ Stopped(a, "returned", "cancelled")
  /\ UNCHANGED <<operation, members, plans>>

EndCapability(a) == phase[a] = "capability" /\ left[a] = {} /\ Listed(a, "catalog", "catalog")

---------------------------------------------------------------------------
(* The catalog lane: definitions are checked, without a claim.             *)

CheckCatalog(a, s) ==
  /\ phase[a] = "catalog" /\ s \in left[a] /\ at[a] = NoTasks
  /\ \/ /\ Passes(a) /\ LookupPasses(a, {s})
        /\ Task(a, s, "checked")
        /\ UNCHANGED <<phase, outcome, drift, left, group, rounds, retried, probed>>
     \/ Passes(a) /\ LookupFails(a, {s}) /\ Stopped(a, "returned", "error")
     \/ Raises(a) /\ Stopped(a, "returned", "cancelled")
  /\ UNCHANGED <<operation, members, plans>>

(* A stale member, and one whose entry was validated.                      *)
CatalogVerdict(a, s) ==
  IF drift[a][s] # "same" THEN "stale"
  ELSE IF s \in Verified THEN "succeeded" ELSE "rejected"

FinishCatalog(a, s) ==
  /\ phase[a] = "catalog" /\ at[a][s] = "checked"
  /\ Write(a, s, CatalogVerdict(a, s))
  /\ \/ /\ Passes(a)
        /\ Task(a, s, "out") /\ Visited(a, {s})
        /\ UNCHANGED <<phase, outcome, drift, group, rounds, retried, probed>>
     \/ Raises(a) /\ Stopped(a, "returned", "cancelled")
  /\ UNCHANGED <<operation, claim, plans>>

(* SUCCEEDED if as many members succeeded as the operation counts, none of *)
(* an empty plan too; a copy has no count and is PARTIAL.  Another reading *)
(* of it takes finished members for successful ones.                       *)
AllFinished(b) == b \in counted /\ Finished(b) = MembersOf(b)
AllSucceeded(b) == b \in counted /\ \A s \in MembersOf(b) : state[b][s] = "succeeded"

Judge(a) ==
  /\ phase[a] = "catalog" /\ left[a] = {}
  /\ \/ Stopped(a, "returned", IF AllSucceeded(a[1]) THEN "succeeded" ELSE "partial")
     \/ Stopped(a, "returned", "failed")
  /\ UNCHANGED <<operation, members, plans>>

HandlerStep(a) ==
  \/ Start(a) \/ EndContent(a) \/ ClaimGroup(a) \/ GroupProbed(a) \/ EndGroup(a)
  \/ EndCapability(a) \/ Judge(a)
  \/ \E p \in {Provider[s] : s \in Sources} : BeginGroup(a, p)
  \/ \E s \in Sources :
       \/ ClaimContent(a, s) \/ ProbeEnd(a, s) \/ FinishStale(a, s)
       \/ FinishCapability(a, s) \/ CheckCatalog(a, s) \/ FinishCatalog(a, s)

Next ==
  \/ \E b \in Batches : \/ Refresh(b) \/ ReadPlan(b) \/ EnqueuePlan(b)
                        \/ RequestCancel(b) \/ Lease(b)
                        \/ \E c \in Batches : Copy(b, c)
  \/ \E a \in Attempts : HandlerStep(a) \/ Finish(a) \/ MonitorError(a) \/ Die(a)

Spec == Init /\ [][Next]_vars

---------------------------------------------------------------------------
(* Properties.                                                             *)

(* The progress of a batch is the number of its finished members, however  *)
(* often several handlers finish the same one.                             *)
ProgressCounts == \A b \in Batches : progress[b] = Cardinality(Finished(b))

(* catalog_refresh_repository.py: a concurrent or stale worker must not    *)
(* repeat network I/O.  All requests for a member come from one attempt.   *)
ProbedByOneAttempt ==
  \A b \in Batches, s \in Sources : Cardinality(probed[b][s]) <= 1

(* Two refreshes that have members are never active at once, whatever      *)
(* commands read their plans and enqueue them in between.                  *)
OneActiveRefresh ==
  \A b, c \in Batches :
    Active(b) /\ Active(c) /\ MembersOf(b) # {} /\ MembersOf(c) # {} => b = c

(* A verdict is never replaced by another one, except that a worker with   *)
(* other definitions may call the member stale, and a claimant that is     *)
(* late may answer that with the verdict of its own probe.                 *)
VerdictsAreKept ==
  [][\A b \in Batches, s \in Sources :
       state[b][s] \in Verdicts /\ state'[b][s] # state[b][s]
         => /\ "stale" \in {state[b][s], state'[b][s]}
            /\ state'[b][s] \in Verdicts]_vars

(* A batch that is reported SUCCEEDED had every member succeed; a member   *)
(* that is not a success any more was called stale since.                  *)
SuccessIsComplete ==
  \A b \in Batches : status[b] = "succeeded" =>
    \A s \in MembersOf(b) : state[b][s] \in {"succeeded", "stale"}

(* A refresh is exact: its progress, its requests, its verdict, and that   *)
(* it is the only one.                                                     *)
RefreshIsExact ==
  TypeOK /\ ProgressCounts /\ ProbedByOneAttempt /\ OneActiveRefresh /\ SuccessIsComplete
=============================================================================
