------------------------------ MODULE NewsProofs ------------------------------
(***************************************************************************)
(* Safety of what brings the news in, for every value of the constants:    *)
(* the waves of WaveMembers, however many handlers of lost leases work on  *)
(* a manifest with the newest one and wherever each of them dies; the      *)
(* walks of PlatformPages, however many posts are added and withdrawn      *)
(* between two pages; and the rules of EventRules, whatever they are       *)
(* applied to.                                                             *)
(***************************************************************************)
EXTENDS WaveMembers, PlatformPages, EventRules, FiniteSetTheorems,
        SequenceTheorems, WellFoundedInduction, TLAPS

USE WaveAssumption

(* The operation runs at most MaxAttempts times, and a handler belongs to  *)
(* a start of it.                                                          *)
Started ==
  /\ status \in [{Wave} -> {"absent", "queued", "running", "succeeded", "partial",
                            "failed", "cancelled"}]
  /\ attempts \in [{Wave} -> 0..MaxAttempts]
  /\ cancel \in [{Wave} -> BOOLEAN]
  /\ \A a \in Attempts : run[a] # "none" => a <= attempts[Wave]

(* A member is claimed once it is not pending, by an attempt whose task    *)
(* for it does not wait.                                                   *)
Claims ==
  \A m \in Members :
    /\ state[m] = "pending" <=> claim[m] = None
    /\ \A a \in Attempts :
         claim[m] = a => run[a] \notin {"none", "listing"} /\ at[a][m] # "waiting"

(* A member in flight in one handler was claimed by it or by a later one,  *)
(* and has no verdict while the claim is its own.                          *)
Fenced ==
  \A a \in Attempts, m \in Members :
    at[a][m] \notin {"out", "waiting"} =>
      /\ claim[m] \in Attempts /\ a <= claim[m]
      /\ claim[m] = a => state[m] = "running"

(* Tasks live while their handler gathers, threads until it has stopped.   *)
TasksOf(a) ==
  \A m \in Members :
    /\ at[a][m] \in {"waiting", "claimed", "fetched", "checked"} => run[a] = "gathering"
    /\ at[a][m] \in {"submitted", "fetching"} => run[a] \in {"gathering", "stopping"}
    /\ at[a][m] \in {"fetched", "checked"} => got[a][m] \in Verdicts

(* What the newest handler has not finished, it waits for or holds.        *)
CoveredBy(a) ==
  run[a] = "gathering" /\ a = attempts[Wave] =>
    \A m \in Members :
      \/ state[m] \in Verdicts \/ at[a][m] = "waiting"
      \/ at[a][m] \notin {"out", "waiting"} /\ claim[m] = a

(* A handler holds the verdict of a wave only with every member finished,  *)
(* and an incomplete one only when it is no longer its turn.               *)
JudgedBy(a) ==
  /\ run[a] \in {"none", "listing", "gathering", "over"} <=> outcome[a] = "none"
  /\ run[a] \in {"judged", "events"} => outcome[a] \in {"succeeded", "partial"}
  /\ run[a] = "stopping" => outcome[a] \in {"error", "cancelled"}
  /\ outcome[a] \in {"succeeded", "partial"} => Finished = Members
  /\ outcome[a] = "succeeded" => \A m \in Members : state[m] = "succeeded"
  /\ outcome[a] = "incomplete" => ~Current(a)
  /\ run[a] = "events" => selection[a] = Selectable

IInv ==
  /\ TypeOK /\ Started
  /\ Claims /\ Fenced
  /\ \A a \in Attempts : TasksOf(a) /\ CoveredBy(a) /\ JudgedBy(a)
  /\ ProgressCounts /\ SuccessIsComplete

---------------------------------------------------------------------------
(* Sets of members are finite, and counted by natural numbers.             *)
LEMMA MembersAreCounted ==
  \A S \in SUBSET Members :
    /\ IsFiniteSet(S) /\ Cardinality(S) \in Nat
    /\ Cardinality(S) <= Cardinality(Members)
    /\ Cardinality(S) = Cardinality(Members) => S = Members
<1> SUFFICES ASSUME NEW S \in SUBSET Members
             PROVE  /\ IsFiniteSet(S) /\ Cardinality(S) \in Nat
                    /\ Cardinality(S) <= Cardinality(Members)
                    /\ Cardinality(S) = Cardinality(Members) => S = Members
  OBVIOUS
<1>1. IsFiniteSet(S) /\ Cardinality(S) <= Cardinality(Members)
      /\ (Cardinality(S) = Cardinality(Members) => S = Members)
  BY FS_Subset
<1> QED BY <1>1, FS_CardinalityType

(* The untouched wave satisfies the inductive invariant.                   *)
LEMMA InitIInv == Init => IInv
<1> SUFFICES ASSUME Init PROVE IInv
  OBVIOUS
<1> USE DEF Init, Queue!ContractInit
<1>1. Cardinality(Members) \in Nat BY FS_CardinalityType
<1>2. Finished = {} BY DEF Finished, Verdicts
<1>3. \A a \in Attempts : InFlight(a) = {} BY DEF InFlight
<1>4. TypeOK
  <2>0. Cardinality({}) = 0 /\ 0 <= Limit BY FS_EmptySet, WaveAssumption
  <2>1. \A a \in Attempts : Cardinality(InFlight(a)) <= Limit
    BY ONLY <1>3, <2>0
  <2>2. /\ progress \in 0..Cardinality(Members)
        /\ state \in [Members -> Unfinished \cup Verdicts]
    BY <1>1 DEF Unfinished
  <2>3. at \in [Attempts -> [Members -> Tasks]] BY DEF Tasks
  <2> QED BY <2>1, <2>2, <2>3 DEF TypeOK
<1>5. ProgressCounts BY <1>2, FS_EmptySet DEF ProgressCounts
<1>6. Started BY DEF Started
<1>7. Claims /\ Fenced BY DEF Claims, Fenced, Attempts
<1>8. SuccessIsComplete BY DEF SuccessIsComplete
<1>9. \A a \in Attempts : TasksOf(a) /\ CoveredBy(a) /\ JudgedBy(a)
  BY DEF TasksOf, CoveredBy, JudgedBy, Attempts
<1> QED BY <1>4, <1>5, <1>6, <1>7, <1>8, <1>9 DEF IInv

(* What a handler holds in flight only shrinks, or grows by one member     *)
(* while the semaphore has a slot.                                         *)
LEMMA FlightIsBounded ==
  ASSUME TypeOK, NEW a \in Attempts, NEW m,
         \/ InFlight(a)' \subseteq InFlight(a)
         \/ HasSlot(a) /\ InFlight(a)' \subseteq InFlight(a) \cup {m}
  PROVE  Cardinality(InFlight(a)') <= Limit
<1> DEFINE S == InFlight(a)
           T == InFlight(a)'
<1>1. S \in SUBSET Members /\ T \in SUBSET Members BY DEF InFlight
<1>2. IsFiniteSet(S) /\ Cardinality(S) \in Nat /\ Cardinality(T) \in Nat
  BY <1>1, MembersAreCounted
<1>3. CASE T \subseteq S
  <2>1. Cardinality(T) <= Cardinality(S) BY <1>2, <1>3, FS_Subset
  <2>2. Cardinality(S) <= Limit BY DEF TypeOK
  <2> QED BY <1>2, <2>1, <2>2
<1>4. CASE HasSlot(a) /\ T \subseteq S \cup {m}
  <2> DEFINE U == S \cup {m}
  <2>0. /\ IsFiniteSet(U)
        /\ Cardinality(U) = IF m \in S THEN Cardinality(S) ELSE Cardinality(S) + 1
    BY <1>2, FS_AddElement
  <2>1. Cardinality(U) \in Nat /\ Cardinality(U) <= Cardinality(S) + 1
    BY <1>2, <2>0
  <2>2. Cardinality(T) <= Cardinality(U) BY <1>4, <2>0, FS_Subset
  <2>3. Cardinality(S) + 1 <= Limit BY <1>2, <1>4 DEF HasSlot
  <2> QED BY <1>2, <2>1, <2>2, <2>3
<1> QED BY <1>3, <1>4

(* A verdict of an unfinished member is counted once.                      *)
LEMMA VerdictIsCounted ==
  ASSUME TypeOK, ProgressCounts, NEW m \in Members, NEW v \in Verdicts,
         state[m] \in Unfinished, Write(m, v)
  PROVE  /\ progress' \in 0..Cardinality(Members) /\ ProgressCounts'
         /\ state' \in [Members -> Unfinished \cup Verdicts]
         /\ state'[m] = v /\ \A n \in Members : n # m => state'[n] = state[n]
<1>1. /\ state' \in [Members -> Unfinished \cup Verdicts]
      /\ state'[m] = v /\ \A n \in Members : n # m => state'[n] = state[n]
  BY DEF TypeOK, Write
<1>2. m \notin Finished /\ Finished' = Finished \cup {m}
  BY <1>1 DEF Finished, Unfinished, Verdicts
<1>3. Finished \in SUBSET Members /\ Finished' \in SUBSET Members /\ Members \in SUBSET Members
  BY DEF Finished
<1>4. /\ Cardinality(Finished') = Cardinality(Finished) + 1
      /\ Cardinality(Finished) \in Nat
      /\ Cardinality(Finished') <= Cardinality(Members)
      /\ Cardinality(Members) \in Nat
  BY <1>2, <1>3, MembersAreCounted, FS_AddElement
<1>5. progress' = progress + 1 BY <1>4 DEF Write, Advanced, ProgressCounts
<1> QED BY <1>1, <1>4, <1>5 DEF ProgressCounts

---------------------------------------------------------------------------
(* Steps of the operation.                                                 *)

(* A verdict of the operation is taken from what a handler returned.       *)
LEMMA ConcludeFacts ==
  ASSUME IInv, NEW a \in Attempts, NEW r, Conclude(a, r), UNCHANGED <<manifest>>,
         r \in {"succeeded", "partial"} => Finished = Members,
         r = "succeeded" => \A m \in Members : state[m] = "succeeded"
  PROVE  /\ status' \in [{Wave} -> {"absent", "queued", "running", "succeeded",
                                    "partial", "failed", "cancelled"}]
         /\ attempts' = attempts /\ cancel' = cancel
         /\ status'[Wave] = "running" => status[Wave] = "running"
         /\ SuccessIsComplete'
<1> USE DEF Started, SuccessIsComplete, manifest, Finished
<1>1. /\ status \in [{Wave} -> {"absent", "queued", "running", "succeeded",
                                "partial", "failed", "cancelled"}]
      /\ SuccessIsComplete /\ state' = state
  BY DEF IInv
<1>2. CASE UNCHANGED operation BY <1>1, <1>2 DEF operation
<1>3. CASE Queue!GiveBack(Wave) BY <1>1, <1>3 DEF Queue!GiveBack
<1>4. ASSUME NEW v \in {"succeeded", "partial", "failed", "cancelled"}, Queue!Decide(Wave, v),
             v \in {"succeeded", "partial"} => v = r
      PROVE  /\ status' \in [{Wave} -> {"absent", "queued", "running", "succeeded",
                                        "partial", "failed", "cancelled"}]
             /\ attempts' = attempts /\ cancel' = cancel
             /\ status'[Wave] = "running" => status[Wave] = "running"
             /\ SuccessIsComplete'
  BY <1>1, <1>4 DEF Queue!Decide
<1>5. \/ UNCHANGED operation \/ Queue!GiveBack(Wave)
      \/ \E v \in {"succeeded", "partial", "failed", "cancelled"} :
           Queue!Decide(Wave, v) /\ (v \in {"succeeded", "partial"} => v = r)
  <2>1. CASE ~Current(a) BY <2>1 DEF Conclude
  <2>2. CASE Current(a) /\ cancel[Wave] BY <2>2 DEF Conclude
  <2>3. CASE Current(a) /\ ~cancel[Wave] /\ r = "error" /\ a < MaxAttempts
    BY <2>3 DEF Conclude
  <2>4. CASE Current(a) /\ ~cancel[Wave] /\ (r # "error" \/ a = MaxAttempts)
    BY <2>4, a < MaxAttempts => a # MaxAttempts DEF Conclude, Attempts
  <2> QED BY <2>1, <2>2, <2>3, <2>4 DEF Attempts
<1> QED BY <1>2, <1>3, <1>4, <1>5

(* A step of the operation that starts nothing keeps the invariant, also   *)
(* one with which a handler ends.                                          *)
LEMMA OperationStep ==
  ASSUME IInv, NEW a \in Attempts,
         UNCHANGED <<manifest, lock, at, got, selection, attempts>>,
         cancel' \in [{Wave} -> BOOLEAN],
         status' \in [{Wave} -> {"absent", "queued", "running", "succeeded",
                                "partial", "failed", "cancelled"}],
         status'[Wave] = "running" => status[Wave] = "running",
         SuccessIsComplete',
         \/ UNCHANGED <<run, outcome>>
         \/ /\ run[a] = "returned" /\ run' = [run EXCEPT ![a] = "over"]
            /\ outcome' = [outcome EXCEPT ![a] = "none"]
  PROVE  IInv'
<1> USE DEF IInv, manifest
<1>1. TypeOK'
  <2>1. \A b \in Attempts : InFlight(b)' = InFlight(b) BY DEF InFlight
  <2> QED BY <2>1 DEF TypeOK
<1>2. Started' BY DEF Started, TypeOK
<1>3. Claims' BY DEF Claims, TypeOK
<1>4. Fenced' BY DEF Fenced
<1>5. \A b \in Attempts : TasksOf(b)' BY DEF TasksOf, TypeOK
<1>6. \A b \in Attempts : CoveredBy(b)' BY DEF CoveredBy, TypeOK
<1>7. \A b \in Attempts : JudgedBy(b)' BY DEF JudgedBy, TypeOK, Current, Finished, Selectable
<1>8. ProgressCounts' BY DEF ProgressCounts, Finished
<1> QED BY <1>1, <1>2, <1>3, <1>4, <1>5, <1>6, <1>7, <1>8

(* Enqueuing, cancelling and finishing the operation keep it.              *)
LEMMA QueueSteps ==
  ASSUME IInv, NEW a \in Attempts,
         Enqueue \/ RequestCancel \/ Finish(a) \/ MonitorError(a)
  PROVE  IInv'
<1>1. CASE Enqueue \/ RequestCancel
  <2>1. /\ UNCHANGED <<manifest, lock, handler, attempts>>
        /\ cancel' \in [{Wave} -> BOOLEAN]
        /\ status' \in [{Wave} -> {"absent", "queued", "running", "succeeded",
                                   "partial", "failed", "cancelled"}]
        /\ status'[Wave] = "running" => status[Wave] = "running"
        /\ status'[Wave] \in {"succeeded", "partial"} => status'[Wave] = status[Wave]
    BY <1>1 DEF Enqueue, RequestCancel, Queue!Submit, Queue!AskCancel, IInv, Started
  <2>2. SuccessIsComplete' BY <2>1 DEF IInv, SuccessIsComplete, manifest, Finished
  <2> QED BY <2>1, <2>2, OperationStep DEF handler
<1>2. CASE Finish(a)
  <2>1. /\ outcome[a] \in {"succeeded", "partial"} => Finished = Members
        /\ outcome[a] = "succeeded" => \A m \in Members : state[m] = "succeeded"
    BY DEF IInv, JudgedBy
  <2>2. /\ Conclude(a, outcome[a]) /\ UNCHANGED <<manifest, lock, at, got, selection>>
        /\ run[a] = "returned" /\ run' = [run EXCEPT ![a] = "over"]
        /\ outcome' = [outcome EXCEPT ![a] = "none"]
    BY <1>2 DEF Finish
  <2>3. cancel \in [{Wave} -> BOOLEAN] BY DEF IInv, Started
  <2> QED BY <2>1, <2>2, <2>3, ConcludeFacts, OperationStep
<1>3. CASE MonitorError(a)
  <2>1. Conclude(a, "error") /\ UNCHANGED <<manifest, lock, handler>>
    BY <1>3 DEF MonitorError
  <2>2. cancel \in [{Wave} -> BOOLEAN] BY DEF IInv, Started
  <2> QED BY <2>1, <2>2, ConcludeFacts, OperationStep DEF handler
<1> QED BY <1>1, <1>2, <1>3

(* A lease starts a handler that has touched nothing.                      *)
LEMMA LeaseStep == ASSUME IInv, Lease PROVE IInv'
<1> DEFINE n == attempts[Wave] + 1
<1> USE DEF IInv, manifest
<1>1. /\ n \in Attempts /\ attempts'[Wave] = n /\ status'[Wave] = "running"
      /\ status' \in [{Wave} -> {"absent", "queued", "running", "succeeded",
                                 "partial", "failed", "cancelled"}]
      /\ attempts' \in [{Wave} -> 0..MaxAttempts] /\ cancel' = cancel
      /\ run' = [run EXCEPT ![n] = "listing"]
      /\ UNCHANGED <<manifest, lock, outcome, at, got, selection>>
  BY DEF Lease, Queue!Begin, Started, Attempts
<1>2. run[n] = "none" /\ outcome[n] = "none"
  BY <1>1 DEF Started, JudgedBy, TypeOK, Attempts
<1>3. TypeOK' BY <1>1 DEF TypeOK, InFlight
<1>4. Started' BY <1>1 DEF Started, TypeOK, Attempts
<1>5. Claims' BY <1>1, <1>2 DEF Claims, TypeOK
<1>6. Fenced' BY <1>1 DEF Fenced
<1>7. \A a \in Attempts : TasksOf(a)' BY <1>1, <1>2 DEF TasksOf, TypeOK
<1>8. \A a \in Attempts : CoveredBy(a)' BY <1>1 DEF CoveredBy, TypeOK
<1>9. \A a \in Attempts : JudgedBy(a)'
  <2>1. \A a \in Attempts : Current(a)' => a = n BY <1>1 DEF Current
  <2> QED BY <1>1, <1>2, <2>1 DEF JudgedBy, TypeOK, Finished, Selectable
<1>10. ProgressCounts' /\ SuccessIsComplete'
  BY <1>1 DEF ProgressCounts, SuccessIsComplete, Finished
<1> QED BY <1>3, <1>4, <1>5, <1>6, <1>7, <1>8, <1>9, <1>10

---------------------------------------------------------------------------
(* Steps of a handler that leave the manifest alone.                       *)

(* The handler of a moves on: it lets members go and takes none it claimed.*)
Moves(a) ==
  /\ run[a] # "none" /\ run'[a] \notin {"none", "listing"}
  /\ \A m \in Members :
       /\ at'[a][m] \notin {"out", "waiting"} => at[a][m] \notin {"out", "waiting"}
       /\ at'[a][m] = "waiting" => claim[m] # a
  /\ \A b \in Attempts \ {a} :
       /\ at'[b] = at[b] /\ got'[b] = got[b] /\ selection'[b] = selection[b]
       /\ run'[b] = run[b] /\ outcome'[b] = outcome[b]

(* The types of the handlers and locks.                                    *)
HandlerTypes ==
  /\ lock \in [Members -> Attempts \cup {None}]
  /\ run \in [Attempts -> {"none", "listing", "gathering", "judged", "events",
                           "stopping", "returned", "over"}]
  /\ outcome \in [Attempts -> {"none", "succeeded", "partial", "incomplete",
                               "failed", "error", "cancelled"}]
  /\ at \in [Attempts -> [Members -> Tasks]]
  /\ got \in [Attempts -> [Members -> Verdicts \cup {"none"}]]
  /\ selection \in [Attempts -> SUBSET Members]

(* Such a step keeps the invariant when it does so for its own handler.    *)
LEMMA HandlerStepKeeps ==
  ASSUME IInv, NEW a \in Attempts, UNCHANGED <<operation, manifest>>,
         HandlerTypes', Moves(a), TasksOf(a)', CoveredBy(a)', JudgedBy(a)'
  PROVE  IInv'
<1> USE DEF IInv, operation, manifest, Moves
<1>1. TypeOK'
  <2>1. InFlight(a)' \subseteq InFlight(a) BY DEF InFlight
  <2>2. \A b \in Attempts \ {a} : InFlight(b)' = InFlight(b) BY DEF InFlight
  <2>3. Cardinality(InFlight(a)') <= Limit BY <2>1, FlightIsBounded
  <2>4. \A b \in Attempts : Cardinality(InFlight(b)') <= Limit
    BY <2>2, <2>3 DEF TypeOK
  <2> QED BY <2>4 DEF TypeOK, HandlerTypes
<1>2. Started' BY DEF Started
<1>3. Claims' BY DEF Claims
<1>4. Fenced' BY DEF Fenced
<1>5. ASSUME NEW b \in Attempts \ {a} PROVE TasksOf(b)' /\ CoveredBy(b)' /\ JudgedBy(b)'
  <2>1. TasksOf(b) /\ CoveredBy(b) /\ JudgedBy(b) OBVIOUS
  <2> QED BY <2>1 DEF TasksOf, CoveredBy, JudgedBy, Current, Finished, Selectable
<1>6. ProgressCounts' /\ SuccessIsComplete' BY DEF ProgressCounts, SuccessIsComplete, Finished
<1> QED BY <1>1, <1>2, <1>3, <1>4, <1>5, <1>6

(* The death of a handler's process keeps it.                              *)
LEMMA DieStep == ASSUME IInv, NEW a \in Attempts, Die(a) PROVE IInv'
<1> USE DEF Die
<1>1. TypeOK /\ Claims BY DEF IInv
<1>2. HandlerTypes' BY <1>1 DEF TypeOK, HandlerTypes, Tasks
<1>3. Moves(a) BY <1>1 DEF Moves, TypeOK, Active
<1>4. TasksOf(a)' /\ CoveredBy(a)' /\ JudgedBy(a)'
  BY <1>1 DEF TasksOf, CoveredBy, JudgedBy, TypeOK
<1> QED BY <1>2, <1>3, <1>4, HandlerStepKeeps

(* Listing the unfinished members keeps it.                                *)
LEMMA ListStep == ASSUME IInv, NEW a \in Attempts, List(a) PROVE IInv'
<1> USE DEF List
<1>1. TypeOK /\ Claims /\ TasksOf(a) /\ JudgedBy(a) BY DEF IInv
<1>2. HandlerTypes' BY <1>1 DEF TypeOK, HandlerTypes, Tasks
<1>3. Moves(a) BY <1>1 DEF Moves, Claims, TypeOK
<1>4. TasksOf(a)' /\ JudgedBy(a)' BY <1>1 DEF TasksOf, JudgedBy, TypeOK
<1>5. CoveredBy(a)' BY <1>1 DEF CoveredBy, TypeOK, manifest, operation
<1> QED BY <1>2, <1>3, <1>4, <1>5, HandlerStepKeeps

(* An abort lets everything go but the threads.                            *)
LEMMA AbortStep ==
  ASSUME IInv, NEW a \in Attempts, NEW r \in {"error", "cancelled"}, Abort(a, r),
         run[a] \in {"listing", "gathering", "judged"},
         UNCHANGED <<operation, manifest, lock, selection>>
  PROVE  IInv'
<1> USE DEF Abort
<1>1. TypeOK /\ Claims /\ TasksOf(a) BY DEF IInv
<1>2. \A m \in Members :
        at'[a][m] = IF at[a][m] \in {"submitted", "fetching"} THEN at[a][m] ELSE "out"
  BY <1>1 DEF InThread, TypeOK
<1>3. HandlerTypes' BY <1>1 DEF TypeOK, HandlerTypes, Tasks
<1>4. Moves(a) BY <1>1, <1>2 DEF Moves, TypeOK
<1>5. TasksOf(a)' /\ CoveredBy(a)' /\ JudgedBy(a)'
  BY <1>1, <1>2 DEF TasksOf, CoveredBy, JudgedBy, TypeOK
<1> QED BY <1>3, <1>4, <1>5, HandlerStepKeeps

(* The steps that only move one task of a gathering handler.               *)
LEMMA TaskStep ==
  ASSUME IInv, NEW a \in Attempts, NEW m \in Members, NEW task \in Tasks \ {"waiting"},
         UNCHANGED <<operation, manifest, run, outcome, selection>>,
         lock' \in [Members -> Attempts \cup {None}],
         at[a][m] \notin {"out", "waiting"}, Goes(a, m, task),
         got' \in [Attempts -> [Members -> Verdicts \cup {"none"}]],
         \A b \in Attempts, n \in Members : b # a \/ n # m => got'[b][n] = got[b][n],
         task \in {"claimed", "fetched", "checked"} => run[a] = "gathering",
         task \in {"submitted", "fetching"} => run[a] \in {"gathering", "stopping"},
         task = "out" => run[a] # "gathering",
         task \in {"fetched", "checked"} => got'[a][m] \in Verdicts
  PROVE  IInv'
<1> USE DEF Goes
<1>1. TypeOK /\ Claims /\ TasksOf(a) /\ CoveredBy(a) /\ JudgedBy(a) BY DEF IInv
<1>2. HandlerTypes' BY <1>1 DEF TypeOK, HandlerTypes
<1>3. run[a] \in {"gathering", "stopping"} BY <1>1 DEF TasksOf, TypeOK, Tasks
<1>4. \A b \in Attempts \ {a} : at'[b] = at[b] /\ got'[b] = got[b]
  BY <1>1 DEF TypeOK
<1>5. Moves(a) BY <1>1, <1>3, <1>4 DEF Moves, Claims, TypeOK
<1>6. TasksOf(a)' BY <1>1 DEF TasksOf, TypeOK
<1>7. CoveredBy(a)'
  <2> SUFFICES ASSUME run[a] = "gathering", a = attempts[Wave], NEW n \in Members
               PROVE  \/ state[n] \in Verdicts \/ at'[a][n] = "waiting"
                      \/ at'[a][n] \notin {"out", "waiting"} /\ claim[n] = a
    BY DEF CoveredBy, operation, manifest
  <2>1. CASE n = m BY <1>1, <2>1 DEF CoveredBy, TypeOK
  <2>2. CASE n # m BY <1>1, <2>2 DEF CoveredBy, TypeOK
  <2> QED BY <2>1, <2>2
<1>8. JudgedBy(a)' BY <1>1 DEF JudgedBy, operation, manifest, Finished, Selectable, Current
<1> QED BY <1>2, <1>5, <1>6, <1>7, <1>8, HandlerStepKeeps

(* Checkpoints and fetches keep it, whichever way they end.                *)
LEMMA BeforeFetchStep ==
  ASSUME IInv, NEW a \in Attempts, NEW m \in Members, BeforeFetch(a, m) PROVE IInv'
<1> USE DEF BeforeFetch
<1>1. TypeOK BY DEF IInv
<1>2. CASE Goes(a, m, "submitted") /\ UNCHANGED <<got, run, outcome>>
  BY <1>1, <1>2, TaskStep DEF TypeOK, Tasks
<1>3. CASE Goes(a, m, "checked") /\ Holds(a, m, "rejected") /\ UNCHANGED <<run, outcome>>
  <2>1. /\ got' \in [Attempts -> [Members -> Verdicts \cup {"none"}]]
        /\ got'[a][m] \in Verdicts
        /\ \A b \in Attempts, n \in Members : b # a \/ n # m => got'[b][n] = got[b][n]
    BY <1>1, <1>3 DEF Holds, TypeOK, Verdicts
  <2> QED BY <1>1, <1>3, <2>1, TaskStep DEF TypeOK, Tasks
<1>4. CASE Abort(a, "cancelled") BY <1>4, AbortStep
<1> QED BY <1>2, <1>3, <1>4

LEMMA FetchStartStep ==
  ASSUME IInv, NEW a \in Attempts, NEW m \in Members, FetchStart(a, m) PROVE IInv'
<1> USE DEF FetchStart
<1>1. TypeOK /\ TasksOf(a) BY DEF IInv
<1>2. run[a] \in {"gathering", "stopping"} BY <1>1 DEF TasksOf
<1>3. CASE lock' = [lock EXCEPT ![m] = a] /\ Goes(a, m, "fetching") /\ UNCHANGED got
  <2>1. lock' \in [Members -> Attempts \cup {None}] BY <1>1, <1>3 DEF TypeOK
  <2> QED BY <1>1, <1>2, <1>3, <2>1, TaskStep DEF TypeOK, Tasks
<1>4. CASE run[a] = "gathering" /\ Goes(a, m, "fetched") /\ Holds(a, m, "rejected") /\ UNCHANGED lock
  <2>1. /\ got' \in [Attempts -> [Members -> Verdicts \cup {"none"}]]
        /\ got'[a][m] \in Verdicts
        /\ \A b \in Attempts, n \in Members : b # a \/ n # m => got'[b][n] = got[b][n]
    BY <1>1, <1>4 DEF Holds, TypeOK, Verdicts
  <2> QED BY <1>1, <1>4, <2>1, TaskStep DEF TypeOK, Tasks
<1>5. CASE run[a] = "stopping" /\ Goes(a, m, "out") /\ UNCHANGED <<got, lock>>
  BY <1>1, <1>5, TaskStep DEF TypeOK, Tasks
<1> QED BY <1>2, <1>3, <1>4, <1>5

LEMMA FetchEndStep ==
  ASSUME IInv, NEW a \in Attempts, NEW m \in Members, FetchEnd(a, m) PROVE IInv'
<1> USE DEF FetchEnd
<1>1. TypeOK /\ Claims BY DEF IInv
<1>2. lock' \in [Members -> Attempts \cup {None}] BY <1>1 DEF TypeOK
<1>3. ASSUME run[a] = "gathering", NEW v \in Verdicts, NEW task \in {"fetched", "checked"},
             Holds(a, m, v), Goes(a, m, task), UNCHANGED <<run, outcome>>
      PROVE  IInv'
  <2>1. /\ got' \in [Attempts -> [Members -> Verdicts \cup {"none"}]]
        /\ got'[a][m] \in Verdicts
        /\ \A b \in Attempts, n \in Members : b # a \/ n # m => got'[b][n] = got[b][n]
    BY <1>1, <1>3 DEF Holds, TypeOK
  <2>2. /\ at[a][m] = "fetching" /\ UNCHANGED <<operation, manifest, selection>>
        /\ task \in Tasks \ {"waiting"} /\ task \notin {"submitted", "fetching", "out"}
    BY DEF Tasks
  <2> HIDE DEF FetchEnd
  <2> QED BY <1>2, <1>3, <2>1, <2>2, TaskStep
<1>4. ASSUME run[a] = "gathering", run' = [run EXCEPT ![a] = "stopping"],
             outcome' = [outcome EXCEPT ![a] = "cancelled"],
             at' = [at EXCEPT ![a] =
                     [n \in Members |-> IF n \in InThread(a) \ {m} THEN @[n] ELSE "out"]],
             got' = [got EXCEPT ![a] = [n \in Members |-> "none"]]
      PROVE  IInv'
  <2>1. \A n \in Members :
          at'[a][n] \in {at[a][n], "out"} \cap {"submitted", "fetching", "out"}
    BY <1>1, <1>4 DEF InThread, TypeOK
  <2>2. HandlerTypes' BY <1>1, <1>2, <1>4 DEF TypeOK, HandlerTypes, Tasks
  <2>3. Moves(a) BY <1>1, <1>4, <2>1 DEF Moves, TypeOK
  <2>4. TasksOf(a)' /\ CoveredBy(a)' /\ JudgedBy(a)'
    BY <1>1, <1>4, <2>1 DEF TasksOf, CoveredBy, JudgedBy, TypeOK
  <2> QED BY <2>2, <2>3, <2>4, HandlerStepKeeps
<1>5. CASE run[a] = "stopping" /\ Goes(a, m, "out") /\ UNCHANGED <<run, outcome, got>>
  BY <1>1, <1>2, <1>5, TaskStep DEF TypeOK, Tasks
<1>6. "rejected" \in Verdicts BY DEF Verdicts
<1> QED BY <1>3, <1>4, <1>5, <1>6 DEF LoopIsFree

LEMMA AfterFetchStep ==
  ASSUME IInv, NEW a \in Attempts, NEW m \in Members, AfterFetch(a, m) PROVE IInv'
<1> USE DEF AfterFetch, LoopIsFree
<1>1. TypeOK /\ TasksOf(a) BY DEF IInv
<1>2. ASSUME NEW v \in Verdicts, Goes(a, m, "checked"), Holds(a, m, v), UNCHANGED <<run, outcome>>
      PROVE  IInv'
  <2>1. /\ got' \in [Attempts -> [Members -> Verdicts \cup {"none"}]]
        /\ got'[a][m] \in Verdicts
        /\ \A b \in Attempts, n \in Members : b # a \/ n # m => got'[b][n] = got[b][n]
    BY <1>1, <1>2 DEF Holds, TypeOK
  <2>2. /\ at[a][m] = "fetched" /\ run[a] = "gathering"
        /\ UNCHANGED <<operation, manifest, lock, selection>>
        /\ lock' \in [Members -> Attempts \cup {None}]
        /\ "checked" \in Tasks \ {"waiting"}
    BY <1>1 DEF TypeOK, Tasks
  <2> HIDE DEF AfterFetch, LoopIsFree
  <2> QED BY <1>2, <2>1, <2>2, TaskStep
<1>3. got[a][m] \in Verdicts /\ "rejected" \in Verdicts BY <1>1 DEF TasksOf, Verdicts
<1>4. CASE Abort(a, "cancelled") BY <1>4, AbortStep
<1> QED BY <1>2, <1>3, <1>4

(* So do the ends of a handler: stopped, judged, and the event stage.      *)
LEMMA StageStep ==
  ASSUME IInv, NEW a \in Attempts,
         HandlerError(a) \/ Stopped(a) \/ Judge(a) \/ EventStart(a) \/ EventEnd(a)
  PROVE  IInv'
<1>1. TypeOK /\ Started /\ Claims /\ TasksOf(a) /\ CoveredBy(a) /\ JudgedBy(a) BY DEF IInv
<1>2. CASE HandlerError(a) BY <1>2, AbortStep DEF HandlerError
<1>3. ASSUME run[a] \in {"gathering", "judged", "events", "stopping"},
             UNCHANGED <<operation, manifest, lock, at, got>>,
             run'[a] \in {"judged", "events", "returned"},
             run' = [run EXCEPT ![a] = run'[a]],
             outcome'[a] \in {"succeeded", "partial", "incomplete", "failed", "error", "cancelled"},
             outcome' = [outcome EXCEPT ![a] = outcome'[a]],
             selection'[a] \in SUBSET Members,
             selection' = [selection EXCEPT ![a] = selection'[a]],
             \A m \in Members : at[a][m] = "out",
             JudgedBy(a)'
      PROVE  IInv'
  <2>0. /\ run' \in [Attempts -> {"none", "listing", "gathering", "judged", "events",
                                  "stopping", "returned", "over"}]
        /\ outcome' \in [Attempts -> {"none", "succeeded", "partial", "incomplete",
                                      "failed", "error", "cancelled"}]
        /\ selection' \in [Attempts -> SUBSET Members]
    <3>1. /\ run \in [Attempts -> {"none", "listing", "gathering", "judged", "events",
                                   "stopping", "returned", "over"}]
          /\ outcome \in [Attempts -> {"none", "succeeded", "partial", "incomplete",
                                       "failed", "error", "cancelled"}]
          /\ selection \in [Attempts -> SUBSET Members]
      BY <1>1 DEF TypeOK
    <3> DEFINE r == run'[a]
               o == outcome'[a]
               c == selection'[a]
    <3>2. /\ r \in {"judged", "events", "returned"} /\ run' = [run EXCEPT ![a] = r]
          /\ o \in {"succeeded", "partial", "incomplete", "failed", "error", "cancelled"}
          /\ outcome' = [outcome EXCEPT ![a] = o]
          /\ c \in SUBSET Members /\ selection' = [selection EXCEPT ![a] = c]
      BY <1>3
    <3> HIDE DEF r, o, c
    <3> QED BY <3>1, <3>2
  <2>1. HandlerTypes' BY <1>1, <1>3, <2>0 DEF TypeOK, HandlerTypes
  <2>2. Moves(a) BY <1>1, <1>3 DEF Moves, TypeOK
  <2>3. TasksOf(a)' /\ CoveredBy(a)' BY <1>1, <1>3 DEF TasksOf, CoveredBy, TypeOK
  <2> QED BY <1>3, <2>1, <2>2, <2>3, HandlerStepKeeps
<1>4. CASE Stopped(a)
  <2> USE DEF Stopped
  <2>1. \A m \in Members : at[a][m] = "out"
    BY <1>1, <1>4 DEF InThread, TasksOf, TypeOK, Tasks
  <2>2. JudgedBy(a)'
    BY <1>1, <1>4 DEF JudgedBy, TypeOK, operation, manifest, Finished, Current
  <2>3. selection[a] \in SUBSET Members /\ outcome[a] \in {"error", "cancelled"}
    BY <1>1, <1>4 DEF TypeOK, JudgedBy
  <2> QED BY <1>1, <1>3, <1>4, <2>1, <2>2, <2>3 DEF TypeOK
<1>5. CASE Judge(a)
  <2> USE DEF Judge
  <2>1. CASE ManifestTerminal
    <3>1. JudgedBy(a)'
      BY <1>1, <1>5, <2>1 DEF JudgedBy, TypeOK, operation, manifest, Finished, ManifestTerminal
    <3> QED BY <1>1, <1>3, <1>5, <2>1, <3>1 DEF TypeOK
  <2>2. CASE ~ManifestTerminal
    <3>1. ~Current(a)
      BY <1>1, <1>5, <2>2 DEF CoveredBy, Current, ManifestTerminal, Finished
    <3>2. JudgedBy(a)'
      BY <1>1, <1>5, <2>2, <3>1 DEF JudgedBy, TypeOK, operation, manifest, Finished, Current
    <3> QED BY <1>1, <1>3, <1>5, <2>2, <3>2 DEF TypeOK
  <2> QED BY <2>1, <2>2
<1>6. CASE EventStart(a) \/ EventEnd(a)
  <2> USE DEF EventStart, EventEnd, EventTrouble
  <2>0. run[a] \in {"judged", "events"} BY <1>6
  <2>1. \A m \in Members : at[a][m] = "out"
    <3>1. \A m \in Members : at[a][m] \in Tasks BY <1>1 DEF TypeOK
    <3> HIDE DEF EventStart, EventEnd, EventTrouble
    <3> QED BY <1>1, <2>0, <3>1 DEF TasksOf, Tasks
  <2>2. JudgedBy(a)'
    BY <1>1, <1>6 DEF JudgedBy, TypeOK, operation, manifest, Finished, Selectable
  <2>3. selection'[a] \in SUBSET Members /\ selection' = [selection EXCEPT ![a] = selection'[a]]
    BY <1>1, <1>6 DEF TypeOK, Selectable
  <2>4. /\ run'[a] \in {"events", "returned"} /\ run' = [run EXCEPT ![a] = run'[a]]
        /\ outcome'[a] \in {"succeeded", "partial", "failed", "cancelled"}
        /\ outcome' = [outcome EXCEPT ![a] = outcome'[a]]
    BY <1>1, <1>6 DEF TypeOK, JudgedBy
  <2> QED BY <1>3, <1>6, <2>1, <2>2, <2>3, <2>4
<1> QED BY <1>2, <1>4, <1>5, <1>6

---------------------------------------------------------------------------
(* Steps that write the manifest.                                          *)

(* The claimant of an unfinished member, by right or by taking it over,    *)
(* writes its verdict or marks it as running: the invariant is kept.       *)
LEMMA ManifestStep ==
  ASSUME IInv, NEW a \in Attempts, NEW m \in Members, NEW task \in {"out", "claimed"},
         run[a] = "gathering", UNCHANGED <<operation, lock, run, outcome, selection>>,
         Goes(a, m, task), claim' = [claim EXCEPT ![m] = a],
         state[m] \in Unfinished, Claimable(a, m) \/ claim[m] = a,
         got' \in [Attempts -> [Members -> Verdicts \cup {"none"}]],
         \A b \in Attempts, n \in Members : b # a \/ n # m => got'[b][n] = got[b][n],
         \/ task = "out" /\ \E v \in Verdicts : Write(m, v)
         \/ /\ task = "claimed" /\ HasSlot(a)
            /\ state' = [state EXCEPT ![m] = "running"] /\ UNCHANGED progress
  PROVE  IInv'
<1> USE DEF operation
<1>1. /\ TypeOK /\ Started /\ Claims /\ Fenced /\ ProgressCounts /\ SuccessIsComplete
      /\ \A b \in Attempts : TasksOf(b) /\ CoveredBy(b) /\ JudgedBy(b)
  BY DEF IInv
<1>2. /\ progress' \in 0..Cardinality(Members) /\ ProgressCounts'
      /\ state' \in [Members -> Unfinished \cup Verdicts]
      /\ state'[m] = "running" \/ state'[m] \in Verdicts
      /\ task = "claimed" => state'[m] = "running"
      /\ task = "out" => state'[m] \in Verdicts
      /\ \A n \in Members : n # m => state'[n] = state[n]
  <2>1. CASE task = "out" BY <1>1, <2>1, VerdictIsCounted
  <2>2. CASE task = "claimed"
    <3>1. /\ state' = [state EXCEPT ![m] = "running"] /\ progress' = progress BY <2>2
    <3>2. /\ state' \in [Members -> Unfinished \cup Verdicts] /\ state'[m] = "running"
          /\ \A n \in Members : n # m => state'[n] = state[n]
      BY <1>1, <3>1 DEF TypeOK, Unfinished
    <3>3. Finished' = Finished BY <3>2 DEF Finished, Unfinished, Verdicts
    <3> QED BY <1>1, <2>2, <3>1, <3>2, <3>3 DEF TypeOK, ProgressCounts
  <2> QED BY <2>1, <2>2
<1>3. /\ at' \in [Attempts -> [Members -> Tasks]] /\ at'[a][m] = task
      /\ \A b \in Attempts, n \in Members : b # a \/ n # m => at'[b][n] = at[b][n]
  BY <1>1 DEF Goes, TypeOK, Tasks
<1>4. /\ claim' \in [Members -> Attempts \cup {None}] /\ claim'[m] = a
      /\ \A n \in Members : n # m => claim'[n] = claim[n]
  BY <1>1 DEF TypeOK
<1>5. claim[m] = None \/ claim[m] = a \/ (claim[m] \in Attempts /\ claim[m] < a)
  BY <1>1 DEF Claims, Claimable, TypeOK
<1>6. TypeOK'
  <2>1. \A b \in Attempts \ {a} : InFlight(b)' = InFlight(b) BY <1>3 DEF InFlight
  <2>2. InFlight(a)' \subseteq InFlight(a) \cup {m} BY <1>3 DEF InFlight
  <2>3. task = "out" => InFlight(a)' \subseteq InFlight(a) BY <1>3 DEF InFlight
  <2>4. task = "out" \/ HasSlot(a) OBVIOUS
  <2>5. Cardinality(InFlight(a)') <= Limit BY <1>1, <2>2, <2>3, <2>4, FlightIsBounded
  <2>6. \A b \in Attempts : Cardinality(InFlight(b)') <= Limit BY <1>1, <2>1, <2>5 DEF TypeOK
  <2> QED BY <1>1, <1>2, <1>3, <1>4, <2>6 DEF TypeOK
<1>7. Started' BY <1>1 DEF Started
<1>8. Claims'
  <2>1. ASSUME NEW n \in Members PROVE state'[n] = "pending" <=> claim'[n] = None
    BY <1>1, <1>2, <1>4, <2>1 DEF Claims, Attempts, Verdicts
  <2>2. ASSUME NEW n \in Members, NEW b \in Attempts, claim'[n] = b
        PROVE  run[b] \notin {"none", "listing"} /\ at'[b][n] # "waiting"
    BY <1>1, <1>3, <1>4, <2>2 DEF Claims
  <2> QED BY <2>1, <2>2 DEF Claims
<1>9. Fenced'
  <2> SUFFICES ASSUME NEW b \in Attempts, NEW n \in Members, at'[b][n] \notin {"out", "waiting"}
               PROVE  /\ claim'[n] \in Attempts /\ b <= claim'[n]
                      /\ claim'[n] = b => state'[n] = "running"
    BY DEF Fenced
  <2>1. CASE n # m BY <1>1, <1>2, <1>3, <1>4, <2>1 DEF Fenced
  <2>2. CASE n = m /\ b = a BY <1>2, <1>3, <1>4, <2>2 DEF Attempts
  <2>3. CASE n = m /\ b # a
    <3>1. claim[m] \in Attempts /\ b <= claim[m] BY <1>1, <1>3, <2>3 DEF Fenced
    <3> QED BY <1>4, <1>5, <2>3, <3>1 DEF Attempts
  <2> QED BY <2>1, <2>2, <2>3
<1>10. ASSUME NEW b \in Attempts PROVE TasksOf(b)'
  BY <1>1, <1>3 DEF TasksOf
<1>11. ASSUME NEW b \in Attempts PROVE CoveredBy(b)'
  <2> SUFFICES ASSUME run[b] = "gathering", b = attempts[Wave], NEW n \in Members
               PROVE  \/ state'[n] \in Verdicts \/ at'[b][n] = "waiting"
                      \/ at'[b][n] \notin {"out", "waiting"} /\ claim'[n] = b
    BY DEF CoveredBy
  <2>0. \/ state[n] \in Verdicts \/ at[b][n] = "waiting"
        \/ at[b][n] \notin {"out", "waiting"} /\ claim[n] = b
    BY <1>1 DEF CoveredBy
  <2>1. CASE n # m BY <2>0, <1>2, <1>3, <1>4, <2>1
  <2>2. CASE n = m /\ b = a BY <1>2, <1>3, <1>4, <2>2
  <2>3. CASE n = m /\ b # a
    <3>1. a <= b BY <1>1 DEF Started
    <3>2. claim[m] # b BY <1>5, <2>3, <3>1 DEF Attempts
    <3>3. state[m] \notin Verdicts BY DEF Unfinished, Verdicts
    <3> QED BY <2>0, <1>3, <2>3, <3>2, <3>3
  <2> QED BY <2>1, <2>2, <2>3
<1>12. Finished # Members BY DEF Finished, Unfinished, Verdicts
<1>13. ASSUME NEW b \in Attempts PROVE JudgedBy(b)'
  <2>1. outcome[b] \notin {"succeeded", "partial"} /\ run[b] \notin {"judged", "events"}
    BY <1>1, <1>12 DEF JudgedBy
  <2> QED BY <1>1, <2>1 DEF JudgedBy, Current
<1>14. SuccessIsComplete' BY <1>1, <1>12 DEF SuccessIsComplete
<1> QED BY <1>2, <1>6, <1>7, <1>8, <1>9, <1>10, <1>11, <1>13, <1>14 DEF IInv

(* Claiming a member keeps it; the newest handler passes over a member     *)
(* only when that has a verdict.                                           *)
LEMMA ClaimStep ==
  ASSUME IInv, NEW a \in Attempts, NEW m \in Members, Claim(a, m) PROVE IInv'
<1>1. /\ TypeOK /\ Started /\ Claims /\ TasksOf(a) /\ CoveredBy(a) /\ JudgedBy(a)
  BY DEF IInv
<1>2. /\ run[a] = "gathering" /\ at[a][m] = "waiting" /\ HasSlot(a)
      /\ UNCHANGED <<operation, lock, run, outcome, got, selection>>
  BY DEF Claim, LoopIsFree
<1>3. CASE ~Claimable(a, m) /\ Goes(a, m, "out") /\ UNCHANGED manifest
  <2>1. at' = [at EXCEPT ![a][m] = "out"] BY <1>3 DEF Goes
  <2>2. HandlerTypes' BY <1>1, <1>2, <2>1 DEF TypeOK, HandlerTypes, Tasks
  <2>3. Moves(a) BY <1>1, <1>2, <2>1 DEF Moves, Claims, TypeOK
  <2>4. TasksOf(a)' /\ JudgedBy(a)'
    BY <1>1, <1>2, <1>3, <2>1
    DEF TasksOf, JudgedBy, TypeOK, manifest, operation, Finished, Selectable, Current
  <2>5. a = attempts[Wave] => state[m] \in Verdicts
    <3> SUFFICES ASSUME a = attempts[Wave], state[m] \notin Verdicts PROVE FALSE
      OBVIOUS
    <3>1. state[m] = "running" /\ claim[m] # None
      BY <1>1, <1>3 DEF Claims, Claimable, TypeOK, Unfinished
    <3>2. claim[m] \in Attempts /\ run[claim[m]] # "none" /\ claim[m] # a
      BY <1>1, <1>2, <3>1 DEF Claims, TypeOK
    <3>3. claim[m] < a BY <1>1, <3>2 DEF Started, Attempts
    <3> QED BY <1>3, <3>1, <3>3 DEF Claimable
  <2>6. CoveredBy(a)'
    BY <1>1, <1>2, <1>3, <2>1, <2>5 DEF CoveredBy, TypeOK, manifest, operation
  <2> QED BY <1>2, <1>3, <2>2, <2>3, <2>4, <2>6, HandlerStepKeeps
<1>4. CASE Claimable(a, m) /\ claim' = [claim EXCEPT ![m] = a]
  <2>1. state[m] \in Unfinished BY <1>4 DEF Claimable, Unfinished
  <2>2. got' \in [Attempts -> [Members -> Verdicts \cup {"none"}]] BY <1>1, <1>2 DEF TypeOK
  <2>3. CASE Write(m, "rejected") /\ Goes(a, m, "out")
    <3>1. "rejected" \in Verdicts BY DEF Verdicts
    <3> QED BY <1>2, <1>4, <2>1, <2>2, <2>3, <3>1, ManifestStep
  <2>4. CASE /\ state' = [state EXCEPT ![m] = "running"] /\ Goes(a, m, "claimed")
             /\ UNCHANGED progress
    BY <1>2, <1>4, <2>1, <2>2, <2>4, ManifestStep
  <2> QED BY <1>4, <2>3, <2>4 DEF Claim
<1> QED BY <1>3, <1>4 DEF Claim

(* Finishing a member keeps it, with and without the claim.                *)
LEMMA FinishMemberStep ==
  ASSUME IInv, NEW a \in Attempts, NEW m \in Members, FinishMember(a, m) PROVE IInv'
<1>1. TypeOK /\ Fenced /\ TasksOf(a) /\ CoveredBy(a) /\ JudgedBy(a) BY DEF IInv
<1>2. /\ run[a] = "gathering" /\ at[a][m] = "checked"
      /\ Goes(a, m, "out") /\ Holds(a, m, "none")
      /\ UNCHANGED <<operation, lock, run, outcome, selection>>
  BY DEF FinishMember
<1>3. /\ got' \in [Attempts -> [Members -> Verdicts \cup {"none"}]]
      /\ \A b \in Attempts, n \in Members : b # a \/ n # m => got'[b][n] = got[b][n]
  BY <1>1, <1>2 DEF Holds, TypeOK
<1>4. CASE claim[m] = a
  <2>1. Write(m, got[a][m]) /\ claim' = claim BY <1>4 DEF FinishMember, HoldsClaim
  <2>2. claim' = [claim EXCEPT ![m] = a] BY <1>1, <1>4, <2>1 DEF TypeOK
  <2>3. state[m] \in Unfinished BY <1>1, <1>2, <1>4 DEF Fenced, Unfinished
  <2>4. got[a][m] \in Verdicts BY <1>1, <1>2 DEF TasksOf
  <2> QED BY <1>2, <1>3, <1>4, <2>1, <2>2, <2>3, <2>4, ManifestStep
<1>5. CASE claim[m] # a
  <2>1. UNCHANGED manifest BY <1>5 DEF FinishMember, HoldsClaim
  <2>2. at' = [at EXCEPT ![a][m] = "out"] BY <1>2 DEF Goes
  <2>3. HandlerTypes' BY <1>1, <1>2, <1>3, <2>2 DEF TypeOK, HandlerTypes, Tasks
  <2>4. \A b \in Attempts \ {a} : got'[b] = got[b] BY <1>1, <1>2 DEF Holds, TypeOK
  <2>5. Moves(a)
    <3>1. \A n \in Members : at[a][n] = "waiting" => claim[n] # a BY DEF IInv, Claims
    <3> QED BY <1>1, <1>2, <2>2, <2>4, <3>1 DEF Moves, TypeOK
  <2>6. TasksOf(a)' BY <1>1, <1>2, <1>3, <2>2 DEF TasksOf, TypeOK
  <2>7. CoveredBy(a)'
    BY <1>1, <1>2, <1>5, <2>1, <2>2 DEF CoveredBy, TypeOK, manifest, operation
  <2>8. JudgedBy(a)'
    BY <1>1, <1>2, <2>1 DEF JudgedBy, manifest, operation, Finished, Selectable, Current
  <2> QED BY <1>2, <2>1, <2>3, <2>5, <2>6, <2>7, <2>8, HandlerStepKeeps
<1> QED BY <1>4, <1>5

---------------------------------------------------------------------------
(* Every step of the wave keeps the inductive invariant.                   *)
LEMMA NextIInv == IInv /\ [Next]_vars => IInv'
<1> SUFFICES ASSUME IInv, [Next]_vars PROVE IInv'
  OBVIOUS
<1>1. CASE UNCHANGED vars
  <2>1. \A a \in Attempts : InFlight(a)' = InFlight(a)
    BY <1>1 DEF InFlight, vars, handler
  <2>2. TypeOK' /\ Started' /\ Claims' /\ Fenced' /\ ProgressCounts' /\ SuccessIsComplete'
    BY <1>1, <2>1
    DEF IInv, vars, operation, manifest, handler, TypeOK, Started, Claims, Fenced,
        ProgressCounts, SuccessIsComplete, Finished
  <2>3. ASSUME NEW a \in Attempts PROVE TasksOf(a)' /\ CoveredBy(a)' /\ JudgedBy(a)'
    <3>1. TasksOf(a) /\ CoveredBy(a) /\ JudgedBy(a) BY DEF IInv
    <3> QED BY <1>1, <3>1 DEF vars, operation, manifest, handler, TasksOf, CoveredBy,
               JudgedBy, Finished, Selectable, Current
  <2> QED BY <2>2, <2>3 DEF IInv
<1>2. CASE Lease BY <1>2, LeaseStep
<1>3. CASE Enqueue \/ RequestCancel
  <2>1. 1 \in Attempts BY DEF Attempts
  <2> QED BY <1>3, <2>1, QueueSteps
<1>4. ASSUME NEW a \in Attempts, Finish(a) \/ MonitorError(a) \/ Die(a) PROVE IInv'
  BY <1>4, QueueSteps, DieStep
<1>5. ASSUME NEW a \in Attempts, HandlerStep(a) PROVE IInv'
  <2>1. ASSUME NEW m \in Members, MemberStep(a, m) PROVE IInv'
    BY <2>1, ClaimStep, BeforeFetchStep, FetchStartStep, FetchEndStep, AfterFetchStep,
       FinishMemberStep DEF MemberStep
  <2> QED BY <1>5, <2>1, ListStep, StageStep DEF HandlerStep
<1> QED BY <1>1, <1>2, <1>3, <1>4, <1>5 DEF Next

(* The inductive invariant holds in every reachable state.                 *)
THEOREM Invariance == Spec => []IInv
BY InitIInv, NextIInv, PTL DEF Spec

(* Types, the bound of the semaphores, progress, the frozen manifest of    *)
(* the event stage, the verdict of the wave, and that an incomplete        *)
(* manifest never decides.                                                 *)
THEOREM SoundManifest == Spec => []ManifestIsSound
<1>1. IInv => ManifestIsSound
  BY DEF IInv, ManifestIsSound, EventsOnFrozenManifest, IncompleteNeverDecides, JudgedBy
<1> QED BY <1>1, Invariance, PTL

(* Who writes a member is its claimant, and it has no verdict yet.         *)
LEMMA WritersHoldTheClaim ==
  ASSUME IInv, [Next]_vars, NEW m \in Members, state'[m] # state[m] \/ claim'[m] # claim[m]
  PROVE  \E a \in Attempts :
           /\ state[m] \in Unfinished /\ (claim[m] = None \/ claim[m] <= a)
           /\ \A b \in Attempts, n \in Members : at'[b][n] # at[b][n] => b = a
<1>1. TypeOK /\ Claims /\ Fenced BY DEF IInv
<1>2. ~UNCHANGED <<state, claim>> OBVIOUS
<1>3. PICK a \in Attempts, n \in Members : Claim(a, n) \/ FinishMember(a, n)
  BY <1>2
  DEF Next, HandlerStep, MemberStep, vars, manifest, handler, Enqueue, RequestCancel, Lease,
      Finish, MonitorError, Die, List, HandlerError, BeforeFetch, FetchStart, FetchEnd,
      AfterFetch, Stopped, Judge, EventStart, EventEnd
<1>4. /\ run[a] = "gathering" /\ \E task \in Tasks : Goes(a, n, task)
      /\ state[n] \in Unfinished /\ (claim[n] = None \/ claim[n] <= a)
  <2>1. CASE FinishMember(a, n)
    <3>1. at[a][n] = "checked" /\ claim[n] = a
      BY <1>2, <2>1 DEF FinishMember, HoldsClaim, manifest
    <3>2. state[n] = "running" BY <1>1, <3>1 DEF Fenced
    <3> QED BY <2>1, <3>1, <3>2 DEF FinishMember, Unfinished, Attempts, Tasks
  <2>2. CASE Claim(a, n)
    <3>1. Claimable(a, n) BY <1>2, <2>2 DEF Claim, manifest
    <3>2. state[n] \in Unfinished /\ (claim[n] = None \/ (claim[n] \in Attempts /\ claim[n] < a))
      BY <1>1, <3>1 DEF Claimable, Unfinished, Claims, TypeOK
    <3> QED BY <2>2, <3>2 DEF Claim, LoopIsFree, Attempts, Tasks
  <2> QED BY <1>3, <2>1, <2>2
<1>5. \A k \in Members : k # n => state'[k] = state[k] /\ claim'[k] = claim[k]
  BY <1>1, <1>3 DEF Claim, FinishMember, Write, manifest, TypeOK
<1>6. n = m BY <1>5
<1>7. \A b \in Attempts, k \in Members : at'[b][k] # at[b][k] => b = a
  BY <1>1, <1>4 DEF Goes, TypeOK
<1> QED BY <1>4, <1>6, <1>7

(* Verdicts are final, and no attempt writes over the claim of a later one.*)
THEOREM FencedVerdicts == Spec => VerdictsAreFenced
<1>1. ASSUME IInv, [Next]_vars, NEW m \in Members, state[m] \in Verdicts
      PROVE  state'[m] = state[m] /\ claim'[m] = claim[m]
  BY <1>1, WritersHoldTheClaim DEF Unfinished, Verdicts
<1>2. ASSUME IInv, [Next]_vars, NEW a \in Attempts, NEW m \in Members,
             at[a][m] # at'[a][m], state[m] # state'[m] \/ claim[m] # claim'[m]
      PROVE  claim[m] = None \/ claim[m] <= a
  BY <1>2, WritersHoldTheClaim
<1>3. IInv /\ [Next]_vars =>
        [\A m \in Members : state[m] \in Verdicts =>
           state'[m] = state[m] /\ claim'[m] = claim[m]]_vars
  BY <1>1
<1>4. IInv /\ [Next]_vars =>
        [\A a \in Attempts, m \in Members :
           at[a][m] # at'[a][m] /\ (state[m] # state'[m] \/ claim[m] # claim'[m])
             => claim[m] = None \/ claim[m] <= a]_vars
  BY <1>2
<1> QED BY <1>3, <1>4, Invariance, PTL
        DEF Spec, VerdictsAreFenced, VerdictsAreFinal, OldAttemptsAreFenced

---------------------------------------------------------------------------
(* The newest of some posts.                                               *)

(* Posts have an oldest and a newest one.                                  *)
LEMMA Extremes ==
  ASSUME NEW n \in Nat, NEW S \in SUBSET (1..n), S # {}
  PROVE  (\E m \in S : \A h \in S : m <= h) /\ (\E m \in S : \A h \in S : h <= m)
<1> DEFINE R == OpToRel(<, Nat)
<1>1. IsWellFoundedOn(R, Nat)
  BY NatLessThanWellFounded
<1>2. ASSUME NEW T \in SUBSET Nat, T # {} PROVE \E m \in T : \A h \in T : m <= h
  <2>1. \E x \in T : \A y \in T : ~(<<y, x>> \in R)
    BY ONLY <1>1, <1>2, T \in SUBSET Nat, WFMin, Zenon
  <2>2. PICK x \in T : \A y \in T : ~(<<y, x>> \in R)
    BY <2>1
  <2>3. ASSUME NEW h \in T PROVE x <= h
    <3>1. x \in Nat /\ h \in Nat /\ <<h, x>> \notin R
      BY <2>2
    <3> QED BY <3>1 DEF OpToRel
  <2> QED BY <2>3
<1>3. S \subseteq Nat
  OBVIOUS
<1>4. \E m \in S : \A h \in S : m <= h
  BY <1>2, <1>3
<1>5. \E m \in S : \A h \in S : h <= m
  <2> DEFINE gaps == {n - i : i \in S}
  <2>1. gaps \in SUBSET Nat /\ gaps # {}
    <3>1. ASSUME NEW i \in S PROVE n - i \in Nat
      <4>1. i \in Int /\ i <= n
        OBVIOUS
      <4> QED BY ONLY <4>1, n \in Nat
    <3>2. gaps \subseteq Nat
      BY ONLY <3>1
    <3>3. gaps # {}
      BY ONLY S # {}
    <3> QED BY <3>2, <3>3
  <2>2. PICK g \in gaps : \A h \in gaps : g <= h
    BY <1>2, <2>1
  <2>3. PICK m \in S : g = n - m
    OBVIOUS
  <2>4. ASSUME NEW h \in S PROVE h <= m
    <3>1. n - h \in gaps
      OBVIOUS
    <3>2. n - m <= n - h
      BY <2>2, <2>3, <3>1
    <3> QED BY <3>2
  <2> QED BY <2>4
<1> QED BY <1>4, <1>5

LEMMA OldestOf ==
  ASSUME NEW n \in Nat, NEW S \in SUBSET (1..n), S # {}
  PROVE  Min(S) \in S /\ \A h \in S : Min(S) <= h
BY Extremes DEF Min

Counted(S) == IsFiniteSet(S) /\ Cardinality(S) \in Nat
LEMMA SomeCounted ==
  ASSUME NEW n \in Nat, NEW S \in SUBSET (1..n) PROVE Counted(S)
<1>1. IsFiniteSet(1..n)
  BY FS_Interval
<1> QED BY <1>1, FS_Subset, FS_CardinalityType DEF Counted

LEMMA FewerCounted ==
  ASSUME NEW n \in Nat, NEW S \in SUBSET (1..n), NEW T \in SUBSET S
  PROVE  Counted(S) /\ Counted(T) /\ Cardinality(T) <= Cardinality(S)
         /\ (S # T => Cardinality(T) < Cardinality(S))
<1>1. Counted(S) /\ Counted(T)
  BY SomeCounted
<1>2. Cardinality(T) <= Cardinality(S) /\ (Cardinality(S) = Cardinality(T) => S = T)
  BY <1>1, FS_Subset DEF Counted
<1> QED BY <1>1, <1>2 DEF Counted

Above(i, T) == {j \in T : j > i}

(* They are closed upwards, and the oldest posts are left.                 *)
LEMMA NewestAreAbove ==
  ASSUME NEW m \in Nat, NEW T \in SUBSET (1..m), NEW n \in Nat
  PROVE  /\ NewestOf(n, T) \in SUBSET T
         /\ \A i \in NewestOf(n, T), j \in T : j >= i => j \in NewestOf(n, T)
         /\ \A i \in T : i \in NewestOf(n, T) <=> Cardinality(Above(i, T)) < n
<1>1. NewestOf(n, T) \in SUBSET T
  BY DEF NewestOf
<1>2. \A i \in T : i \in NewestOf(n, T) <=> Cardinality(Above(i, T)) < n
  BY DEF NewestOf, Above
<1>3. ASSUME NEW i \in NewestOf(n, T), NEW j \in T, j >= i PROVE j \in NewestOf(n, T)
  <2>0. i \in 1..m /\ j \in 1..m
    BY <1>1
  <2>a. ASSUME NEW h \in T, h > j PROVE h > i
    <3>1. h \in Int /\ j \in Int /\ i \in Int /\ j >= i
      BY <2>0, <1>3
    <3> QED BY <3>1, <2>a
  <2>1. Above(j, T) \in SUBSET Above(i, T) /\ Above(i, T) \in SUBSET (1..m)
    BY <2>a DEF Above
  <2>2. /\ Cardinality(Above(j, T)) \in Nat /\ Cardinality(Above(i, T)) \in Nat
        /\ Cardinality(Above(j, T)) <= Cardinality(Above(i, T))
    BY <2>1, FewerCounted DEF Counted
  <2>3. Cardinality(Above(i, T)) < n
    BY <1>1, <1>2
  <2> QED BY <1>2, <2>2, <2>3
<1> QED BY <1>1, <1>2, <1>3

(* One of some is among the newest.                                        *)
LEMMA OneIsNewest ==
  ASSUME NEW m \in Nat, NEW T \in SUBSET (1..m), NEW n \in Nat \ {0}, T # {}
  PROVE  NewestOf(n, T) # {}
<1>1. PICK top \in T : \A h \in T : h <= top
  BY Extremes
<1>2. Above(top, T) = {}
  <2>1. top \in Nat /\ \A h \in T : h \in Nat /\ h <= top
    BY <1>1
  <2>2. \A h \in T : ~(h > top)
    BY <2>1
  <2> QED BY <2>2 DEF Above
<1>3. Cardinality(Above(top, T)) < n
  BY <1>2, FS_EmptySet
<1> QED BY <1>3, NewestAreAbove

(* There are as many as asked for, if one is left.                         *)
LEMMA NewestAreMany ==
  ASSUME NEW m \in Nat, NEW T \in SUBSET (1..m), NEW n \in Nat, NEW x \in T \ NewestOf(n, T)
  PROVE  Cardinality(NewestOf(n, T)) >= n
<1> DEFINE rest == T \ NewestOf(n, T)
<1>1. PICK y \in rest : \A h \in rest : h <= y
  BY Extremes
<1>2. Above(y, T) \in SUBSET NewestOf(n, T)
  <2>1. y \in Nat /\ \A h \in T : h \in Nat /\ (h \in rest => h <= y)
    BY <1>1
  <2>2. \A h \in T : h > y => h \in NewestOf(n, T)
    BY <2>1
  <2> QED BY <2>2 DEF Above
<1>3. Cardinality(Above(y, T)) >= n
  <2>1. ~(Cardinality(Above(y, T)) < n)
    BY NewestAreAbove
  <2>2. Cardinality(Above(y, T)) \in Nat
    BY SomeCounted DEF Above, Counted
  <2> QED BY <2>1, <2>2
<1>4. NewestOf(n, T) \in SUBSET (1..m)
  BY NewestAreAbove
<1>5. /\ Cardinality(Above(y, T)) <= Cardinality(NewestOf(n, T))
      /\ Cardinality(Above(y, T)) \in Nat /\ Cardinality(NewestOf(n, T)) \in Nat
  BY <1>2, <1>4, FewerCounted DEF Counted
<1> QED BY <1>3, <1>5

(* All are, of as many as asked for.                                       *)
LEMMA AllAreNewest ==
  ASSUME NEW m \in Nat, NEW U \in SUBSET (1..m), NEW n \in Nat
  PROVE  NewestOf(n, NewestOf(n, U)) = NewestOf(n, U)
<1> DEFINE T == NewestOf(n, U)
<1> SUFFICES ASSUME NEW i \in T PROVE Cardinality(Above(i, T)) < n
  BY DEF NewestOf, Above
<1>1. T \in SUBSET U /\ Cardinality(Above(i, U)) < n
  BY NewestAreAbove
<1>2. Above(i, T) \in SUBSET Above(i, U) /\ Above(i, U) \in SUBSET (1..m)
  BY <1>1 DEF Above
<1>3. /\ Cardinality(Above(i, T)) <= Cardinality(Above(i, U))
      /\ Cardinality(Above(i, T)) \in Nat /\ Cardinality(Above(i, U)) \in Nat
  BY <1>2, FewerCounted DEF Counted
<1> QED BY <1>1, <1>3

(* The page after the newest k pages ends where k + 1 pages end.           *)
LEMMA NextPage ==
  ASSUME NEW m \in Nat, NEW T \in SUBSET (1..m), NEW n \in Nat, NEW size \in Nat,
         NEW i \in T, i \notin NewestOf(n, T), i \notin NewestOf(size, T \ NewestOf(n, T))
  PROVE  i \notin NewestOf(n + size, T)
<1> DEFINE before == NewestOf(n, T)
           rest == T \ before
<1>1. before \in SUBSET T /\ \A b \in before : b > i
  <2>1. before \in SUBSET T /\ \A b \in before : i >= b => i \in before
    BY NewestAreAbove
  <2>2. \A t \in T : t \in Nat
    OBVIOUS
  <2>3. i \in Nat /\ \A b \in before : b \in Nat
    BY <2>1, <2>2
  <2> QED BY <2>1, <2>3
<1>2. Above(i, T) = before \cup Above(i, rest) /\ before \cap Above(i, rest) = {}
  BY <1>1 DEF Above
<1>3. Cardinality(before) >= n
  BY NewestAreMany
<1>4. ~(Cardinality(Above(i, rest)) < size)
  <2>1. rest \in SUBSET (1..m) /\ i \in rest
    OBVIOUS
  <2>2. i \notin NewestOf(size, rest)
    OBVIOUS
  <2> HIDE DEF rest, before
  <2> QED BY <2>1, <2>2, NewestAreAbove
<1>5. Counted(before) /\ Counted(Above(i, rest))
  BY <1>1, SomeCounted DEF Above
<1> HIDE DEF before, rest
<1>6. Cardinality(Above(i, T)) = Cardinality(before) + Cardinality(Above(i, rest)) - Cardinality({})
  BY <1>2, <1>5, FS_Union DEF Counted
<1>7. ~(Cardinality(Above(i, T)) < n + size)
  BY <1>3, <1>4, <1>5, <1>6, FS_EmptySet DEF Counted
<1>8. n + size \in Nat
  OBVIOUS
<1> QED BY ONLY m \in Nat, T \in SUBSET (1..m), i \in T, <1>7, <1>8, NewestAreAbove

(* What is new on top takes the place of what was newest.                  *)
LEMMA NewOnTop ==
  ASSUME NEW m \in Nat, NEW T \in SUBSET (1..m), NEW n \in Nat, NEW new \in (1..m) \ T
  PROVE  NewestOf(n, T \cup {new}) \subseteq NewestOf(n, T) \cup {new}
<1> SUFFICES ASSUME NEW i \in NewestOf(n, T \cup {new}), i # new PROVE i \in NewestOf(n, T)
  OBVIOUS
<1>1. T \cup {new} \in SUBSET (1..m)
  OBVIOUS
<1>2. i \in T /\ Cardinality(Above(i, T \cup {new})) < n
  <2>1. NewestOf(n, T \cup {new}) \in SUBSET (T \cup {new})
    BY DEF NewestOf
  <2>2. i \in T \cup {new} /\ i # new
    BY <2>1
  <2>3. i \in NewestOf(n, T \cup {new})
    OBVIOUS
  <2> QED BY <2>2, <2>3 DEF NewestOf, Above
<1>3. Above(i, T) \in SUBSET Above(i, T \cup {new}) /\ Above(i, T \cup {new}) \in SUBSET (1..m)
  BY DEF Above
<1>4. /\ Cardinality(Above(i, T)) <= Cardinality(Above(i, T \cup {new}))
      /\ Cardinality(Above(i, T)) \in Nat /\ Cardinality(Above(i, T \cup {new})) \in Nat
  BY <1>3, FewerCounted DEF Counted
<1>5. Cardinality(Above(i, T)) < n
  BY <1>2, <1>4
<1> QED BY <1>2, <1>5 DEF NewestOf, Above

---------------------------------------------------------------------------
(* The walks of the platforms.                                             *)

HIDE WaveAssumption
USE PagesAssumption

Places == [at : Nat, size : Nat, home : BOOLEAN]
PageTypes ==
  /\ platform \in Platforms \cup {"none"}
  /\ posts \in Seq(Kinds) /\ withdrawn \subseteq DOMAIN posts
  /\ place \in Places /\ tag \in (SUBSET DOMAIN posts) \cup {NoTag}
  /\ walk \in 0..Len(posts) /\ floor \in 0..Len(posts) /\ shifted \in BOOLEAN
  /\ platform = "none" => posts = <<>> /\ place = NoPlace /\ tag = NoTag

(* A walk that goes on has come down to the floor: none of the posts below *)
(* is passed over by the next page.                                        *)
PlaceOK ==
  \/ place = NoPlace /\ floor = 0
  \/ /\ place.at > 0 /\ place.size > 0 /\ platform \in Cursored /\ floor > 0
     /\ platform # "github" => place.at = floor
     /\ platform = "github" /\ ~shifted =>
          \A id \in Shown : id < floor => id \notin NewestOf((place.at - 1) * place.size, Shown)

(* The page of the tag was kept, but for what the limit left.              *)
TagOK == tag # NoTag => \A id \in tag : Usable(platform, posts[id]) => id \in kept \cup dropped

PagesInv == PageTypes /\ PlaceOK /\ WalkIsGapless /\ TagOK /\ LimitsAreAsked

LEMMA PageInitInv == PageInit => PagesInv
<1> SUFFICES ASSUME PageInit PROVE PagesInv
  OBVIOUS
<1>1. /\ platform = "none" /\ posts = <<>> /\ withdrawn = {} /\ place = NoPlace /\ tag = NoTag
      /\ walk = 0 /\ floor = 0 /\ dropped = {} /\ shifted = FALSE
  BY DEF PageInit
<1>2. posts \in Seq(Kinds) /\ Len(posts) = 0 /\ NoPlace \in Places
  BY <1>1 DEF NoPlace, Places
<1>3. PageTypes
  <2>1. 0 \in 0..Len(posts)
    BY <1>2
  <2>2. {} \subseteq DOMAIN posts /\ NoTag \in (SUBSET DOMAIN posts) \cup {NoTag}
    OBVIOUS
  <2> QED BY ONLY <1>1, <1>2, <2>1, <2>2 DEF PageTypes
<1>4. PlaceOK /\ TagOK /\ LimitsAreAsked
  BY <1>1 DEF PlaceOK, TagOK, LimitsAreAsked
<1>5. "none" \notin Cursored
  BY DEF Cursored
<1>6. WalkIsGapless
  BY <1>1, <1>5 DEF WalkIsGapless
<1> QED BY <1>3, <1>4, <1>6 DEF PagesInv

LEMMA PostsAreNumbered ==
  ASSUME PageTypes
  PROVE  /\ Len(posts) \in Nat /\ DOMAIN posts = 1..Len(posts)
         /\ Shown \in SUBSET (1..Len(posts)) /\ \A id \in Shown : id \in Nat /\ id > 0
<1>1. Len(posts) \in Nat /\ DOMAIN posts = 1..Len(posts)
  BY DEF PageTypes
<1> QED BY <1>1 DEF Shown

(* Nothing changes but what is known of the walk is forgotten, or nothing. *)
LEMMA ForgetKeeps ==
  ASSUME PagesInv, UNCHANGED <<platform, posts, withdrawn, kept>>,
         \/ UNCHANGED <<remembered, walk, floor, dropped, shifted>>
         \/ /\ platform # "none" /\ place' = NoPlace /\ walk' = 0 /\ floor' = 0
            /\ \/ tag' \in {NoTag, {}} /\ dropped' = {}
               \/ tag' = tag /\ dropped' = dropped
            /\ shifted' = FALSE
  PROVE  PagesInv'
<1>1. PageTypes /\ PlaceOK /\ WalkIsGapless /\ TagOK /\ LimitsAreAsked
  BY DEF PagesInv
<1>2. CASE UNCHANGED <<remembered, walk, floor, dropped, shifted>>
  <2>1. UNCHANGED <<place, tag>>
    BY <1>2 DEF remembered
  <2>2. PageTypes'
    BY <1>1, <1>2, <2>1 DEF PageTypes
  <2>3. PlaceOK' /\ WalkIsGapless' /\ TagOK' /\ LimitsAreAsked'
    BY <1>1, <1>2, <2>1 DEF PlaceOK, WalkIsGapless, TagOK, LimitsAreAsked, Shown
  <2> QED BY <2>2, <2>3 DEF PagesInv
<1>3. CASE /\ platform # "none" /\ place' = NoPlace /\ walk' = 0 /\ floor' = 0
           /\ \/ tag' \in {NoTag, {}} /\ dropped' = {}
              \/ tag' = tag /\ dropped' = dropped
           /\ shifted' = FALSE
  <2>1. PageTypes'
    <3>1. NoPlace \in Places
      BY DEF NoPlace, Places
    <3>2. 0 \in 0..Len(posts)
      BY <1>1, PostsAreNumbered
    <3>a. tag \in (SUBSET DOMAIN posts) \cup {NoTag}
      BY <1>1 DEF PageTypes
    <3>b. tag' \in (SUBSET DOMAIN posts) \cup {NoTag}
      <4>1. tag' \in {NoTag, {}, tag}
        BY <1>3
      <4>2. {} \in SUBSET DOMAIN posts
        OBVIOUS
      <4> QED BY ONLY <3>a, <4>1, <4>2, Zenon
    <3>3. tag' \in (SUBSET DOMAIN posts') \cup {NoTag} /\ shifted' \in BOOLEAN
      BY <1>3, <3>b
    <3>4. platform # "none"
      BY <1>3
    <3>5. posts \in Seq(Kinds) /\ withdrawn \subseteq DOMAIN posts /\ platform \in Platforms \cup {"none"}
      BY <1>1 DEF PageTypes
    <3> QED BY ONLY <1>3, <3>1, <3>2, <3>3, <3>4, <3>5, UNCHANGED <<platform, posts, withdrawn, kept>>
            DEF PageTypes
  <2>2. PlaceOK'
    BY <1>3 DEF PlaceOK
  <2>3. WalkIsGapless'
    <3>1. Shown' = Shown
      BY DEF Shown
    <3>2. \A id \in Shown : ~(id <= 0)
      BY <1>1, PostsAreNumbered
    <3> QED BY <1>3, <3>1, <3>2 DEF WalkIsGapless
  <2>4. TagOK' /\ LimitsAreAsked'
    <3>1. CASE tag' \in {NoTag, {}} /\ dropped' = {}
      BY <3>1 DEF TagOK, LimitsAreAsked
    <3>2. CASE tag' = tag /\ dropped' = dropped
      BY <1>1, <3>2 DEF TagOK, LimitsAreAsked
    <3> QED BY <1>3, <3>1, <3>2
  <2> QED BY <2>1, <2>2, <2>3, <2>4 DEF PagesInv
<1> QED BY <1>2, <1>3

(* A new post is above what the walk began with.                           *)
LEMMA PostKeeps ==
  ASSUME PagesInv, Post PROVE PagesInv'
<1>1. PageTypes /\ PlaceOK /\ WalkIsGapless /\ TagOK /\ LimitsAreAsked
  BY DEF PagesInv
<1>2. PICK k \in Kinds : posts' = Append(posts, k)
  BY DEF Post
<1>3. /\ platform # "none"
      /\ UNCHANGED <<platform, withdrawn, place, tag, kept, walk, floor, dropped, shifted>>
  BY DEF Post, remembered
<1> DEFINE new == Len(posts) + 1
<1>4. /\ Len(posts) \in Nat /\ DOMAIN posts = 1..Len(posts)
      /\ Shown \in SUBSET (1..Len(posts)) /\ \A id \in Shown : id \in Nat /\ id > 0
  BY <1>1, PostsAreNumbered
<1>5. /\ posts' \in Seq(Kinds) /\ Len(posts') = new /\ DOMAIN posts' = 1..new
      /\ \A id \in DOMAIN posts : posts'[id] = posts[id]
  <2>1. posts \in Seq(Kinds)
    BY <1>1 DEF PageTypes
  <2> QED BY <2>1, <1>2, AppendProperties
<1>6. Shown' = Shown \cup {new} /\ new \in (1..new) \ Shown /\ Shown \in SUBSET (1..new)
  <2>1. new \notin withdrawn
    BY <1>1, <1>4 DEF PageTypes
  <2>2. 1..new = (1..Len(posts)) \cup {new}
    BY <1>4
  <2> QED BY <2>1, <2>2, <1>3, <1>4, <1>5 DEF Shown
<1>7. walk <= Len(posts) /\ floor <= Len(posts) /\ walk \in Nat /\ floor \in Nat
  BY <1>1, <1>4 DEF PageTypes
<1>8. PageTypes'
  <2>1. SUBSET (DOMAIN posts) \subseteq SUBSET (1..new) /\ withdrawn \subseteq 1..new
    <3>1. withdrawn \subseteq DOMAIN posts
      BY <1>1 DEF PageTypes
    <3>2. 1..Len(posts) \subseteq 1..new
      BY <1>4
    <3> QED BY <1>4, <3>1, <3>2
  <2>2. walk \in 0..new /\ floor \in 0..new
    BY <1>4, <1>7
  <2> HIDE DEF new
  <2> QED BY <1>1, <1>3, <1>5, <2>1, <2>2 DEF PageTypes
<1>9. PlaceOK'
  <2>1. CASE place = NoPlace /\ floor = 0
    BY <2>1, <1>3 DEF PlaceOK
  <2>2. CASE ~(place = NoPlace /\ floor = 0)
    <3>1. ASSUME platform = "github", ~shifted, NEW id \in Shown', id < floor
          PROVE  id \notin NewestOf((place.at - 1) * place.size, Shown')
      <4>1. id \in Shown /\ id # new
        BY <3>1, <1>4, <1>6, <1>7
      <4>2. PICK n \in Nat : n = (place.at - 1) * place.size
        <5>1. place.at - 1 \in Nat /\ place.size \in Nat
          BY <1>1, <2>2 DEF PlaceOK, PageTypes, Places
        <5> QED BY <5>1
      <4>3. id \notin NewestOf(n, Shown)
        BY <1>1, <2>2, <3>1, <4>1, <4>2 DEF PlaceOK
      <4>4. NewestOf(n, Shown \cup {new}) \subseteq NewestOf(n, Shown) \cup {new}
        <5>1. new \in Nat
          BY <1>4
        <5> HIDE DEF new
        <5> QED BY <5>1, <1>6, <4>2, NewOnTop
      <4> QED BY <1>6, <4>1, <4>2, <4>3, <4>4
    <3> QED BY <1>1, <1>3, <2>2, <3>1 DEF PlaceOK
  <2> QED BY <2>1, <2>2
<1>10. WalkIsGapless'
  <2> SUFFICES ASSUME platform \in Cursored, ~shifted, NEW id \in Shown', id >= floor, id <= walk,
                      Usable(platform, posts'[id])
               PROVE  id \in kept \cup dropped
    BY <1>3 DEF WalkIsGapless
  <2>1. id \in Shown /\ id \in DOMAIN posts
    BY <1>4, <1>6, <1>7
  <2> QED BY <2>1, <1>1, <1>5 DEF WalkIsGapless
<1>11. TagOK' /\ LimitsAreAsked'
  <2>1. tag # NoTag => tag \subseteq DOMAIN posts
    <3>1. tag \in (SUBSET DOMAIN posts) \cup {NoTag}
      BY <1>1 DEF PageTypes
    <3> QED BY ONLY <3>1, Zenon
  <2> QED BY <2>1, <1>1, <1>3, <1>5 DEF TagOK, LimitsAreAsked
<1> QED BY <1>8, <1>9, <1>10, <1>11 DEF PagesInv

(* Cursors name a post and are not moved by a withdrawal; page numbers are.*)
LEMMA WithdrawKeeps ==
  ASSUME PagesInv, Withdraw PROVE PagesInv'
<1>1. PageTypes /\ PlaceOK /\ WalkIsGapless /\ TagOK /\ LimitsAreAsked
  BY DEF PagesInv
<1>2. PICK gone \in Shown : withdrawn' = withdrawn \cup {gone}
  BY DEF Withdraw
<1>3. /\ UNCHANGED <<platform, posts, place, tag, kept, walk, floor, dropped>>
      /\ shifted' = (shifted \/ platform = "github")
  BY DEF Withdraw, remembered
<1>4. Shown' \subseteq Shown /\ gone \in DOMAIN posts
  BY <1>2, <1>3 DEF Shown
<1>5. PageTypes'
  BY <1>1, <1>2, <1>3, <1>4 DEF PageTypes
<1>6. PlaceOK' /\ WalkIsGapless' /\ TagOK' /\ LimitsAreAsked'
  BY <1>1, <1>3, <1>4 DEF PlaceOK, WalkIsGapless, TagOK, LimitsAreAsked
<1> QED BY <1>5, <1>6 DEF PagesInv

(* What a page has: the newest of what the walk has not come to.           *)
LEMMA PageHas ==
  ASSUME PagesInv, NEW limit \in Limits
  PROVE  LET size == Size(platform, limit)  before == Before(platform, limit)
             page == PageAt(platform, limit)  start == Start(platform)
         IN  /\ size \in Nat /\ limit \in Nat \ {0} /\ before \in SUBSET Shown
             /\ page = NewestOf(size, Shown \ before) /\ page \in SUBSET (Shown \ before)
             /\ \A id \in page, j \in Shown \ before : j >= id => j \in page
             /\ page = {} /\ platform \in Cursored => Shown = before
             /\ page # {} => Min(page) \in page /\ \A h \in page : Min(page) <= h
             /\ start \in {place, NoPlace}
             /\ start = NoPlace => before = {}
             /\ start # NoPlace => size = start.size \/ platform \notin {"mastodon", "github"}
             /\ start # NoPlace /\ ~shifted => \A id \in Shown : id < floor => id \notin before
             /\ platform \notin Feeds \cup {"mastodon", "github"} => NewestOf(limit, page) = page
<1> DEFINE size == Size(platform, limit)
           before == Before(platform, limit)
           page == PageAt(platform, limit)
           start == Start(platform)
<1>1. PageTypes /\ PlaceOK
  BY DEF PagesInv
<1>2. Len(posts) \in Nat /\ Shown \in SUBSET (1..Len(posts))
  BY <1>1, PostsAreNumbered
<1>3. limit \in Nat \ {0} /\ FeedLength \in Nat
  BY DEF PagesAssumption
<1>a. start \in {place, NoPlace} /\ (platform # "github" => start = place)
  BY DEF Start
<1>4. start.at \in Nat /\ start.size \in Nat /\ (start.at > 0 => start.size > 0 /\ start # NoPlace)
  BY <1>1, <1>a DEF PlaceOK, PageTypes, Places, NoPlace
<1>5. size \in Nat /\ (platform \in Cursored => size > 0)
  BY <1>3, <1>4 DEF Size, Cursored, Feeds
<1>6. before \in SUBSET Shown
  BY DEF Before, NewestOf
<1>7. page = NewestOf(size, Shown \ before)
  BY DEF PageAt
<1>8. start = NoPlace => before = {}
  BY DEF Before, NoPlace
<1>9. start # NoPlace => start = place /\ start.at > 0 /\ floor > 0
  BY <1>1, <1>a DEF PlaceOK
<1>10. start # NoPlace => size = start.size \/ platform \notin {"mastodon", "github"}
  BY <1>9 DEF Size, Feeds
<1>11. start # NoPlace /\ ~shifted => \A id \in Shown : id < floor => id \notin before
  <2> SUFFICES ASSUME start # NoPlace, ~shifted, NEW id \in Shown, id < floor PROVE id \notin before
    OBVIOUS
  <2>1. CASE platform = "github"
    <3>1. before = NewestOf((start.at - 1) * start.size, Shown)
      BY <1>4, <1>9, <1>10, <2>1 DEF Before
    <3> QED BY <1>1, <1>9, <2>1, <3>1 DEF PlaceOK
  <2>2. CASE platform # "github"
    <3>1. before = {i \in Shown : i >= floor}
      BY <1>1, <1>9, <2>2 DEF Before, PlaceOK
    <3>2. id \in Nat /\ floor \in Nat
      BY <1>1, <1>2 DEF PageTypes
    <3> QED BY <3>1, <3>2
  <2> QED BY <2>1, <2>2
<1>12. platform \notin Feeds \cup {"mastodon", "github"} => size = limit
  BY DEF Size
<1> HIDE DEF size, before, page, start
<1>13. Shown \ before \in SUBSET (1..Len(posts))
  BY <1>2
<1>14. /\ page \in SUBSET (Shown \ before)
       /\ \A id \in page, j \in Shown \ before : j >= id => j \in page
  BY <1>2, <1>5, <1>7, <1>13, NewestAreAbove
<1>15. page = {} /\ platform \in Cursored => Shown = before
  <2>1. Shown \ before # {} /\ platform \in Cursored => page # {}
    <3>1. platform \in Cursored => size \in Nat \ {0}
      BY <1>5
    <3> QED BY <1>2, <1>7, <1>13, <3>1, OneIsNewest
  <2> QED BY <2>1, <1>6
<1>16. page \in SUBSET (1..Len(posts))
  BY <1>13, <1>14
<1>17. page # {} => Min(page) \in page /\ \A h \in page : Min(page) <= h
  BY <1>2, <1>16, OldestOf
<1>18. platform \notin Feeds \cup {"mastodon", "github"} => NewestOf(limit, page) = page
  <2> SUFFICES ASSUME platform \notin Feeds \cup {"mastodon", "github"} PROVE NewestOf(limit, page) = page
    OBVIOUS
  <2>1. limit \in Nat /\ Len(posts) \in Nat
    BY <1>2, <1>3
  <2>2. page = NewestOf(limit, Shown \ before)
    BY <1>7, <1>12
  <2>3. NewestOf(limit, NewestOf(limit, Shown \ before)) = NewestOf(limit, Shown \ before)
    BY ONLY <2>1, <1>13, AllAreNewest
  <2> QED BY ONLY <2>2, <2>3
<1> QED BY <1>a, <1>3, <1>5, <1>6, <1>7, <1>8, <1>10, <1>11, <1>14, <1>15, <1>17, <1>18
        DEF size, before, page, start

(* A page adds to what the walk has come to, down to its oldest post, or   *)
(* is the last.                                                            *)
LEMMA FetchPageKeeps ==
  ASSUME PagesInv, platform # "none", NEW limit \in Limits, FetchPage(limit) PROVE PagesInv'
<1> DEFINE size == Size(platform, limit)
           before == Before(platform, limit)
           page == PageAt(platform, limit)
           start == Start(platform)
<1>1. PageTypes /\ PlaceOK /\ WalkIsGapless /\ TagOK /\ LimitsAreAsked
  BY DEF PagesInv
<1>2. /\ Len(posts) \in Nat /\ DOMAIN posts = 1..Len(posts)
      /\ Shown \in SUBSET (1..Len(posts)) /\ \A id \in Shown : id \in Nat /\ id > 0
  BY <1>1, PostsAreNumbered
<1>3. /\ size \in Nat /\ limit \in Nat \ {0} /\ before \in SUBSET Shown
      /\ page = NewestOf(size, Shown \ before) /\ page \in SUBSET (Shown \ before)
      /\ \A id \in page, j \in Shown \ before : j >= id => j \in page
      /\ page = {} /\ platform \in Cursored => Shown = before
      /\ page # {} => Min(page) \in page /\ \A h \in page : Min(page) <= h
      /\ start \in {place, NoPlace}
      /\ start = NoPlace => before = {}
      /\ start # NoPlace => size = start.size \/ platform \notin {"mastodon", "github"}
      /\ start # NoPlace /\ ~shifted => \A id \in Shown : id < floor => id \notin before
      /\ platform \notin Feeds \cup {"mastodon", "github"} => NewestOf(limit, page) = page
  BY PageHas
<1>4. PICK next \in Cursors(platform, page, limit) : Store(platform, limit, page, next)
  BY DEF FetchPage
<1>5. /\ place' = next
      /\ tag' = IF platform \in Feeds \cup {"github"} THEN page ELSE NoTag
      /\ walk' = IF start = NoPlace THEN Len(posts) ELSE walk
      /\ floor' = IF next = NoPlace THEN 0 ELSE Min(page)
      /\ dropped' = (IF start = NoPlace THEN {} ELSE dropped) \cup (page \ Seen(platform, page, limit))
      /\ shifted' = (shifted /\ start # NoPlace)
  BY <1>4 DEF Store, TagOf
<1>6. UNCHANGED <<platform, posts, withdrawn>> /\ Shown' = Shown
  BY DEF FetchPage, Shown
<1>7. \/ next = NoPlace /\ (platform \in Cursored => page = {} \/ before \cup page = Shown)
      \/ /\ platform \in Cursored /\ page # {} /\ next # NoPlace
         /\ next.at = IF platform = "github" THEN (IF start.at = 0 THEN 2 ELSE start.at + 1) ELSE Min(page)
         /\ next.size = size /\ next.home \in BOOLEAN
         /\ next = [at |-> next.at, size |-> next.size, home |-> next.home]
  <2>1. CASE next = NoPlace
    <3>1. NoPlace # PlaceAfter(platform, page, limit) \/ platform \notin Cursored \/ page = {}
      <4>1. page # {} => Min(page) \in Nat /\ Min(page) > 0
        BY <1>2, <1>3
      <4>2. start.at \in Nat
        BY <1>1, <1>3 DEF PageTypes, Places, NoPlace
      <4> QED BY <4>1, <4>2 DEF PlaceAfter, NoPlace
    <3>2. NoPlace.home = TRUE /\ [PlaceAfter(platform, page, limit) EXCEPT !.home = FALSE].home = FALSE
      BY DEF NoPlace, PlaceAfter
    <3>3. platform \in Cursored /\ page # {} => ~IsOlder(platform, page, limit)
      BY <1>4, <2>1, <3>1, <3>2 DEF Cursors
    <3> QED BY <2>1, <3>3 DEF IsOlder
  <2>2. CASE next # NoPlace
    <3>1. platform \in Cursored /\ page # {}
      BY <1>4, <2>2 DEF Cursors
    <3>2. \/ next = PlaceAfter(platform, page, limit)
          \/ next = [PlaceAfter(platform, page, limit) EXCEPT !.home = FALSE]
      BY <1>4, <2>2, <3>1 DEF Cursors
    <3>3. PICK home \in BOOLEAN : next =
            [at |-> IF platform = "github" THEN (IF start.at = 0 THEN 2 ELSE start.at + 1) ELSE Min(page),
             size |-> size, home |-> home]
      BY <3>2 DEF PlaceAfter
    <3> HIDE DEF size, page, start
    <3> QED BY <2>2, <3>1, <3>3
  <2> QED BY <2>1, <2>2
<1>9. kept \subseteq kept'
  BY DEF FetchPage
<1>10. "hackernews" \notin Cursored \cup Feeds \cup {"github"}
       /\ "youtube" \notin Cursored \cup Feeds \cup {"github"}
       /\ "github" \in Cursored /\ (Feeds \cap Cursored = {}) /\ "sitemap" \in Feeds
  BY DEF Cursored, Feeds
<1>12. platform \in Cursored \cup Feeds
        => \A id \in page : Usable(platform, posts[id]) => id \in kept' \cup dropped'
  <2>1. platform \notin {"hackernews", "youtube"} =>
          \A id \in Seen(platform, page, limit) : Usable(platform, posts[id]) => id \in kept'
    BY DEF FetchPage, Lost, Taken
  <2> QED BY <1>5, <1>10, <2>1
<1>b. LimitsAreAsked'
  <2> SUFFICES ASSUME platform \notin Feeds \cup {"mastodon", "github"} PROVE dropped' = {}
    BY <1>6 DEF LimitsAreAsked
  <2>1. Seen(platform, page, limit) = page
    BY <1>3, <1>10 DEF Seen
  <2>2. dropped = {}
    BY <1>1 DEF LimitsAreAsked
  <2> QED BY <1>5, <2>1, <2>2
<1> HIDE DEF size, before, page, start
<1>13. page # {} => Min(page) \in 1..Len(posts)
  BY <1>2, <1>3
<1>14. start \in Places /\ walk \in 0..Len(posts) /\ (start # NoPlace => start.at > 0 /\ start.size > 0 /\ floor > 0)
       /\ floor \in Nat /\ (start = NoPlace \/ start.at > 0)
  <2>1. NoPlace \in Places
    BY DEF NoPlace, Places
  <2> QED BY <1>1, <1>2, <1>3, <2>1 DEF PageTypes, PlaceOK
<1>15. place' \in Places
  <2>1. CASE next = NoPlace
    BY <1>5, <2>1 DEF NoPlace, Places
  <2>2. CASE next # NoPlace
    <3>1. start.at \in Nat
      BY <1>14 DEF Places
    <3>a. page # {} => Min(page) \in Nat
      BY <1>2, <1>13
    <3>2. next.at \in Nat /\ next.size \in Nat /\ next.home \in BOOLEAN
      BY <1>3, <1>7, <2>2, <3>1, <3>a
    <3> QED BY <1>5, <1>7, <2>2, <3>2 DEF Places
  <2> QED BY <2>1, <2>2
<1>16. PageTypes'
  <2>1. walk' \in 0..Len(posts) /\ floor' \in 0..Len(posts) /\ shifted' \in BOOLEAN
    BY <1>1, <1>2, <1>5, <1>7, <1>13, <1>14 DEF PageTypes
  <2>2. tag' \in (SUBSET DOMAIN posts) \cup {NoTag}
    <3>1. page \in SUBSET (DOMAIN posts)
      BY <1>2, <1>3
    <3>2. tag' = page \/ tag' = NoTag
      BY <1>5
    <3> QED BY ONLY <3>1, <3>2, Zenon
  <2>3. posts \in Seq(Kinds) /\ withdrawn \subseteq DOMAIN posts /\ platform \in Platforms \cup {"none"}
    BY <1>1 DEF PageTypes
  <2> QED BY <1>6, <1>15, <2>1, <2>2, <2>3, platform # "none" DEF PageTypes
<1>17. PlaceOK'
  <2>1. CASE next = NoPlace
    BY <1>5, <2>1 DEF PlaceOK
  <2>2. CASE next # NoPlace
    <3>1. /\ platform \in Cursored /\ page # {} /\ floor' = Min(page) /\ Min(page) \in 1..Len(posts)
          /\ next.size = size /\ size # 0
      <4>1. page # NewestOf(0, Shown \ before)
        <5>1. NewestOf(0, Shown \ before) = {}
          <6>1. ASSUME NEW i \in NewestOf(0, Shown \ before) PROVE FALSE
            <7>1. Above(i, Shown \ before) \in SUBSET (1..Len(posts))
              BY <1>2 DEF Above
            <7>2. Cardinality(Above(i, Shown \ before)) \in Nat
              BY <1>2, <7>1, SomeCounted DEF Counted
            <7> QED BY <6>1, <7>2 DEF NewestOf, Above
          <6> QED BY <6>1
        <5> QED BY <1>7, <2>2, <5>1
      <4> QED BY <1>3, <1>5, <1>7, <1>13, <2>2, <4>1
    <3>2. next.at > 0 /\ next.size > 0
      <4>1. start.at \in Nat
        BY <1>14 DEF Places
      <4> QED BY <1>2, <1>3, <1>7, <2>2, <3>1, <4>1
    <3>3. platform # "github" => next.at = Min(page)
      BY <1>7, <2>2
    <3>4. ASSUME platform = "github", ~shifted', NEW id \in Shown, id < Min(page)
          PROVE  id \notin NewestOf((next.at - 1) * next.size, Shown)
      <4>1. id \notin page
        <5>1. id \in Nat /\ Min(page) \in Nat
          BY <1>2, <3>1
        <5>2. ~(Min(page) <= id)
          BY <3>4, <5>1
        <5>3. \A h \in page : Min(page) <= h
          BY <1>3, <3>1
        <5> QED BY <5>2, <5>3
      <4>2. PICK n \in Nat : before = NewestOf(n, Shown) /\ (next.at - 1) * next.size = n + size
        <5>1. CASE start = NoPlace
          <6>1. before = NewestOf(0, Shown)
            <7>1. ASSUME NEW i \in NewestOf(0, Shown) PROVE FALSE
              <8>1. Above(i, Shown) \in SUBSET (1..Len(posts))
                BY <1>2 DEF Above
              <8>2. Cardinality(Above(i, Shown)) \in Nat
                BY <1>2, <8>1, SomeCounted DEF Counted
              <8> QED BY <7>1, <8>2 DEF NewestOf, Above
            <7> QED BY <1>3, <5>1, <7>1
          <6>2. next.at = 2 /\ next.size = size
            BY <1>7, <2>2, <3>4, <5>1 DEF NoPlace
          <6> QED BY <1>3, <6>1, <6>2
        <5>2. CASE start # NoPlace
          <6>1. start.at \in Nat /\ start.at > 0 /\ start.size \in Nat /\ size = start.size
            BY <1>3, <1>14, <3>4, <5>2 DEF Places
          <6>2. before = NewestOf((start.at - 1) * size, Shown)
            BY <3>4, <6>1 DEF Before, before, size, start
          <6>3. next.at = start.at + 1 /\ next.size = size
            BY <1>7, <2>2, <3>4, <6>1
          <6>4. PICK k \in Nat : start.at = k + 1
            <7>1. start.at - 1 \in Nat /\ start.at = (start.at - 1) + 1
              BY <6>1
            <7> QED BY <7>1
          <6>5. (k + 1) * size = k * size + size /\ k * size \in Nat
            BY <1>3, <6>4
          <6>6. next.at - 1 = k + 1 /\ start.at - 1 = k
            BY <6>3, <6>4
          <6> QED BY <6>2, <6>3, <6>5, <6>6
        <5> QED BY <5>1, <5>2
      <4>3. id \notin before
        <5>1. id \in Shown \ before => ~(id < Min(page)) \/ id \notin page
          BY <4>1
        <5>2. CASE id \in before
          <6>a. id \in Nat /\ Min(page) \in Nat
            BY <1>2, <3>1
          <6>b. Min(page) >= id
            BY <3>4, <6>a
          <6>1. Min(page) \in Shown \ before /\ Min(page) >= id
            BY <1>3, <3>1, <6>b
          <6>2. Min(page) \in before
            BY <1>2, <4>2, <5>2, <6>1, NewestAreAbove
          <6> QED BY <6>1, <6>2
        <5> QED BY <5>2
      <4>4. id \notin NewestOf(n, Shown) /\ id \notin NewestOf(size, Shown \ NewestOf(n, Shown))
        BY <1>3, <4>1, <4>2, <4>3
      <4>5. id \notin NewestOf(n + size, Shown)
        BY <1>2, <1>3, <4>2, <4>4, NextPage
      <4> QED BY <4>2, <4>5
    <3>5. floor' > 0
      BY <1>2, <3>1
    <3> QED BY <1>5, <1>6, <3>1, <3>2, <3>3, <3>4, <3>5 DEF PlaceOK
  <2> QED BY <2>1, <2>2
<1>18. WalkIsGapless'
  <2> SUFFICES ASSUME platform \in Cursored, ~shifted', NEW id \in Shown, id >= floor', id <= walk',
                      Usable(platform, posts[id])
               PROVE  id \in kept' \cup dropped'
    BY <1>6 DEF WalkIsGapless
  <2>1. id \in Nat /\ id > 0
    BY <1>2
  <2>2. CASE start # NoPlace /\ id >= floor
    <3>1. ~shifted /\ id <= walk /\ dropped \subseteq dropped'
      BY <1>5, <2>2
    <3> QED BY <1>1, <1>9, <2>2, <3>1 DEF WalkIsGapless
  <2>3. CASE ~(start # NoPlace /\ id >= floor)
    <3>1. id \notin before
      <4>1. CASE start = NoPlace
        BY <1>3, <4>1
      <4>2. CASE start # NoPlace
        <5>1. id < floor
          BY <1>14, <2>1, <2>3, <4>2
        <5>2. ~shifted
          BY <1>5, <4>2
        <5> QED BY <1>3, <4>2, <5>1, <5>2
      <4> QED BY <4>1, <4>2
    <3>2. id \in page
      BY <1>3, <1>5, <1>7, <2>1, <3>1
    <3> QED BY <1>12, <3>2
  <2> QED BY <2>2, <2>3
<1>19. TagOK'
  <2> SUFFICES ASSUME tag' # NoTag
               PROVE  \A id \in page : Usable(platform, posts[id]) => id \in kept' \cup dropped'
    BY <1>5, <1>6 DEF TagOK
  <2>1. platform \in Cursored \cup Feeds
    BY <1>5, <1>10
  <2> QED BY <1>12, <2>1
<1> QED BY <1>16, <1>17, <1>18, <1>19, <1>b DEF PagesInv

LEMMA PageStepInv == PagesInv /\ [PageNext]_pageVars => PagesInv'
<1> SUFFICES ASSUME PagesInv, [PageNext]_pageVars PROVE PagesInv'
  OBVIOUS
<1>1. PageTypes /\ PlaceOK /\ WalkIsGapless /\ TagOK /\ LimitsAreAsked
  BY DEF PagesInv
<1>2. CASE Choose
  <2>1. /\ platform = "none" /\ platform' \in Platforms
        /\ UNCHANGED <<posts, withdrawn, place, tag, kept, walk, floor, dropped, shifted>>
    BY <1>2 DEF Choose, remembered
  <2>2. posts = <<>> /\ place = NoPlace /\ tag = NoTag /\ Shown = {} /\ floor = 0
    <3>1. posts = <<>> /\ place = NoPlace /\ tag = NoTag
      BY <1>1, <2>1 DEF PageTypes
    <3> QED BY <1>1, <3>1, PostsAreNumbered DEF PlaceOK, NoPlace
  <2>3. Shown' = Shown
    BY <2>1 DEF Shown
  <2>4. dropped = {}
    BY <1>1, <2>1 DEF LimitsAreAsked, Feeds
  <2>5. PageTypes' /\ PlaceOK' /\ WalkIsGapless' /\ TagOK' /\ LimitsAreAsked'
    BY <1>1, <2>1, <2>2, <2>3, <2>4 DEF PageTypes, PlaceOK, WalkIsGapless, TagOK, LimitsAreAsked
  <2> QED BY <2>5 DEF PagesInv
<1>3. CASE Post BY <1>3, PostKeeps
<1>4. CASE Withdraw BY <1>4, WithdrawKeeps
<1>5. CASE Refuse
  BY <1>5, ForgetKeeps DEF Refuse
<1>6. ASSUME platform # "none", NEW limit \in Limits, FetchPage(limit) PROVE PagesInv'
  BY <1>6, FetchPageKeeps
<1>7. ASSUME platform # "none", NEW limit \in Limits, FetchNothing(limit) PROVE PagesInv'
  <2>1. PICK r \in Bad(platform, PageAt(platform, limit)) :
          IF Advances(r)
            THEN /\ place' = NoPlace /\ tag' = (IF r = NoChange THEN tag ELSE TagOf(platform, {}))
                 /\ walk' = 0 /\ floor' = 0 /\ shifted' = FALSE
                 /\ dropped' = (IF r = NoChange THEN dropped ELSE {})
            ELSE UNCHANGED <<remembered, walk, floor, dropped, shifted>>
    BY <1>7 DEF FetchNothing
  <2>2. UNCHANGED <<platform, posts, withdrawn, kept>>
    BY <1>7 DEF FetchNothing
  <2>3. TagOf(platform, {}) \in {NoTag, {}}
    BY DEF TagOf
  <2> QED BY <1>7, <2>1, <2>2, <2>3, ForgetKeeps
<1>8. CASE UNCHANGED pageVars
  BY <1>8, ForgetKeeps DEF pageVars
<1> QED BY <1>2, <1>3, <1>4, <1>5, <1>6, <1>7, <1>8 DEF PageNext

(* Neither a cursor nor a conditional request (ingestion/fetchers,         *)
(* IngestionService) passes over an item, for any number of posts and any  *)
(* limits, but for those that the call that got them had no room for.      *)
THEOREM Gapless == PageSpec => []NothingIsSkipped
<1>1. PagesInv => NothingIsSkipped
  BY DEF PagesInv, NothingIsSkipped, NoChangeIsKept, TagOK
<1>2. PageSpec => []PagesInv
  BY PageInitInv, PageStepInv, PTL DEF PageSpec
<1> QED BY <1>1, <1>2, PTL

---------------------------------------------------------------------------
(* The rules of events.                                                    *)

HIDE PagesAssumption

(* A partition of the items of a run.                                      *)
Parted(part, I) ==
  UNION part = I /\ {} \notin part /\ \A c, d \in part : c \cap d # {} => c = d
Joins(s, c) == \E p \in PairsOf(s) : {p[1], p[2]} \subseteq c /\ SameIdentity(s[p[1]], s[p[2]])

(* Clusters are a partition at all times; those of one identity are        *)
(* together once their pair was looked at, and a cluster spans more than   *)
(* the window only if an identity joins two of it.                         *)
ClustersOK(s, part, rest) ==
  /\ Parted(part, DOMAIN s)
  /\ \A p \in PairsOf(s) \ rest :
       SameIdentity(s[p[1]], s[p[2]]) => \E c \in part : {p[1], p[2]} \subseteq c
  /\ \A c \in part : Spans(s, c) \/ Joins(s, c)

RulesInv ==
  /\ kind = "nothing" => input = <<>>
  /\ kind = "roots" => input \in Seq(Witnesses)
  /\ kind \in {"run", "clusters"} => input \in Seq(Stories)
  /\ kind = "clusters" => left \subseteq PairsOf(input) /\ ClustersOK(input, clusters, left)

LEMMA ComponentIs ==
  ASSUME NEW I, NEW part, Parted(part, I), NEW i \in I
  PROVE  /\ Component(part, i) \in part /\ i \in Component(part, i)
         /\ \A c \in part : i \in c => c = Component(part, i)
<1>1. PICK c \in part : i \in c
  BY DEF Parted
<1>2. Component(part, i) \in part /\ i \in Component(part, i)
  BY <1>1 DEF Component
<1>3. ASSUME NEW d \in part, i \in d PROVE d = Component(part, i)
  BY <1>2, <1>3 DEF Parted
<1> QED BY <1>2, <1>3

(* One item is within the window of itself.                                *)
LEMMA OneSpans ==
  ASSUME NEW s \in Seq(Stories), NEW i \in DOMAIN s PROVE Spans(s, {i})
<1>1. s[i].at \in Nat
  BY RulesAssumption
<1>2. Times(s, {i}) = {s[i].at} \ {NoTime}
  BY DEF Times
<1>3. CASE s[i].at = NoTime
  BY <1>2, <1>3 DEF Spans
<1>4. CASE s[i].at # NoTime
  <2> DEFINE t == s[i].at
  <2>1. Times(s, {i}) = {t}
    BY <1>2, <1>4
  <2> HIDE DEF t
  <2>2. t \in Nat
    BY <1>1 DEF t
  <2>3. Max({t}) = t /\ Min({t}) = t
    BY <2>2 DEF Max, Min
  <2>4. Max({t}) <= Min({t}) + Window
    BY <2>2, <2>3 DEF Window
  <2> QED BY <2>1, <2>4 DEF Spans
<1> QED BY <1>3, <1>4

(* At first every item is alone.                                           *)
LEMMA AloneOK ==
  ASSUME NEW s \in Seq(Stories)
  PROVE  ClustersOK(s, {{i} : i \in DOMAIN s}, CandidatePairs(s))
<1> DEFINE part == {{i} : i \in DOMAIN s}
<1>1. Parted(part, DOMAIN s)
  BY DEF Parted
<1>2. \A p \in PairsOf(s) \ CandidatePairs(s) : ~SameIdentity(s[p[1]], s[p[2]])
  BY DEF CandidatePairs, Candidate
<1>3. \A c \in part : Spans(s, c)
  BY OneSpans
<1> QED BY <1>1, <1>2, <1>3 DEF ClustersOK

(* Joining two clusters keeps them a partition, and what was together.     *)
LEMMA UnitedOK ==
  ASSUME NEW I, NEW part, Parted(part, I), NEW a \in part, NEW b \in part
  PROVE  LET new == (part \ {a, b}) \cup {a \cup b}
         IN  Parted(new, I) /\ \A c \in part : \E d \in new : c \subseteq d
<1> DEFINE new == (part \ {a, b}) \cup {a \cup b}
<1>1. UNION new = I
  <2>1. UNION part = I
    BY DEF Parted
  <2>2. ASSUME NEW i \in UNION new PROVE i \in UNION part
    OBVIOUS
  <2>3. ASSUME NEW i \in UNION part PROVE i \in UNION new
    <3>1. PICK c \in part : i \in c
      OBVIOUS
    <3>2. CASE c \in {a, b}
      <4>1. a \cup b \in new /\ i \in a \cup b
        BY <3>1, <3>2
      <4> QED BY <4>1
    <3>3. CASE c \notin {a, b}
      <4>1. c \in new
        BY <3>3
      <4> QED BY <3>1, <4>1
    <3> QED BY <3>2, <3>3
  <2> QED BY <2>1, <2>2, <2>3
<1>2. {} \notin new
  BY DEF Parted
<1>3. ASSUME NEW c \in new, NEW d \in new, c \cap d # {} PROVE c = d
  <2>1. \A x, y \in part : x \cap y # {} => x = y
    BY DEF Parted
  <2>2. CASE c \in part \ {a, b} /\ d \in part \ {a, b}
    BY <1>3, <2>1, <2>2
  <2>3. CASE c = a \cup b /\ d \in part \ {a, b}
    BY <1>3, <2>1, <2>3
  <2>4. CASE d = a \cup b /\ c \in part \ {a, b}
    BY <1>3, <2>1, <2>4
  <2>5. CASE c = a \cup b /\ d = a \cup b
    BY <2>5
  <2> QED BY <2>2, <2>3, <2>4, <2>5
<1>4. \A c \in part : \E d \in new : c \subseteq d
  OBVIOUS
<1> QED BY <1>1, <1>2, <1>3, <1>4 DEF Parted

(* A pair that is looked at keeps the clusters as they should be.          *)
LEMMA JoinOK ==
  ASSUME NEW s \in Seq(Stories), NEW part, NEW rest \in SUBSET PairsOf(s),
         ClustersOK(s, part, rest), NEW pair \in rest, NEW says \in BOOLEAN
  PROVE  ClustersOK(s, Joined(s, says, part, pair), rest \ {pair})
<1> DEFINE l == s[pair[1]]
           r == s[pair[2]]
           a == Component(part, pair[1])
           b == Component(part, pair[2])
           new == (part \ {a, b}) \cup {a \cup b}
           merged == Merges(l, r, says) /\ (Fits(s, a, b) \/ Rule(l, r) = "strong")
<1>1. /\ Parted(part, DOMAIN s)
      /\ \A p \in PairsOf(s) \ rest :
           SameIdentity(s[p[1]], s[p[2]]) => \E c \in part : {p[1], p[2]} \subseteq c
      /\ \A c \in part : Spans(s, c) \/ Joins(s, c)
  BY DEF ClustersOK
<1>2. pair \in PairsOf(s) /\ pair[1] \in DOMAIN s /\ pair[2] \in DOMAIN s
  BY DEF PairsOf
<1>3. Joined(s, says, part, pair) = IF merged THEN new ELSE part
  BY DEF Joined
<1>4. SameIdentity(l, r) => Rule(l, r) = "strong"
  BY DEF Rule
<1>5. Rule(l, r) = "strong" => SameIdentity(l, r) /\ Merges(l, r, says)
  BY DEF Rule, Merges
<1>6. /\ a \in part /\ b \in part /\ pair[1] \in a /\ pair[2] \in b
  BY <1>1, <1>2, ComponentIs
<1> HIDE DEF l, r, a, b
<1>7. CASE ~merged
  <2>1. ~SameIdentity(l, r)
    BY <1>4, <1>5, <1>7
  <2>2. \A p \in PairsOf(s) \ (rest \ {pair}) :
          SameIdentity(s[p[1]], s[p[2]]) => \E c \in part : {p[1], p[2]} \subseteq c
    BY <1>1, <2>1 DEF l, r
  <2> QED BY <1>1, <1>3, <1>7, <2>2 DEF ClustersOK
<1>8. CASE merged
  <2>1. Parted(new, DOMAIN s) /\ \A c \in part : \E d \in new : c \subseteq d
    <3>1. Parted(part, DOMAIN s) /\ a \in part /\ b \in part
      BY <1>1, <1>6
    <3> QED BY ONLY <3>1, UnitedOK DEF new
  <2>2. ASSUME NEW p \in PairsOf(s) \ (rest \ {pair}), SameIdentity(s[p[1]], s[p[2]])
        PROVE  \E d \in new : {p[1], p[2]} \subseteq d
    <3>1. CASE p = pair
      <4>1. {p[1], p[2]} \subseteq a \cup b /\ a \cup b \in new
        BY <1>6, <3>1
      <4> QED BY ONLY <4>1
    <3>2. CASE p # pair
      <4>1. PICK c \in part : {p[1], p[2]} \subseteq c
        BY <1>1, <2>2, <3>2
      <4>2. PICK d \in new : c \subseteq d
        BY <2>1
      <4> QED BY <4>1, <4>2
    <3> QED BY <3>1, <3>2
  <2>3. Spans(s, a \cup b) \/ Joins(s, a \cup b)
    <3>1. CASE Rule(l, r) = "strong"
      <4>1. SameIdentity(s[pair[1]], s[pair[2]]) /\ {pair[1], pair[2]} \subseteq a \cup b
        BY <1>5, <1>6, <3>1 DEF l, r
      <4> QED BY <1>2, <4>1 DEF Joins
    <3>2. CASE Fits(s, a, b)
      <4>1. CASE a = b
        BY <1>1, <1>6, <4>1
      <4>2. CASE a # b
        BY <3>2, <4>2 DEF Fits
      <4> QED BY <4>1, <4>2
    <3> QED BY <1>8, <3>1, <3>2
  <2>4. \A c \in new : Spans(s, c) \/ Joins(s, c)
    BY <1>1, <2>3
  <2> QED BY <1>3, <1>8, <2>1, <2>2, <2>4 DEF ClustersOK
<1> QED BY <1>7, <1>8

(* Items of one kind of key have one identity.                             *)
LEMMA OneKey ==
  ASSUME NEW s \in Seq(Stories), NEW c, NEW d, c # {}, d # {},
         c \subseteq DOMAIN s, d \subseteq DOMAIN s, KeyOf(s, c) = KeyOf(s, d)
  PROVE  \E i \in c, j \in d : SameIdentity(s[i], s[j])
<1>1. Min(c) \in c /\ Min(d) \in d
  <2>1. Len(s) \in Nat /\ c \in SUBSET (1..Len(s)) /\ d \in SUBSET (1..Len(s))
    OBVIOUS
  <2> QED BY <2>1, OldestOf
<1> DEFINE i == Min(c)
           j == Min(d)
<1>2. s[i].url # Absent /\ s[j].url # Absent
  BY <1>1, RulesAssumption
<1> HIDE DEF i, j
<1>3. /\ KeyOf(s, c) = IF s[i].root # Absent THEN <<"root", s[i].root>> ELSE <<"url", s[i].url>>
      /\ KeyOf(s, d) = IF s[j].root # Absent THEN <<"root", s[j].root>> ELSE <<"url", s[j].url>>
  BY DEF KeyOf, i, j
<1>a. KeyOf(s, c) = KeyOf(s, d)
  OBVIOUS
<1>4. \/ s[i].root # Absent /\ s[i].root = s[j].root
      \/ s[i].url = s[j].url
  <2>1. \A x, y : <<"root", x>> # <<"url", y>>
    OBVIOUS
  <2>2. \A x, y, k : <<k, x>> = <<k, y>> => x = y
    OBVIOUS
  <2>3. CASE s[i].root # Absent /\ s[j].root # Absent
    BY <1>3, <2>2, <2>3
  <2>4. CASE s[i].root = Absent /\ s[j].root = Absent
    BY <1>3, <2>2, <2>4
  <2>5. CASE s[i].root # Absent /\ s[j].root = Absent
    <3>1. <<"root", s[i].root>> = <<"url", s[j].url>>
      BY <1>3, <2>5, <1>a
    <3> QED BY <2>1, <3>1
  <2>6. CASE s[i].root = Absent /\ s[j].root # Absent
    <3>1. <<"root", s[j].root>> = <<"url", s[i].url>>
      BY <1>3, <2>6, <1>a
    <3> QED BY <2>1, <3>1
  <2> QED BY <2>3, <2>4, <2>5, <2>6
<1>5. SameIdentity(s[i], s[j])
  BY <1>2, <1>4 DEF SameIdentity, Identities
<1> QED BY <1>1, <1>5 DEF i, j

(* Once no pair is left, what the run has clustered are events.            *)
LEMMA EventsOK == RulesInv => ClustersAreEvents
<1> SUFFICES ASSUME RulesInv, kind = "clusters", left = {}
             PROVE  /\ \A p \in PairsOf(input) : SameIdentity(input[p[1]], input[p[2]])
                         => Component(clusters, p[1]) = Component(clusters, p[2])
                    /\ \A c \in clusters : Spans(input, c) \/ Joins(input, c)
                    /\ \A c, d \in clusters : KeyOf(input, c) = KeyOf(input, d) => c = d
  BY DEF ClustersAreEvents, Joins
<1>1. PICK s \in Seq(Stories) : s = input
  BY DEF RulesInv
<1>2. PICK part : part = clusters
  OBVIOUS
<1>3. /\ Parted(part, DOMAIN s)
      /\ \A p \in PairsOf(s) :
           SameIdentity(s[p[1]], s[p[2]]) => \E c \in part : {p[1], p[2]} \subseteq c
      /\ \A c \in part : Spans(s, c) \/ Joins(s, c)
  BY <1>1, <1>2 DEF RulesInv, ClustersOK
<1>4. ASSUME NEW i \in DOMAIN s, NEW j \in DOMAIN s, SameIdentity(s[i], s[j])
      PROVE  Component(part, i) = Component(part, j)
  <2>1. i \in Nat /\ j \in Nat
    OBVIOUS
  <2>2. CASE i = j
    BY <2>2
  <2>3. CASE i < j
    <3>1. <<i, j>> \in PairsOf(s)
      BY <2>3 DEF PairsOf
    <3>2. PICK c \in part : {i, j} \subseteq c
      BY <1>3, <1>4, <3>1
    <3> QED BY <1>3, <3>2, ComponentIs
  <2>4. CASE j < i
    <3>1. <<j, i>> \in PairsOf(s) /\ SameIdentity(s[j], s[i])
      BY <1>4, <2>4 DEF PairsOf, SameIdentity
    <3>2. PICK c \in part : {i, j} \subseteq c
      BY <1>3, <3>1
    <3> QED BY <1>3, <3>2, ComponentIs
  <2> QED BY <2>1, <2>2, <2>3, <2>4
<1>5. \A p \in PairsOf(s) : SameIdentity(s[p[1]], s[p[2]])
        => Component(part, p[1]) = Component(part, p[2])
  BY <1>4 DEF PairsOf
<1>6. ASSUME NEW c \in part, NEW d \in part, KeyOf(s, c) = KeyOf(s, d) PROVE c = d
  <2>1. c # {} /\ d # {} /\ c \subseteq DOMAIN s /\ d \subseteq DOMAIN s
    BY <1>3 DEF Parted
  <2>2. PICK i \in c, j \in d : SameIdentity(s[i], s[j])
    BY <1>6, <2>1, OneKey
  <2>3. c = Component(part, i) /\ d = Component(part, j)
    BY <1>3, <2>1, <2>2, ComponentIs
  <2> QED BY <1>4, <2>1, <2>2, <2>3
<1> QED BY <1>1, <1>2, <1>3, <1>5, <1>6

LEMMA RulesInvariant == RuleSpec => []RulesInv
<1>1. RuleInit => RulesInv
  BY DEF RuleInit, RulesInv
<1>2. RulesInv /\ [RuleNext]_ruleVars => RulesInv'
  <2> SUFFICES ASSUME RulesInv, [RuleNext]_ruleVars PROVE RulesInv'
    OBVIOUS
  <2>1. CASE Fetch \/ Scan
    BY <2>1 DEF Fetch, Scan, RulesInv
  <2>2. CASE Assess
    <3>1. input \in Seq(Witnesses)
      <4>1. kind = "nothing" \/ kind = "roots"
        BY <2>2 DEF Assess
      <4>2. <<>> \in Seq(Witnesses)
        OBVIOUS
      <4> QED BY ONLY RulesInv, <4>1, <4>2 DEF RulesInv
    <3>2. kind' = "roots" /\ \E w \in Witnesses : input' = Append(input, w)
      BY <2>2 DEF Assess
    <3>3. input' \in Seq(Witnesses)
      BY <3>1, <3>2
    <3> QED BY <3>2, <3>3 DEF RulesInv
  <2>3. CASE Select
    <3>1. input \in Seq(Stories)
      <4>1. kind = "nothing" \/ kind = "run"
        BY <2>3 DEF Select
      <4>2. <<>> \in Seq(Stories)
        OBVIOUS
      <4> QED BY ONLY RulesInv, <4>1, <4>2 DEF RulesInv
    <3>2. kind' = "run" /\ \E i \in Stories : input' = Append(input, i)
      BY <2>3 DEF Select
    <3>3. input' \in Seq(Stories)
      BY <3>1, <3>2
    <3> QED BY <3>2, <3>3 DEF RulesInv
  <2>4. CASE Cluster
    <3>1. PICK s \in Seq(Stories) : s = input
      BY <2>4 DEF Cluster, RulesInv
    <3>2. /\ kind' = "clusters" /\ input' = s
          /\ clusters' = {{i} : i \in DOMAIN s} /\ left' = CandidatePairs(s)
      BY <2>4, <3>1 DEF Cluster
    <3>3. CandidatePairs(s) \subseteq PairsOf(s)
      BY DEF CandidatePairs
    <3> QED BY <3>2, <3>3, AloneOK DEF RulesInv
  <2>5. CASE Join
    <3>1. PICK s \in Seq(Stories) : s = input
      BY <2>5 DEF Join, RulesInv
    <3>2. PICK part, rest : part = clusters /\ rest = left
      OBVIOUS
    <3>3. rest \in SUBSET PairsOf(s) /\ ClustersOK(s, part, rest)
      BY <2>5, <3>1, <3>2 DEF Join, RulesInv
    <3>4. PICK pair \in rest, says \in BOOLEAN :
            /\ kind' = "clusters" /\ input' = s
            /\ clusters' = Joined(s, says, part, pair) /\ left' = rest \ {pair}
      BY <2>5, <3>1, <3>2 DEF Join
    <3>5. ClustersOK(s, Joined(s, says, part, pair), rest \ {pair})
      BY <3>3, JoinOK
    <3> QED BY <3>3, <3>4, <3>5 DEF RulesInv
  <2>6. CASE UNCHANGED ruleVars
    BY <2>6 DEF ruleVars, RulesInv
  <2> QED BY <2>1, <2>2, <2>3, <2>4, <2>5, <2>6 DEF RuleNext
<1> QED BY <1>1, <1>2, PTL DEF RuleSpec

(* A run puts items of one identity into one event, never stretches an     *)
(* event beyond 48 hours along a chain of weaker links, and gives no two   *)
(* events the same canonical key: for runs of any number of items.         *)
THEOREM SoundClusters == RuleSpec => []ClustersAreEvents
BY EventsOK, RulesInvariant, PTL

(* What is selected is qualified and not excluded.                         *)
LEMMA Focused == SelectionIsFocused
<1> SUFFICES ASSUME kind = "text", Selected(input)
             PROVE  /\ Has(AllText(input) \cup input.topics, Strong \cup Native \cup Contextual \cup CrossContext)
                    /\ Has(input.title, Entertainment) =>
                         Has(input.title, Acts) /\ Has(input.title, Strong \cup Native \cup Cross)
                    /\ ~Has(input.title, Advertisement)
  BY DEF SelectionIsFocused
<1>1. ~Excluded(input)
  BY DEF Selected, Relevant
<1>2. Qualified(input) /\ ~Advertises(input)
      /\ (Has(Subject(input), Entertainment) => ExplicitSubject(input))
  BY <1>1 DEF Excluded
<1>3. \A terms : Has(input.title, terms) => Subject(input) = input.title
  BY DEF Has, Subject
<1>4. Has(AllText(input) \cup input.topics, Strong \cup Native \cup Contextual \cup CrossContext)
  BY <1>2 DEF Qualified, Has
<1>5. Has(input.title, Entertainment) =>
        Has(input.title, Acts) /\ Has(input.title, Strong \cup Native \cup Cross)
  BY <1>2, <1>3 DEF ExplicitSubject, Has
<1>6. ~Has(input.title, Advertisement)
  BY <1>2, <1>3 DEF Advertises
<1> QED BY <1>4, <1>5, <1>6

(* Whatever the rules do not keep apart shares a key.                      *)
LEMMA Blocked == ASSUME NEW l, NEW r, Rule(l, r) # "separate" PROVE Candidate(l, r)
<1>1. SameIdentity(l, r) \/ SameTitle(l, r) \/ Anchored(l, r)
  BY DEF Rule
<1>2. SameTitle(l, r) => l.title = r.title /\ Near(l, r)
  BY DEF SameTitle
<1>3. Anchored(l, r) => Named(l) \cap Named(r) # {} /\ Near(l, r)
  BY DEF Anchored
<1> QED BY <1>1, <1>2, <1>3 DEF Candidate

---------------------------------------------------------------------------
(* Roots of evidence.                                                      *)

Own(s, role) == {i \in DOMAIN s : Independent(s[i]) /\ s[i].role = role}

(* Two things make two of a finite set, and two of it are two things.      *)
LEMMA TwoOf ==
  ASSUME NEW S, IsFiniteSet(S)
  PROVE  Cardinality(S) \in Nat /\ (Cardinality(S) >= 2 <=> \E x, y \in S : x # y)
<1>1. Cardinality(S) \in Nat
  BY FS_CardinalityType
<1>2. ASSUME NEW x \in S, NEW y \in S, x # y PROVE Cardinality(S) >= 2
  <2>1. /\ IsFiniteSet({x}) /\ Cardinality({x}) = 1
        /\ IsFiniteSet({x, y}) /\ Cardinality({x, y}) = 2
    <3>1. IsFiniteSet({}) /\ Cardinality({}) = 0
      BY FS_EmptySet
    <3>2. IsFiniteSet({x}) /\ Cardinality({x}) = 1
      <4>1. {} \cup {x} = {x} /\ x \notin {}
        OBVIOUS
      <4> QED BY <3>1, <4>1, FS_AddElement
    <3>3. {x} \cup {y} = {x, y} /\ y \notin {x}
      BY <1>2
    <3>4. IsFiniteSet({x} \cup {y}) /\ Cardinality({x} \cup {y}) = Cardinality({x}) + 1
      BY ONLY <3>2, <3>3, FS_AddElement
    <3> QED BY ONLY <3>2, <3>3, <3>4
  <2>2. Cardinality({x, y}) <= Cardinality(S)
    <3>1. {x, y} \in SUBSET S
      OBVIOUS
    <3> QED BY <3>1, FS_Subset
  <2> QED BY <1>1, <2>1, <2>2
<1>3. ASSUME Cardinality(S) >= 2 PROVE \E x, y \in S : x # y
  <2>1. S # {}
    BY <1>1, <1>3, FS_EmptySet
  <2>2. PICK x \in S : TRUE
    BY <2>1
  <2>3. IsFiniteSet(S \ {x}) /\ Cardinality(S \ {x}) = Cardinality(S) - 1
    BY FS_RemoveElement
  <2>4. S \ {x} # {}
    BY <1>1, <1>3, <2>3, FS_EmptySet
  <2> QED BY <2>4
<1> QED BY <1>1, <1>2, <1>3

(* What holds of the items is counted by their roots.                      *)
LEMMA RootsAreCounted ==
  ASSUME NEW s \in Seq(Witnesses), NEW S \in SUBSET IndependentRoots(s)
  PROVE  IsFiniteSet(IndependentRoots(s)) /\ IsFiniteSet(S)
<1>1. IsFiniteSet(DOMAIN s)
  BY FS_Interval
<1>2. IsFiniteSet({j \in DOMAIN s : Independent(s[j])})
  BY <1>1, FS_Subset
<1>3. IsFiniteSet(IndependentRoots(s))
  <2> DEFINE I == {j \in DOMAIN s : Independent(s[j])}
             f == [i \in I |-> Root(s[i])]
  <2>1. IndependentRoots(s) = {f[i] : i \in I}
    BY DEF IndependentRoots
  <2>2. f \in Surjection(I, IndependentRoots(s))
    BY <2>1 DEF Surjection
  <2> QED BY <1>2, <2>2, FS_Surjection
<1> QED BY <1>3, FS_Subset

(* The root of what counts as the word of an outlet is its own address.    *)
LEMMA OwnAddress ==
  ASSUME NEW r, Independent(r), r.role \in {"official", "media"}
  PROVE  Root(r) = r.url
BY DEF Independent, Root

(* A root is reported in its best role: official before media.             *)
LEMMA BestRole ==
  ASSUME NEW s \in Seq(Witnesses)
  PROVE  /\ \A role : \A x \in RootsAs(s, role) : \E i \in Own(s, role) : x = Root(s[i])
         /\ \A i \in Own(s, "official") : Root(s[i]) \in RootsAs(s, "official")
         /\ RootsAs(s, "official") = {} =>
              \A i \in Own(s, "media") : Root(s[i]) \in RootsAs(s, "media")
<1>1. \A i \in DOMAIN s : s[i].role \in {"official", "media", "research", "community"}
  BY RulesAssumption
<1>2. \A role : \A x \in RootsAs(s, role) : \E i \in Own(s, role) : x = Root(s[i])
  BY DEF RootsAs, Own
<1>3. \A i \in Own(s, "official") : Root(s[i]) \in RootsAs(s, "official")
  BY <1>1 DEF RootsAs, Own, Priority
<1>4. ASSUME RootsAs(s, "official") = {}, NEW i \in Own(s, "media")
      PROVE  Root(s[i]) \in RootsAs(s, "media")
  <2>1. \A k \in DOMAIN s : Independent(s[k]) => s[k].role # "official"
    BY <1>3, <1>4 DEF Own
  <2> QED BY <1>1, <2>1 DEF RootsAs, Own, Priority
<1> QED BY <1>2, <1>3, <1>4

(* An event is confirmed by an official source, or by two media with       *)
(* different addresses.                                                    *)
LEMMA ConfirmedByTwo ==
  ASSUME NEW s \in Seq(Witnesses)
  PROVE  /\ RootsAs(s, "official") # {} <=> Own(s, "official") # {}
         /\ RootsAs(s, "official") = {} =>
              (Cardinality(RootsAs(s, "media")) >= 2
                 <=> \E i, j \in Own(s, "media") : s[i].url # s[j].url)
         /\ Confirmed(s) <=> \/ Own(s, "official") # {}
                             \/ \E i, j \in Own(s, "media") : s[i].url # s[j].url
<1>1. RootsAs(s, "official") # {} <=> Own(s, "official") # {}
  BY BestRole
<1>2. RootsAs(s, "media") \in SUBSET IndependentRoots(s)
  BY BestRole DEF Own, IndependentRoots
<1>3. Cardinality(RootsAs(s, "media")) >= 2
        <=> \E x, y \in RootsAs(s, "media") : x # y
  BY <1>2, RootsAreCounted, TwoOf
<1>4. \A i \in Own(s, "media") : Root(s[i]) = s[i].url
  BY OwnAddress DEF Own
<1>5. (\E x, y \in RootsAs(s, "media") : x # y) => \E i, j \in Own(s, "media") : s[i].url # s[j].url
  <2> SUFFICES ASSUME NEW x \in RootsAs(s, "media"), NEW y \in RootsAs(s, "media"), x # y
               PROVE  \E i, j \in Own(s, "media") : s[i].url # s[j].url
    OBVIOUS
  <2>1. PICK i \in Own(s, "media") : x = Root(s[i])
    BY BestRole
  <2>2. PICK j \in Own(s, "media") : y = Root(s[j])
    BY BestRole
  <2> QED BY <1>4, <2>1, <2>2
<1>6. ASSUME RootsAs(s, "official") = {}, NEW i \in Own(s, "media"), NEW j \in Own(s, "media"),
             s[i].url # s[j].url
      PROVE  \E x, y \in RootsAs(s, "media") : x # y
  <2>1. Root(s[i]) \in RootsAs(s, "media") /\ Root(s[j]) \in RootsAs(s, "media")
    BY <1>6, BestRole
  <2> QED BY <1>4, <1>6, <2>1
<1> QED BY <1>1, <1>3, <1>5, <1>6 DEF Confirmed

(* The last of the reports of a root is one of them.                       *)
LEMMA LastReport ==
  ASSUME NEW s \in Seq(Witnesses), NEW x \in IndependentRoots(s)
  PROVE  \E i \in DOMAIN s : Independent(s[i]) /\ Root(s[i]) = x /\ LastRole(s, x) = s[i].role
<1> DEFINE reports == {i \in DOMAIN s : Independent(s[i]) /\ Root(s[i]) = x}
<1>1. reports # {} /\ reports \in SUBSET (1..Len(s)) /\ Len(s) \in Nat
  BY DEF IndependentRoots
<1>2. Max(reports) \in reports
  <2>1. \E m \in reports : \A h \in reports : h <= m
    BY <1>1, Extremes
  <2> QED BY <2>1 DEF Max
<1> QED BY <1>2 DEF LastRole

(* Neither the tier nor the coverage of an event counts a root twice.      *)
LEMMA Echoes == ASSUME RulesInv PROVE EchoesConfirmNothing
<1> SUFFICES ASSUME kind = "roots"
             PROVE  /\ Confirmed(input) <=>
                         \/ \E i \in DOMAIN input : Independent(input[i]) /\ input[i].role = "official"
                         \/ \E i, j \in DOMAIN input : Independent(input[i]) /\ Independent(input[j])
                              /\ input[i].role = "media" /\ input[j].role = "media"
                              /\ input[i].url # input[j].url
                    /\ Confirmed(input) <=> Credibility(input) >= CONFIRMATION_THRESHOLD
                    /\ Hotspot(input) => Confirmed(input)
                    /\ Coverage(input) < 70 /\ Confirmed(input) => RootsAs(input, "official") # {}
  BY DEF EchoesConfirmNothing
<1>1. PICK s \in Seq(Witnesses) : s = input
  BY DEF RulesInv
<1>2. Confirmed(s) <=> \/ \E i \in DOMAIN s : Independent(s[i]) /\ s[i].role = "official"
                       \/ \E i, j \in DOMAIN s : Independent(s[i]) /\ Independent(s[j])
                            /\ s[i].role = "media" /\ s[j].role = "media" /\ s[i].url # s[j].url
  BY ConfirmedByTwo DEF Own
<1>3. Confirmed(s) <=> Credibility(s) >= CONFIRMATION_THRESHOLD
  BY DEF Confirmed, Credibility, CONFIRMATION_THRESHOLD
<1>4. Hotspot(s) => Confirmed(s)
  <2> DEFINE media == {x \in IndependentRoots(s) : LastRole(s, x) = "media"}
  <2>1. ASSUME NEW x \in IndependentRoots(s), LastRole(s, x) = "official" PROVE Confirmed(s)
    BY <1>2, <2>1, LastReport
  <2>2. ASSUME NEW x \in media, NEW y \in media, x # y PROVE Confirmed(s)
    <3>1. PICK i \in DOMAIN s : Independent(s[i]) /\ Root(s[i]) = x /\ s[i].role = "media"
      BY LastReport
    <3>2. PICK j \in DOMAIN s : Independent(s[j]) /\ Root(s[j]) = y /\ s[j].role = "media"
      BY LastReport
    <3>3. s[i].url = x /\ s[j].url = y
      BY <3>1, <3>2, OwnAddress
    <3> QED BY <1>2, <2>2, <3>1, <3>2, <3>3
  <2>3. media \in SUBSET IndependentRoots(s)
    OBVIOUS
  <2>4. Cardinality(media) >= 2 => \E x, y \in media : x # y
    BY <2>3, RootsAreCounted, TwoOf
  <2> QED BY <2>1, <2>2, <2>4 DEF Hotspot
<1>5. Coverage(s) < 70 /\ Confirmed(s) => RootsAs(s, "official") # {}
  <2> SUFFICES ASSUME Confirmed(s), RootsAs(s, "official") = {} PROVE ~(Coverage(s) < 70)
    OBVIOUS
  <2>1. RootsAs(s, "media") \in SUBSET IndependentRoots(s)
    BY BestRole DEF Own, IndependentRoots
  <2>2. Cardinality(RootsAs(s, "media")) >= 2
    BY DEF Confirmed
  <2>3. \E x, y \in RootsAs(s, "media") : x # y
    BY <2>1, <2>2, RootsAreCounted, TwoOf
  <2>4. Cardinality(IndependentRoots(s)) >= 2 /\ Cardinality(IndependentRoots(s)) \in Nat
    BY <2>1, <2>3, RootsAreCounted, TwoOf
  <2> QED BY <2>4 DEF Coverage
<1> QED BY <1>1, <1>2, <1>3, <1>4, <1>5

---------------------------------------------------------------------------
(* Proposals.                                                              *)

(* No rule on two events tells the one scanned first from the other.       *)
LEMMA Symmetric ==
  ASSUME NEW l, NEW r
  PROVE  /\ Classify(l, r) = Classify(r, l)
         /\ Classify(l, r) = "deterministic_merge" =>
              ~Conflict(l.objects, r.objects) /\ ~Conflict(l.acts, r.acts)
<1>1. LegacyPair(l, r) <=> LegacyPair(r, l)
  <2>1. {l, r} = {r, l}
    OBVIOUS
  <2>2. l.members = r.members /\ l.members # {} <=> r.members = l.members /\ r.members # {}
    OBVIOUS
  <2> QED BY ONLY <2>1, <2>2 DEF LegacyPair
<1>2. \A a, b : (Shares(a, b) <=> Shares(b, a)) /\ (Conflict(a, b) <=> Conflict(b, a))
  BY DEF Shares, Conflict
<1>3. (\E a \in l.times, b \in r.times : a <= b + Window /\ b <= a + Window)
        <=> (\E a \in r.times, b \in l.times : a <= b + Window /\ b <= a + Window)
  BY DEF Window
<1>4. Classify(l, r) = Classify(r, l)
  BY <1>1, <1>2, <1>3 DEF Classify
<1>5. Classify(l, r) = "deterministic_merge" =>
        ~Conflict(l.objects, r.objects) /\ ~Conflict(l.acts, r.acts)
  BY DEF Classify
<1> QED BY <1>4, <1>5

(* In every state the rules are sound: what is selected is about the       *)
(* field, no pair that may be merged is lost, what repeats another root    *)
(* confirms nothing and proposals do not depend on the order, for any      *)
(* texts, items, number of witnesses and events.                           *)
THEOREM SoundRules == RuleSpec => []RulesAreSound
<1>1. RulesInv => RulesAreSound
  <2> SUFFICES ASSUME RulesInv PROVE RulesAreSound
    OBVIOUS
  <2>1. BlockingLosesNothing
    BY Blocked DEF BlockingLosesNothing
  <2>2. ProposalsAreSymmetric
    BY Symmetric DEF ProposalsAreSymmetric
  <2> QED BY <2>1, <2>2, Focused, Echoes DEF RulesAreSound
<1> QED BY <1>1, RulesInvariant, PTL
=============================================================================
