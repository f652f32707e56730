--------------------------- MODULE DailyAutopilot ---------------------------
(***************************************************************************)
(* The automatic daily report (DailyAutopilotHandler): a durable run       *)
(* (daily_autopilot_runs) is pushed through its stages by a chain of short *)
(* "continuation" operations.  A handler reads the run, does the work of   *)
(* one stage in transactions of its own, and then moves the run on and     *)
(* enqueues the next continuation in one transaction.  Workers crash and   *)
(* stall between these transactions; a person cancels the run from the web *)
(* page in yet other ones.                                                 *)
(*                                                                         *)
(* Child operations (waves, audio) are seen as they are by the handler:    *)
(* active until some idle worker has run them.  A wave names the report    *)
(* generated from it and the audio operation of that report.               *)
(***************************************************************************)
EXTENDS Naturals, FiniteSets, Functions

CONSTANTS
  Workers,
  MaxRuns,        \* daily runs asked for                                (bound)
  MaxWaves,       \* waves enqueued, wave 0 being one of another client  (bound)
  Slots,          \* continuations that are not terminal, at once        (bound)
  MaxFaults,      \* crashes and stalls of workers                       (bound)
  MaxCancels,     \* cancellations asked for on the web page             (bound)
  MaxAttempts,    \* MAX_ATTEMPTS
  None            \* SQL NULL

ASSUME AutopilotAssumption ==
  /\ IsFiniteSet(Workers) /\ Workers # {}
  /\ MaxRuns \in Nat /\ MaxWaves \in Nat /\ MaxFaults \in Nat /\ MaxCancels \in Nat
  /\ IsFiniteSet(Slots) /\ None \notin Slots
  /\ MaxAttempts \in Nat \ {0} /\ None \notin Nat \cup Workers

VARIABLES
  runs,           \* daily_autopilot_runs
  waves, drafts, audio,   \* child waves, the reports made of them, their audio
  audios,         \* audio operations ever enqueued for a report
  owner,          \* the run a wave was enqueued for (history)
  ops,            \* operation_runs of type daily_autopilot
  worker,         \* what each worker process does
  canceller,      \* the web request that cancels a run
  faults, cancels

children == <<waves, drafts, audio, audios, owner>>
budgets == <<faults, cancels>>
vars == <<runs, children, ops, worker, canceller, budgets>>

Runs == 1..MaxRuns
Waves == 0..MaxWaves

(* Stages of the content route; the source refresh and event pipeline      *)
(* stages, which no longer start a run, work like the wave stages.         *)
Path == <<"enqueue_content_wave", "wait_content_wave", "generate_report",
          "write_reviews", "archive_and_enqueue_audio", "wait_audio", "completed">>
Ended == {"completed", "failed", "cancelled"}
Stages == Range(Path) \cup Ended
Rank(stage) == CHOOSE i \in DOMAIN Path : Path[i] = stage

Run == [status : {"none", "queued", "running", "succeeded", "failed", "cancelled"},
        stage : Stages, event : Waves \cup {None}, report : Waves \cup {None},
        audio : Waves \cup {None}]

Active(r) == runs[r].status \in {"queued", "running"}

Free == [status |-> "free", run |-> None, stage |-> "completed",
         attempts |-> 0, holder |-> None, lapsed |-> FALSE]
Queued(r, stage) == [Free EXCEPT !.status = "queued", !.run = r, !.stage = stage]
Operation == [status : {"free", "queued", "running"}, run : Runs \cup {None}, stage : Stages,
              attempts : 0..MaxAttempts, holder : Workers \cup {None}, lapsed : BOOLEAN]

NewRun == [status |-> "queued", stage |-> Path[1], event |-> None, report |-> None, audio |-> None]

(* What a handler is about to write into the run: a stage, its status, and *)
(* the ids that it has obtained.                                           *)
StatusOf(stage) ==
  CASE stage = "completed" -> "succeeded" [] stage = "failed" -> "failed" [] OTHER -> "running"
To(stage) ==
  [stage |-> stage, status |-> StatusOf(stage), event |-> None, report |-> None, audio |-> None]

Idle == [at |-> "idle", slot |-> None, run |-> None, snap |-> NewRun, to |-> To("failed")]

Process == [at : {"idle", "leased", "loaded", "confirmed", "moving", "done"},
            slot : Slots \cup {None}, run : Runs \cup {None}, snap : Run, to : Run]

TypeOK ==
  /\ runs \in [Runs -> Run]
  /\ waves \in [Waves -> {"none", "active", "usable", "empty", "failed"}]
  /\ drafts \in [Waves -> {"none", "draft", "reviewed", "archived"}]
  /\ audio \in [Waves -> {"none", "active", "succeeded", "failed"}]
  /\ audios \in [Waves -> 0..2]
  /\ owner \in [Waves -> Runs \cup {None}]
  /\ ops \in [Slots -> Operation]
  /\ worker \in [Workers -> Process]
  /\ canceller \in [at : {"idle", "audio", "run"}, run : Runs \cup {None},
                    audio : Waves \cup {None}]
  /\ faults \in 0..MaxFaults /\ cancels \in 0..MaxCancels

Init ==
  /\ runs = [r \in Runs |-> [NewRun EXCEPT !.status = "none"]]
  /\ waves = [v \in Waves |-> "none"]
  /\ drafts = [v \in Waves |-> "none"]
  /\ audio = [v \in Waves |-> "none"]
  /\ audios = [v \in Waves |-> 0]
  /\ owner = [v \in Waves |-> None]
  /\ ops = [s \in Slots |-> Free]
  /\ worker = [w \in Workers |-> Idle]
  /\ canceller = [at |-> "idle", run |-> None, audio |-> None]
  /\ faults = 0 /\ cancels = 0

---------------------------------------------------------------------------
(* The run and its continuations.                                          *)

FreeSlots == {s \in Slots : ops[s].status = "free"}
Enqueued(r, stage) == [ops EXCEPT ![CHOOSE s \in FreeSlots : TRUE] = Queued(r, stage)]

(* enqueue_daily_autopilot_result: a new run unless one is active.         *)
EnqueueRun(r) ==
  /\ runs[r].status = "none" /\ \A q \in Runs : q < r => runs[q].status # "none"
  /\ \A q \in Runs : ~Active(q)
  /\ FreeSlots # {}
  /\ runs' = [runs EXCEPT ![r] = NewRun]
  /\ ops' = Enqueued(r, NewRun.stage)
  /\ UNCHANGED <<children, worker, canceller, budgets>>

(* transition: any state of the run is overwritten, ids only if given.     *)
Transitioned(run, to) ==
  [stage |-> to.stage, status |-> to.status,
   event |-> IF to.event = None THEN run.event ELSE to.event,
   report |-> IF to.report = None THEN run.report ELSE to.report,
   audio |-> IF to.audio = None THEN run.audio ELSE to.audio]

(* The stage of the continuation that _transition_and_continue enqueues;   *)
(* first the one the handler came from, as a mistake would have it.        *)
ContinuationStageBefore(w) == worker[w].snap.stage
ContinuationStage(w) == worker[w].to.stage

(* _transition_and_continue, _fail and _finish.                            *)
Move(w) ==
  /\ worker[w].at = "moving"
  /\ runs' = [runs EXCEPT ![worker[w].run] = Transitioned(@, worker[w].to)]
  /\ IF worker[w].to.stage \in Ended
     THEN UNCHANGED ops
     ELSE FreeSlots # {} /\ ops' = Enqueued(worker[w].run, ContinuationStage(w))
  /\ worker' = [worker EXCEPT ![w].at = "done"]
  /\ UNCHANGED <<children, canceller, budgets>>

---------------------------------------------------------------------------
(* A worker and the handler it runs.                                       *)

Lease(w, s) ==
  /\ worker[w].at = "idle"
  /\ \/ ops[s].status = "queued"
     \/ ops[s].status = "running" /\ ops[s].lapsed /\ ops[s].attempts < MaxAttempts
  /\ ops' = [ops EXCEPT ![s].status = "running", ![s].holder = w, ![s].lapsed = FALSE,
                        ![s].attempts = @ + 1]
  /\ worker' = [worker EXCEPT ![w] =
                 [Idle EXCEPT !.at = "leased", !.slot = s, !.run = ops[s].run]]
  /\ UNCHANGED <<runs, children, canceller, budgets>>

Owns(w) == ops[worker[w].slot].holder = w
Renewed(w) == [ops EXCEPT ![worker[w].slot].lapsed = FALSE]

(* The handler goes on only if the run is in the stage it was enqueued for.*)
(* A wrong one: any stage that has not ended is gone on with.              *)
AppliesUnlessEnded(w) == runs[worker[w].run].stage \notin Ended
LeasedStage(w) == ops[worker[w].slot].stage
Applies(w) == runs[worker[w].run].stage = LeasedStage(w)

(* The first checkpoint, and the read of the run.                          *)
Load(w) ==
  /\ worker[w].at = "leased" /\ Owns(w)
  /\ ops' = Renewed(w)
  /\ worker' = [worker EXCEPT ![w].at = IF Applies(w) THEN "loaded" ELSE "done",
                              ![w].snap = [runs[worker[w].run] EXCEPT !.stage = LeasedStage(w)]]
  /\ UNCHANGED <<runs, children, canceller, budgets>>

InStage(w, at, stage) == worker[w].at = at /\ worker[w].snap.stage = stage
Decide(w, to) == worker' = [worker EXCEPT ![w].at = "moving", ![w].to = to]

(* Items of a draft are left to be reviewed, whether or not the model may  *)
(* still be called for them.                                               *)
ReviewsPending(v) == drafts[v] = "draft"

(* Stages that do nothing but move on: their work is already recorded.     *)
AlreadyDone(w) ==
  /\ \/ InStage(w, "loaded", "enqueue_content_wave") /\ worker[w].snap.event # None
        /\ Decide(w, To("wait_content_wave"))
     \/ InStage(w, "loaded", "generate_report") /\ worker[w].snap.report # None
        /\ Decide(w, [To("write_reviews") EXCEPT !.report = worker[w].snap.report])
     \/ InStage(w, "loaded", "write_reviews") /\ ~ReviewsPending(worker[w].snap.report)
        /\ Decide(w, To("archive_and_enqueue_audio"))
  /\ UNCHANGED <<runs, children, ops, canceller, budgets>>

(* The checkpoint before the work of the other stages.                     *)
Confirm(w) ==
  /\ \/ InStage(w, "loaded", "enqueue_content_wave") /\ worker[w].snap.event = None
     \/ InStage(w, "loaded", "generate_report") /\ worker[w].snap.report = None
     \/ InStage(w, "loaded", "write_reviews") /\ ReviewsPending(worker[w].snap.report)
     \/ InStage(w, "loaded", "archive_and_enqueue_audio")
  /\ Owns(w)
  /\ ops' = Renewed(w)
  /\ worker' = [worker EXCEPT ![w].at = "confirmed"]
  /\ UNCHANGED <<runs, children, canceller, budgets>>

(* enqueue_high_value_wave refuses a second active wave.                   *)
WaveIsActive == \E v \in Waves : waves[v] = "active"

EnqueueWave(w) ==
  /\ InStage(w, "confirmed", "enqueue_content_wave")
  /\ \/ /\ WaveIsActive
        /\ Decide(w, To("enqueue_content_wave"))
        /\ UNCHANGED <<waves, owner>>
     \/ /\ ~WaveIsActive
        /\ \E v \in Waves \ {0} :
             /\ waves[v] = "none" /\ \A u \in 1..(v - 1) : waves[u] # "none"
             /\ waves' = [waves EXCEPT ![v] = "active"]
             /\ owner' = [owner EXCEPT ![v] = worker[w].run]
             /\ Decide(w, [To("wait_content_wave") EXCEPT !.event = v])
  /\ UNCHANGED <<runs, drafts, audio, audios, ops, canceller, budgets>>

(* Where the run goes when its wave is found so: "empty" has a complete    *)
(* event manifest without events.  First, whatever wave is over would do.  *)
AfterAnyWave(state) == IF state = "active" THEN "wait_content_wave" ELSE "generate_report"
AfterWave(state) ==
  CASE state = "active" -> "wait_content_wave"
    [] state = "usable" -> "generate_report"
    [] state = "empty" -> "completed"
    [] state \in {"none", "failed"} -> "failed"

WaitForWave(w) ==
  /\ InStage(w, "loaded", "wait_content_wave")
  /\ Decide(w, To(AfterWave(waves[worker[w].snap.event])))
  /\ UNCHANGED <<runs, children, ops, canceller, budgets>>

(* generate_from_operation: the report of the wave, made at most once; not *)
(* while a draft of another operation is open that day (begin_publication).*)
Blocking(v) == {u \in Waves \ {v} : drafts[u] \in {"draft", "reviewed"}}

GenerateReport(w) ==
  LET v == worker[w].snap.event IN
  /\ InStage(w, "confirmed", "generate_report")
  /\ IF drafts[v] = "none" /\ Blocking(v) # {}
     THEN Decide(w, To("failed")) /\ UNCHANGED drafts
     ELSE /\ Decide(w, [To("write_reviews") EXCEPT !.report = v])
          /\ drafts' = IF drafts[v] = "none" THEN [drafts EXCEPT ![v] = "draft"] ELSE drafts
  /\ UNCHANGED <<runs, waves, audio, audios, owner, ops, canceller, budgets>>

(* save_automatic_chinese_reviews, which writes drafts only.               *)
WriteReviews(w) ==
  LET v == worker[w].snap.report IN
  /\ InStage(w, "confirmed", "write_reviews")
  /\ IF drafts[v] = "archived"
     THEN Decide(w, To("failed")) /\ UNCHANGED drafts
     ELSE /\ Decide(w, To("archive_and_enqueue_audio"))
          /\ drafts' = [drafts EXCEPT ![v] = "reviewed"]
  /\ UNCHANGED <<runs, waves, audio, audios, owner, ops, canceller, budgets>>

(* An archived report keeps its audio operation, whatever became of it,    *)
(* and not only an active one.                                             *)
KeepsAudioWhileActive(v) == drafts[v] = "archived" /\ audio[v] = "active"
KeepsAudio(v) == drafts[v] = "archived" /\ audio[v] # "none"

(* archive_and_enqueue_daily_report_audio, in one transaction.             *)
ArchivedWithAudio(v) ==
  IF KeepsAudio(v) THEN UNCHANGED <<drafts, audio, audios>>
  ELSE /\ drafts' = [drafts EXCEPT ![v] = "archived"]
       /\ audio' = [audio EXCEPT ![v] = "active"]
       /\ audios' = [audios EXCEPT ![v] = @ + 1]

ArchiveAndEnqueueAudio(w) ==
  LET v == worker[w].snap.report IN
  /\ InStage(w, "confirmed", "archive_and_enqueue_audio")
  /\ Decide(w, [To("wait_audio") EXCEPT !.audio = v])
  /\ IF worker[w].snap.audio # None THEN UNCHANGED <<drafts, audio, audios>>
     ELSE ArchivedWithAudio(v)
  /\ UNCHANGED <<runs, waves, owner, ops, canceller, budgets>>

WaitForAudio(w) ==
  /\ InStage(w, "loaded", "wait_audio")
  /\ Decide(w, To(CASE audio[worker[w].snap.audio] = "active" -> "wait_audio"
                    [] audio[worker[w].snap.audio] = "succeeded" -> "completed"
                    [] audio[worker[w].snap.audio] \in {"none", "failed"} -> "failed"))
  /\ UNCHANGED <<runs, children, ops, canceller, budgets>>

(* An exception of the stage, or of the move, fails the run.               *)
Trouble(w) ==
  /\ \/ worker[w].at \in {"loaded", "confirmed"}
     \/ worker[w].at = "moving" /\ worker[w].to.stage # "failed"
  /\ Decide(w, To("failed"))
  /\ UNCHANGED <<runs, children, ops, canceller, budgets>>

(* finish_attempt of the continuation; one that lost its lease is left.    *)
Return(w) ==
  /\ \/ worker[w].at = "done"
     \/ worker[w].at \in {"leased", "loaded"} /\ ~Owns(w)
  /\ ops' = IF Owns(w) THEN [ops EXCEPT ![worker[w].slot] = Free] ELSE ops
  /\ worker' = [worker EXCEPT ![w] = Idle]
  /\ UNCHANGED <<runs, children, canceller, budgets>>

(* The process dies, or has no database even to fail the run; or else its  *)
(* heartbeat is late.                                                      *)
Crash(w) ==
  /\ faults < MaxFaults /\ worker[w].at # "idle"
  /\ faults' = faults + 1
  /\ ops' = IF Owns(w) THEN [ops EXCEPT ![worker[w].slot].lapsed = TRUE] ELSE ops
  /\ worker' = [worker EXCEPT ![w] = Idle]
  /\ UNCHANGED <<runs, children, canceller, cancels>>

Stall(w) ==
  /\ faults < MaxFaults /\ worker[w].at # "idle" /\ Owns(w) /\ ~ops[worker[w].slot].lapsed
  /\ faults' = faults + 1
  /\ ops' = [ops EXCEPT ![worker[w].slot].lapsed = TRUE]
  /\ UNCHANGED <<runs, children, worker, canceller, cancels>>

---------------------------------------------------------------------------
(* Children, another client, and the web page.                             *)

SomeIdle == \E w \in Workers : worker[w].at = "idle"

WaveEnds(v) ==
  /\ waves[v] = "active" /\ SomeIdle
  /\ \E result \in {"usable", "empty", "failed"} : waves' = [waves EXCEPT ![v] = result]
  /\ UNCHANGED <<runs, drafts, audio, audios, owner, ops, worker, canceller, budgets>>

AudioEnds(v) ==
  /\ audio[v] = "active" /\ SomeIdle
  /\ \E result \in {"succeeded", "failed"} : audio' = [audio EXCEPT ![v] = result]
  /\ UNCHANGED <<runs, waves, drafts, audios, owner, ops, worker, canceller, budgets>>

(* A wave enqueued from the events page or the command line.               *)
OtherWave ==
  /\ waves[0] = "none" /\ ~WaveIsActive
  /\ waves' = [waves EXCEPT ![0] = "active"]
  /\ UNCHANGED <<runs, drafts, audio, audios, owner, ops, worker, canceller, budgets>>

(* runs.cancel, in a transaction of its own.                               *)
RunCancelled(r) ==
  runs' = IF Active(r) THEN [runs EXCEPT ![r].stage = "cancelled", ![r].status = "cancelled"]
          ELSE runs

(* POST cancel: the ids of the children are read under the lock of the run,*)
(* but every request_cancel commits.  A child ends early, or did not notice*)
(* yet.                                                                    *)
CancelRead(r) ==
  /\ canceller.at = "idle" /\ runs[r].status # "none" /\ cancels < MaxCancels
  /\ cancels' = cancels + 1
  /\ \/ /\ runs[r].event = None
        /\ RunCancelled(r)
        /\ UNCHANGED <<waves, canceller>>
     \/ /\ runs[r].event # None
        /\ canceller' = [at |-> IF runs[r].audio = None THEN "run" ELSE "audio",
                         run |-> r, audio |-> runs[r].audio]
        /\ \/ UNCHANGED waves
           \/ waves[runs[r].event] = "active" /\ waves' = [waves EXCEPT ![runs[r].event] = "failed"]
        /\ UNCHANGED runs
  /\ UNCHANGED <<drafts, audio, audios, owner, ops, worker, faults>>

CancelAudio ==
  /\ canceller.at = "audio"
  /\ canceller' = [canceller EXCEPT !.at = "run"]
  /\ \/ UNCHANGED audio
     \/ audio[canceller.audio] = "active" /\ audio' = [audio EXCEPT ![canceller.audio] = "failed"]
  /\ UNCHANGED <<runs, waves, drafts, audios, owner, ops, worker, budgets>>

CancelRun ==
  /\ canceller.at = "run"
  /\ RunCancelled(canceller.run)
  /\ canceller' = [at |-> "idle", run |-> None, audio |-> None]
  /\ UNCHANGED <<children, ops, worker, budgets>>

Children == \E v \in Waves : WaveEnds(v) \/ AudioEnds(v)

HandlerStep(w) ==
  \/ Load(w) \/ AlreadyDone(w) \/ Confirm(w) \/ EnqueueWave(w) \/ WaitForWave(w)
  \/ GenerateReport(w) \/ WriteReviews(w) \/ ArchiveAndEnqueueAudio(w)
  \/ WaitForAudio(w) \/ Move(w) \/ Return(w)

Next ==
  \/ \E r \in Runs : EnqueueRun(r) \/ CancelRead(r)
  \/ CancelAudio \/ CancelRun \/ OtherWave
  \/ \E w \in Workers :
       HandlerStep(w) \/ Trouble(w) \/ Crash(w) \/ Stall(w) \/ \E s \in Slots : Lease(w, s)
  \/ Children

Spec == Init /\ [][Next]_vars

(* Workers go on and lease whatever is ready.  The oldest ready operation  *)
(* is leased first and every continuation is younger than the child it     *)
(* waits for, so a child that can be run again and again is run.           *)
Fairness ==
  /\ \A w \in Workers : WF_vars(HandlerStep(w) \/ \E s \in Slots : Lease(w, s))
  /\ SF_vars(Children)

FairSpec == Spec /\ Fairness

---------------------------------------------------------------------------
(* Properties.                                                             *)

(* An active run is never without the continuation that will take it on    *)
(* from its current stage, wherever a worker crashes or stalls.            *)
ChainIsAlive ==
  \A r \in Runs : Active(r) =>
    \E s \in Slots : ops[s].status # "free" /\ ops[s].run = r /\ ops[s].stage = runs[r].stage

(* Each fault leaves at most one continuation behind that is enqueued a    *)
(* second time, and each cancellation the one of the run it ended: the     *)
(* chain does not multiply, whatever it waits for.                         *)
Continuations == {s \in Slots : ops[s].status # "free"}
ContinuationsAreBounded ==
  Cardinality(Continuations) <= 1 + Cardinality(Workers) + faults + cancels

(* A report has one audio operation, however often the stage that archives *)
(* it is run again.                                                        *)
AudioOnlyOnce == \A v \in Waves : audios[v] <= 1

(* Only a reviewed report is archived.                                     *)
OnlyReviewedIsArchived ==
  [][\A v \in Waves : drafts[v] # drafts'[v] /\ drafts'[v] = "archived"
       => drafts[v] = "reviewed"]_vars

(* A run that succeeds either had no content, or has published the report  *)
(* of a usable wave of its own and has its audio.                          *)
SuccessIsPublished ==
  \A r \in Runs : runs[r].status = "succeeded" =>
    /\ owner[runs[r].event] = r
    /\ \/ waves[runs[r].event] = "empty" /\ runs[r].report = None
       \/ /\ waves[runs[r].event] = "usable"
          /\ runs[r].report = runs[r].event /\ runs[r].audio = runs[r].report
          /\ drafts[runs[r].report] = "archived" /\ audio[runs[r].audio] = "succeeded"

(* A run never goes back to a stage it left, and one that succeeded or     *)
(* failed stays so, whatever continuations of it are still queued.         *)
StagesOnlyAdvance ==
  [][\A r \in Runs :
       /\ runs[r].status = "running" /\ runs'[r].status = "running"
            => Rank(runs[r].stage) <= Rank(runs'[r].stage)
       /\ runs[r].status \in {"succeeded", "failed"} => runs'[r] = runs[r]]_vars

(* Every run ends: the handler never waits for a child, so one worker is   *)
(* enough to run the children in between.  (Not so where a continuation is *)
(* cancelled, or faults use up its attempts: nothing enqueues it again.    *)
(* Here nobody cancels one, and there are fewer faults than attempts.)     *)
RunEnds == \A r \in Runs : Active(r) ~> ~Active(r)

(* The chain of continuations neither breaks nor multiplies.               *)
ChainIsSound == TypeOK /\ ChainIsAlive /\ ContinuationsAreBounded

(* What a run published is there, once.                                    *)
PublicationIsSound == AudioOnlyOnce /\ SuccessIsPublished

(* Runs and reports go through their stages in order.                      *)
StagesAreOrdered == StagesOnlyAdvance /\ OnlyReviewedIsArchived
=============================================================================
