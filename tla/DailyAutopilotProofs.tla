------------------------ MODULE DailyAutopilotProofs ------------------------
(***************************************************************************)
(* Safety of DailyAutopilot.  The first part holds for every number of     *)
(* workers, runs, waves, faults and cancellations: handlers find what      *)
(* their stage needs, the chain of continuations neither breaks nor        *)
(* multiplies, and audio is asked for once.  The second part is about the  *)
(* one worker that the program runs.                                       *)
(***************************************************************************)
EXTENDS DailyAutopilot, FiniteSetTheorems, TLAPS

USE AutopilotAssumption

(* What a run must have obtained to be in a stage.                         *)
Has(run, stage) ==
  /\ stage \in {"wait_content_wave", "generate_report", "write_reviews",
                "archive_and_enqueue_audio", "wait_audio"} => run.event # None
  /\ stage \in {"write_reviews", "archive_and_enqueue_audio", "wait_audio"} => run.report # None
  /\ stage = "wait_audio" => run.audio # None

(* What was obtained is replaced at most, also under a stale handler.      *)
Grown(old, new) ==
  /\ old.event # None => new.event # None
  /\ old.report # None => new.report # None
  /\ old.audio # None => new.audio # None

RunsAreFilled == \A r \in Runs : Has(runs[r], runs[r].stage)

(* Continuations belong to runs; a queued one has not been leased.         *)
OpsAreLinked ==
  \A s \in Slots :
    /\ ops[s].status # "free" => ops[s].run \in Runs /\ runs[ops[s].run].status # "none"
    /\ ops[s].status = "queued" => ops[s].attempts = 0
    /\ ops[s].status # "running" => ops[s].holder = None

(* A handler knows a run no longer than it is, and an owner its operation. *)
Handling(w) ==
  /\ worker[w].slot \in Slots
  /\ worker[w].run \in Runs /\ runs[worker[w].run].status # "none"
  /\ worker[w].at \in {"loaded", "confirmed", "moving"} =>
       Has(worker[w].snap, worker[w].snap.stage) /\ Grown(worker[w].snap, runs[worker[w].run])
  /\ worker[w].at = "moving" =>
       /\ Has(Transitioned(runs[worker[w].run], worker[w].to), worker[w].to.stage)
       /\ worker[w].to.status = StatusOf(worker[w].to.stage)
       /\ worker[w].to.stage # "cancelled"
  /\ Owns(w) => ops[worker[w].slot].run = worker[w].run

Cancelling ==
  /\ canceller.at # "idle" => canceller.run \in Runs
  /\ canceller.at = "audio" => canceller.audio \in Waves

(* The audio of an archived report is found again.                         *)
AudioIsKept ==
  \A v \in Waves : audios[v] # 0 => audios[v] = 1 /\ drafts[v] = "archived" /\ audio[v] # "none"

Linked ==
  /\ TypeOK /\ RunsAreFilled /\ OpsAreLinked /\ Cancelling /\ AudioIsKept
  /\ \A w \in Workers : worker[w].at # "idle" => Handling(w)

(* A continuation that no handler is about to finish.                      *)
Open(s) ==
  /\ ops[s].status # "free"
  /\ \A w \in Workers : worker[w].at = "done" /\ worker[w].slot = s => ops[s].holder # w

(* An active run has an open continuation for its stage.                   *)
OpenChain ==
  \A r \in Runs : Active(r) =>
    \E s \in Slots : Open(s) /\ ops[s].run = r /\ ops[s].stage = runs[r].stage

(* Continuations are accounted for by the active run, by handlers that     *)
(* have moved on, and by faults and cancellations that have had no         *)
(* effect yet.                                                             *)
Fresh(w) == Owns(w) /\ ~ops[worker[w].slot].lapsed
Strays == {w \in Workers : worker[w].at \notin {"idle", "done"} /\ ~Fresh(w)}
Settled == {w \in Workers : worker[w].at = "done" /\ Fresh(w)}
ActiveCount == IF \E r \in Runs : Active(r) THEN 1 ELSE 0
CancelCount == IF canceller.at = "idle" THEN 0 ELSE 1
Accounted ==
  Cardinality(Continuations) + Cardinality(Strays) + CancelCount
    <= ActiveCount + Cardinality(Settled) + faults + cancels

IInv == Linked /\ OpenChain /\ Accounted

---------------------------------------------------------------------------
(* The stages of the content route and the ends of a run.                  *)
LEMMA StageNames ==
  Stages = {"enqueue_content_wave", "wait_content_wave", "generate_report", "write_reviews",
            "archive_and_enqueue_audio", "wait_audio", "completed", "failed", "cancelled"}
<1>1. DOMAIN Path = 1..7 BY DEF Path
<1>2. Range(Path) = {Path[1], Path[2], Path[3], Path[4], Path[5], Path[6], Path[7]}
  BY <1>1 DEF Range
<1> QED BY <1>2 DEF Stages, Ended, Path

(* Numbers of runs and waves are not NULL.                                 *)
LEMMA NotNull == None \notin Runs /\ None \notin Waves
BY DEF Runs, Waves

(* A continuation is enqueued into a free slot.                            *)
LEMMA EnqueuedSlot ==
  ASSUME FreeSlots # {}, NEW r, NEW stage
  PROVE  \E s \in Slots : ops[s].status = "free"
           /\ Enqueued(r, stage) = [ops EXCEPT ![s] = Queued(r, stage)]
<1>1. (CHOOSE s \in FreeSlots : TRUE) \in FreeSlots OBVIOUS
<1> QED BY <1>1 DEF FreeSlots, Enqueued

LEMMA InitLinked == Init => Linked
<1> SUFFICES ASSUME Init PROVE Linked
  OBVIOUS
<1> USE NotNull DEF Init
<1>1. \A stage \in {"enqueue_content_wave", "wait_content_wave", "completed", "failed"} : stage \in Stages
  BY StageNames
<1>2. NewRun \in Run BY <1>1 DEF NewRun, Run, Path
<1>3. Free \in Operation BY <1>1 DEF Free, Operation
<1>4. To("failed") \in Run BY <1>1 DEF To, Run, StatusOf
<1>5. TypeOK
  <2>1. runs \in [Runs -> Run] BY <1>1 DEF NewRun, Run, Path
  <2>2. worker \in [Workers -> Process] BY <1>2, <1>4 DEF Idle, Process
  <2> QED BY <1>3, <2>1, <2>2 DEF TypeOK
<1>6. RunsAreFilled BY DEF RunsAreFilled, Has, NewRun, Path
<1>7. OpsAreLinked BY DEF OpsAreLinked, Free
<1>8. Cancelling /\ AudioIsKept BY DEF Cancelling, AudioIsKept
<1>9. \A w \in Workers : worker[w].at = "idle" BY DEF Idle
<1> QED BY <1>5, <1>6, <1>7, <1>8, <1>9 DEF Linked

(* A decision of a handler that has the ids its next stage needs keeps the *)
(* links, whatever it did to the children before.                          *)
LEMMA DecideStep ==
  ASSUME Linked, NEW w \in Workers, worker[w].at \in {"loaded", "confirmed", "moving"},
         NEW to \in Run, Decide(w, to), to.status = StatusOf(to.stage), to.stage # "cancelled",
         Has(Transitioned(runs[worker[w].run], to), to.stage),
         UNCHANGED <<runs, ops, canceller, budgets>>,
         waves' \in [Waves -> {"none", "active", "usable", "empty", "failed"}],
         drafts' \in [Waves -> {"none", "draft", "reviewed", "archived"}],
         audio' \in [Waves -> {"none", "active", "succeeded", "failed"}],
         audios' \in [Waves -> 0..2], owner' \in [Waves -> Runs \cup {None}],
         AudioIsKept'
  PROVE  Linked'
<1> USE DEF Decide, budgets
<1>1. TypeOK /\ RunsAreFilled /\ OpsAreLinked /\ Cancelling /\ Handling(w) BY DEF Linked
<1>2. TypeOK'
  <2>0. worker[w] \in Process BY <1>1 DEF TypeOK
  <2>1. [worker[w] EXCEPT !.at = "moving", !.to = to] \in Process BY <2>0 DEF Process
  <2>2. worker' = [worker EXCEPT ![w] = [worker[w] EXCEPT !.at = "moving", !.to = to]]
    <3>1. worker \in [Workers -> Process] BY <1>1 DEF TypeOK
    <3> QED BY <3>1
  <2>3. worker' \in [Workers -> Process] BY <1>1, <2>1, <2>2 DEF TypeOK
  <2> QED BY <1>1, <2>3 DEF TypeOK
<1>3. RunsAreFilled' /\ OpsAreLinked' /\ Cancelling'
  BY <1>1 DEF RunsAreFilled, OpsAreLinked, Cancelling
<1>4. Handling(w)' BY <1>1 DEF Handling, Owns, TypeOK, Process
<1>5. ASSUME NEW u \in Workers, u # w, worker'[u].at # "idle" PROVE Handling(u)'
  <2>1. worker'[u] = worker[u] BY <1>1, <1>5 DEF TypeOK
  <2>2. Handling(u) BY <1>5, <2>1 DEF Linked
  <2> QED BY <2>1, <2>2 DEF Handling, Owns
<1> QED BY <1>2, <1>3, <1>4, <1>5 DEF Linked

(* What a handler may write into its run.                                  *)
LEMMA ToType ==
  ASSUME NEW stage \in Stages \ {"cancelled"}
  PROVE  /\ To(stage) \in Run /\ To(stage).status = StatusOf(stage) /\ To(stage).stage = stage
         /\ To(stage).event = None /\ To(stage).report = None /\ To(stage).audio = None
BY StageNames DEF To, Run, StatusOf

LEMMA DecisionSteps ==
  ASSUME Linked, NEW w \in Workers,
         \/ AlreadyDone(w) \/ EnqueueWave(w) \/ WaitForWave(w) \/ GenerateReport(w)
         \/ WriteReviews(w) \/ ArchiveAndEnqueueAudio(w) \/ WaitForAudio(w) \/ Trouble(w)
  PROVE  Linked'
<1> DEFINE run == runs[worker[w].run]
           snap == worker[w].snap
<1> USE NotNull DEF InStage, children
<1>1. TypeOK /\ AudioIsKept BY DEF Linked
<1>2. worker[w].at \in {"loaded", "confirmed", "moving"}
  BY DEF AlreadyDone, EnqueueWave, WaitForWave, GenerateReport, WriteReviews,
         ArchiveAndEnqueueAudio, WaitForAudio, Trouble
<1>3. Handling(w) BY <1>2 DEF Linked
<1>4. /\ Has(snap, snap.stage) /\ Grown(snap, run) /\ snap \in Run
  <2>1. worker[w] \in Process BY <1>1 DEF TypeOK
  <2> QED BY <1>2, <1>3, <2>1 DEF Handling, Process
<1>5. /\ waves \in [Waves -> {"none", "active", "usable", "empty", "failed"}]
      /\ drafts \in [Waves -> {"none", "draft", "reviewed", "archived"}]
      /\ audio \in [Waves -> {"none", "active", "succeeded", "failed"}]
      /\ audios \in [Waves -> 0..2] /\ owner \in [Waves -> Runs \cup {None}]
  BY <1>1 DEF TypeOK
<1>6. run.event \in Waves \cup {None} /\ run.report \in Waves \cup {None}
  BY <1>1, <1>3 DEF Handling, TypeOK, Run
<1>7. CASE AlreadyDone(w)
  <2>1. UNCHANGED <<waves, drafts, audio, audios, owner, runs, ops, canceller, budgets>>
        /\ AudioIsKept'
    BY <1>1, <1>7 DEF AlreadyDone, AudioIsKept
  <2>2. CASE snap.stage = "enqueue_content_wave"
    <3>1. Decide(w, To("wait_content_wave")) /\ run.event # None
      BY <1>4, <1>7, <2>2 DEF AlreadyDone, Grown
    <3>2. Has(Transitioned(run, To("wait_content_wave")), "wait_content_wave")
      BY <3>1, ToType, StageNames DEF Has, Transitioned
    <3> QED BY <1>2, <1>5, <2>1, <3>1, <3>2, ToType, StageNames, DecideStep
  <2>3. CASE snap.stage = "generate_report"
    <3> DEFINE to == [To("write_reviews") EXCEPT !.report = snap.report]
    <3>1. Decide(w, to) /\ run.event # None /\ snap.report \in Waves
      BY <1>4, <1>7, <2>3 DEF AlreadyDone, Grown, Has, Run
    <3>2. to \in Run /\ to.status = StatusOf(to.stage) /\ to.stage = "write_reviews"
          /\ to.event = None /\ to.report = snap.report
      BY <3>1, ToType, StageNames DEF Run
    <3>3. Has(Transitioned(run, to), to.stage) BY <3>1, <3>2 DEF Has, Transitioned
    <3> HIDE DEF to
    <3> QED BY <1>2, <1>5, <2>1, <3>1, <3>2, <3>3, DecideStep
  <2>4. CASE snap.stage = "write_reviews"
    <3>1. Decide(w, To("archive_and_enqueue_audio")) /\ run.event # None /\ run.report # None
      BY <1>4, <1>7, <2>4 DEF AlreadyDone, Grown, Has
    <3>2. Has(Transitioned(run, To("archive_and_enqueue_audio")), "archive_and_enqueue_audio")
      BY <3>1, ToType, StageNames DEF Has, Transitioned
    <3> QED BY <1>2, <1>5, <2>1, <3>1, <3>2, ToType, StageNames, DecideStep
  <2> QED BY <1>7, <2>2, <2>3, <2>4 DEF AlreadyDone
<1>8. CASE EnqueueWave(w)
  <2>1. UNCHANGED <<drafts, audio, audios, runs, ops, canceller, budgets>> /\ AudioIsKept'
    BY <1>1, <1>8 DEF EnqueueWave, AudioIsKept
  <2>2. CASE WaveIsActive
    <3>1. Decide(w, To("enqueue_content_wave")) /\ UNCHANGED <<waves, owner>>
      BY <1>8, <2>2 DEF EnqueueWave
    <3>2. Has(Transitioned(run, To("enqueue_content_wave")), "enqueue_content_wave") BY DEF Has
    <3> QED BY <1>2, <1>5, <2>1, <3>1, <3>2, ToType, StageNames, DecideStep
  <2>3. CASE ~WaveIsActive
    <3>1. PICK v \in Waves : /\ waves' = [waves EXCEPT ![v] = "active"]
                             /\ owner' = [owner EXCEPT ![v] = worker[w].run]
                             /\ Decide(w, [To("wait_content_wave") EXCEPT !.event = v])
      BY <1>8, <2>3 DEF EnqueueWave
    <3> DEFINE to == [To("wait_content_wave") EXCEPT !.event = v]
    <3>2. to \in Run /\ to.status = StatusOf(to.stage) /\ to.stage = "wait_content_wave"
          /\ to.event = v
      BY <3>1, ToType, StageNames DEF Run
    <3>3. Has(Transitioned(run, to), to.stage) BY <3>2 DEF Has, Transitioned
    <3>4. /\ waves' \in [Waves -> {"none", "active", "usable", "empty", "failed"}]
          /\ owner' \in [Waves -> Runs \cup {None}]
      BY <1>3, <1>5, <3>1 DEF Handling
    <3>5. Decide(w, to) BY <3>1
    <3> HIDE DEF to
    <3> QED BY <1>2, <1>5, <2>1, <3>2, <3>3, <3>4, <3>5, DecideStep
  <2> QED BY <2>2, <2>3
<1>9. CASE WaitForWave(w)
  <2>1. UNCHANGED <<waves, drafts, audio, audios, owner, runs, ops, canceller, budgets>>
        /\ AudioIsKept'
    BY <1>1, <1>9 DEF WaitForWave, AudioIsKept
  <2> DEFINE stage == AfterWave(waves[snap.event])
  <2>2. snap.event \in Waves /\ run.event # None /\ Decide(w, To(stage))
    BY <1>4, <1>9 DEF WaitForWave, Has, Grown, Run
  <2>3. stage \in {"wait_content_wave", "generate_report", "completed", "failed"}
    BY <1>5, <2>2 DEF AfterWave
  <2> HIDE DEF stage
  <2>4. stage \in Stages \ {"cancelled"} BY <2>3, StageNames
  <2>5. Has(Transitioned(run, To(stage)), stage) BY <2>2, <2>3, <2>4, ToType DEF Has, Transitioned
  <2> QED BY <1>2, <1>5, <2>1, <2>2, <2>4, <2>5, ToType, DecideStep
<1>10. CASE GenerateReport(w)
  <2> DEFINE v == snap.event
  <2>0. UNCHANGED <<waves, audio, audios, owner, runs, ops, canceller, budgets>>
        /\ snap.stage = "generate_report"
    BY <1>10 DEF GenerateReport
  <2>1. v \in Waves /\ run.event # None
    BY <1>4, <2>0 DEF Has, Grown, Run
  <2>2. CASE Decide(w, To("failed")) /\ UNCHANGED drafts
    <3>1. AudioIsKept' BY <1>1, <2>0, <2>2 DEF AudioIsKept
    <3>2. Has(Transitioned(run, To("failed")), "failed") BY DEF Has
    <3> QED BY <1>2, <1>5, <2>0, <2>2, <3>1, <3>2, ToType, StageNames, DecideStep
  <2>3. CASE /\ Decide(w, [To("write_reviews") EXCEPT !.report = v])
             /\ drafts' = IF drafts[v] = "none" THEN [drafts EXCEPT ![v] = "draft"] ELSE drafts
    <3> DEFINE to == [To("write_reviews") EXCEPT !.report = v]
    <3>1. to \in Run /\ to.status = StatusOf(to.stage) /\ to.stage = "write_reviews"
          /\ to.event = None /\ to.report = v
      BY <2>1, ToType, StageNames DEF Run
    <3>2. Has(Transitioned(run, to), to.stage) BY <2>1, <3>1 DEF Has, Transitioned
    <3>3. drafts' \in [Waves -> {"none", "draft", "reviewed", "archived"}] BY <1>5, <2>3
    <3>4. AudioIsKept' BY <1>1, <1>5, <2>0, <2>1, <2>3 DEF AudioIsKept
    <3>5. Decide(w, to) BY <2>3
    <3> HIDE DEF to
    <3> QED BY <1>2, <1>5, <2>0, <3>1, <3>2, <3>3, <3>4, <3>5, DecideStep
  <2> QED BY <1>10, <2>2, <2>3 DEF GenerateReport
<1>11. CASE WriteReviews(w)
  <2> DEFINE v == snap.report
  <2>0. UNCHANGED <<waves, audio, audios, owner, runs, ops, canceller, budgets>>
        /\ snap.stage = "write_reviews"
    BY <1>11 DEF WriteReviews
  <2>1. v \in Waves /\ run.event # None /\ run.report # None
    BY <1>4, <2>0 DEF Has, Grown, Run
  <2>2. CASE Decide(w, To("failed")) /\ UNCHANGED drafts
    <3>1. AudioIsKept' BY <1>1, <2>0, <2>2 DEF AudioIsKept
    <3>2. Has(Transitioned(run, To("failed")), "failed") BY DEF Has
    <3> QED BY <1>2, <1>5, <2>0, <2>2, <3>1, <3>2, ToType, StageNames, DecideStep
  <2>3. CASE /\ drafts[v] # "archived" /\ Decide(w, To("archive_and_enqueue_audio"))
             /\ drafts' = [drafts EXCEPT ![v] = "reviewed"]
    <3>1. drafts' \in [Waves -> {"none", "draft", "reviewed", "archived"}] /\ AudioIsKept'
      BY <1>1, <1>5, <2>0, <2>1, <2>3 DEF AudioIsKept
    <3>2. Has(Transitioned(run, To("archive_and_enqueue_audio")), "archive_and_enqueue_audio")
      BY <2>1, ToType, StageNames DEF Has, Transitioned
    <3> QED BY <1>2, <1>5, <2>0, <2>3, <3>1, <3>2, ToType, StageNames, DecideStep
  <2> QED BY <1>11, <2>2, <2>3 DEF WriteReviews
<1>12. CASE ArchiveAndEnqueueAudio(w)
  <2> DEFINE v == snap.report
             to == [To("wait_audio") EXCEPT !.audio = v]
  <2>a. snap.stage = "archive_and_enqueue_audio" BY <1>12 DEF ArchiveAndEnqueueAudio
  <2>0. /\ UNCHANGED <<waves, owner, runs, ops, canceller, budgets>> /\ Decide(w, to)
        /\ (UNCHANGED <<drafts, audio, audios>>) \/ ArchivedWithAudio(v)
    BY <1>12 DEF ArchiveAndEnqueueAudio
  <2>1. v \in Waves /\ run.event # None /\ run.report # None
    BY <1>4, <2>a DEF Has, Grown, Run
  <2>2. to \in Run /\ to.status = StatusOf(to.stage) /\ to.stage = "wait_audio"
        /\ to.event = None /\ to.report = None /\ to.audio = v
    BY <2>1, ToType, StageNames DEF Run
  <2>3. Has(Transitioned(run, to), to.stage) BY <2>1, <2>2 DEF Has, Transitioned
  <2>4. /\ drafts' \in [Waves -> {"none", "draft", "reviewed", "archived"}]
        /\ audio' \in [Waves -> {"none", "active", "succeeded", "failed"}]
        /\ audios' \in [Waves -> 0..2] /\ AudioIsKept'
    <3>1. CASE UNCHANGED <<drafts, audio, audios>> BY <1>1, <1>5, <3>1 DEF AudioIsKept
    <3>2. CASE /\ ~KeepsAudio(v) /\ drafts' = [drafts EXCEPT ![v] = "archived"]
               /\ audio' = [audio EXCEPT ![v] = "active"]
               /\ audios' = [audios EXCEPT ![v] = @ + 1]
      <4>1. audios[v] = 0 BY <1>1, <2>1, <3>2 DEF AudioIsKept, KeepsAudio
      <4> QED BY <1>1, <1>5, <2>1, <3>2, <4>1 DEF AudioIsKept
    <3> QED BY <2>0, <3>1, <3>2 DEF ArchivedWithAudio
  <2> HIDE DEF to, v
  <2> QED BY <1>2, <1>5, <2>0, <2>2, <2>3, <2>4, DecideStep DEF children
<1>13. CASE WaitForAudio(w)
  <2>1. UNCHANGED <<waves, drafts, audio, audios, owner, runs, ops, canceller, budgets>>
        /\ AudioIsKept'
    BY <1>1, <1>13 DEF WaitForAudio, AudioIsKept
  <2> DEFINE stage == CASE audio[snap.audio] = "active" -> "wait_audio"
                        [] audio[snap.audio] = "succeeded" -> "completed"
                        [] audio[snap.audio] \in {"none", "failed"} -> "failed"
  <2>2. snap.audio \in Waves /\ Decide(w, To(stage))
        /\ run.event # None /\ run.report # None /\ run.audio # None
    BY <1>4, <1>13 DEF WaitForAudio, Has, Grown, Run
  <2>3. stage \in {"wait_audio", "completed", "failed"} BY <1>5, <2>2
  <2> HIDE DEF stage
  <2>4. stage \in Stages \ {"cancelled"} BY <2>3, StageNames
  <2>5. Has(Transitioned(run, To(stage)), stage) BY <2>2, <2>3, <2>4, ToType DEF Has, Transitioned
  <2> QED BY <1>2, <1>5, <2>1, <2>2, <2>4, <2>5, ToType, DecideStep
<1>14. CASE Trouble(w)
  <2>1. Decide(w, To("failed")) /\ AudioIsKept'
        /\ UNCHANGED <<waves, drafts, audio, audios, owner, runs, ops, canceller, budgets>>
    BY <1>1, <1>14 DEF Trouble, AudioIsKept
  <2>2. Has(Transitioned(run, To("failed")), "failed") BY DEF Has
  <2> QED BY <1>2, <1>5, <2>1, <2>2, ToType, StageNames, DecideStep
<1> QED BY <1>7, <1>8, <1>9, <1>10, <1>11, <1>12, <1>13, <1>14

(* A run that grows takes nothing from the handlers that have read it.     *)
LEMMA HandlingKept ==
  ASSUME Linked, NEW u \in Workers, worker[u].at # "idle", worker'[u] = worker[u],
         Grown(runs[worker[u].run], runs'[worker[u].run]),
         runs'[worker[u].run].status # "none",
         Owns(u)' => Owns(u) /\ ops'[worker[u].slot].run = ops[worker[u].slot].run
  PROVE  Handling(u)'
<1>1. Handling(u) BY DEF Linked
<1>2. worker[u].at = "moving" =>
        Has(Transitioned(runs'[worker[u].run], worker[u].to), worker[u].to.stage)
  BY <1>1 DEF Handling, Has, Grown, Transitioned
<1>3. worker[u].at \in {"loaded", "confirmed", "moving"} =>
        Grown(worker[u].snap, runs'[worker[u].run])
  BY <1>1 DEF Handling, Grown
<1> QED BY <1>1, <1>2, <1>3 DEF Handling

(* A slot that is free is owned by nobody, and neither is a queued one.    *)
LEMMA UnownedSlot ==
  ASSUME Linked, NEW s \in Slots, ops[s].status # "running", NEW u \in Workers,
         worker[u].slot = s
  PROVE  ~Owns(u)
BY DEF Linked, OpsAreLinked, Owns

LEMMA QueuedType ==
  ASSUME NEW r \in Runs, NEW stage \in Stages
  PROVE  /\ Queued(r, stage) \in Operation /\ Queued(r, stage).status = "queued"
         /\ Queued(r, stage).run = r /\ Queued(r, stage).stage = stage
         /\ Queued(r, stage).attempts = 0 /\ Queued(r, stage).holder = None
<1>1. Queued(r, stage) = [status |-> "queued", run |-> r, stage |-> stage,
                          attempts |-> 0, holder |-> None, lapsed |-> FALSE]
  <2> DEFINE q == Queued(r, stage)
  <2>1. q = [Free EXCEPT !.status = "queued", !.run = r, !.stage = stage] BY DEF Queued
  <2> QED BY <2>1 DEF Free
<1>2. 0 \in 0..MaxAttempts OBVIOUS
<1> QED BY <1>1, <1>2 DEF Operation

LEMMA RunSteps ==
  ASSUME Linked, NEW r \in Runs, EnqueueRun(r)
  PROVE  Linked'
<1> USE DEF EnqueueRun, children, budgets
<1>1. TypeOK /\ RunsAreFilled /\ OpsAreLinked BY DEF Linked
<1>2. NewRun.stage \in Stages /\ NewRun \in Run
  BY StageNames, NotNull DEF NewRun, Run, Path
<1>3. PICK s \in Slots : ops[s].status = "free"
                         /\ ops' = [ops EXCEPT ![s] = Queued(r, NewRun.stage)]
  BY EnqueuedSlot
<1>4. runs' = [runs EXCEPT ![r] = NewRun] /\ runs[r].status = "none" OBVIOUS
<1>5. NewRun.status = "queued" /\ Has(NewRun, NewRun.stage) BY DEF NewRun, Has, Path
<1> HIDE DEF EnqueueRun
<1>6. TypeOK'
  <2>1. runs' \in [Runs -> Run] BY <1>1, <1>2, <1>4 DEF TypeOK
  <2>2. ops' \in [Slots -> Operation] BY <1>1, <1>2, <1>3, QueuedType DEF TypeOK
  <2>3. UNCHANGED <<waves, drafts, audio, audios, owner, worker, canceller, faults, cancels>>
    BY DEF EnqueueRun
  <2> QED BY <1>1, <2>1, <2>2, <2>3 DEF TypeOK
<1>7. RunsAreFilled' BY <1>1, <1>4, <1>5 DEF RunsAreFilled, TypeOK
<1>8. OpsAreLinked'
  BY <1>1, <1>2, <1>3, <1>4, <1>5, QueuedType DEF OpsAreLinked, TypeOK
<1>9. Cancelling' /\ AudioIsKept' BY DEF EnqueueRun, Linked, Cancelling, AudioIsKept
<1>10. ASSUME NEW u \in Workers, worker'[u].at # "idle" PROVE Handling(u)'
  <2>1. worker' = worker BY DEF EnqueueRun
  <2>2. Handling(u) BY <1>10, <2>1 DEF Linked
  <2>3. worker[u].run # r BY <1>4, <2>2 DEF Handling
  <2>4. runs'[worker[u].run] = runs[worker[u].run]
    BY <1>1, <1>4, <2>2, <2>3 DEF Handling, TypeOK
  <2>5. Owns(u)' => Owns(u) /\ ops'[worker[u].slot].run = ops[worker[u].slot].run
    <3>1. CASE worker[u].slot = s
      <4>1. ops'[s].holder = None BY <1>1, <1>2, <1>3, QueuedType DEF TypeOK
      <4> QED BY <2>1, <3>1, <4>1 DEF Owns
    <3>2. CASE worker[u].slot # s
      BY <1>1, <1>3, <2>1, <2>2, <3>2 DEF Owns, Handling, TypeOK
    <3> QED BY <3>1, <3>2
  <2> QED BY <1>10, <2>1, <2>2, <2>4, <2>5, HandlingKept DEF Handling, Grown
<1> QED BY <1>6, <1>7, <1>8, <1>9, <1>10 DEF Linked

LEMMA MoveSteps ==
  ASSUME Linked, NEW w \in Workers, Move(w)
  PROVE  Linked'
<1> DEFINE r == worker[w].run
           to == worker[w].to
<1>1. TypeOK /\ RunsAreFilled /\ OpsAreLinked /\ Handling(w) /\ worker[w] \in Process
  BY DEF Move, Linked, TypeOK
<1>2. /\ worker[w].at = "moving" /\ r \in Runs /\ to \in Run /\ runs[r] \in Run
      /\ runs' = [runs EXCEPT ![r] = Transitioned(runs[r], to)]
      /\ worker' = [worker EXCEPT ![w].at = "done"]
      /\ UNCHANGED <<waves, drafts, audio, audios, owner, canceller, faults, cancels>>
  BY <1>1 DEF Move, Handling, TypeOK, Process, children, budgets
<1>3. /\ Transitioned(runs[r], to) \in Run /\ Has(Transitioned(runs[r], to), to.stage)
      /\ Transitioned(runs[r], to).status # "none"
      /\ Grown(runs[r], Transitioned(runs[r], to))
      /\ Transitioned(runs[r], to).stage = to.stage
  BY <1>1, <1>2 DEF Handling, Transitioned, Run, StatusOf, Grown
<1>4. \/ ops' = ops
      \/ \E s \in Slots : ops[s].status = "free"
                          /\ ops' = [ops EXCEPT ![s] = Queued(r, to.stage)]
  BY EnqueuedSlot DEF Move, ContinuationStage
<1>5. to.stage \in Stages BY <1>2 DEF Run
<1>6. \A u \in Workers : worker'[u].slot = worker[u].slot /\ worker'[u].run = worker[u].run
  BY <1>1, <1>2 DEF TypeOK, Process
<1> HIDE DEF r, to
<1>7. ops' \in [Slots -> Operation] /\ OpsAreLinked'
  <2>1. ops' \in [Slots -> Operation] BY <1>1, <1>2, <1>4, <1>5, QueuedType DEF TypeOK
  <2>2. \A q \in Runs : runs[q].status # "none" => runs'[q].status # "none"
    BY <1>1, <1>2, <1>3 DEF TypeOK
  <2>3. runs'[r].status # "none" BY <1>1, <1>2, <1>3 DEF TypeOK
  <2> QED BY <1>1, <1>2, <1>4, <1>5, <2>2, <2>3, QueuedType DEF OpsAreLinked, TypeOK
<1>8. TypeOK'
  <2>1. runs' \in [Runs -> Run] BY <1>1, <1>2, <1>3 DEF TypeOK
  <2>2. worker' \in [Workers -> Process] BY <1>1, <1>2 DEF TypeOK, Process
  <2> QED BY <1>1, <1>2, <1>7, <2>1, <2>2 DEF TypeOK
<1>9. RunsAreFilled' BY <1>1, <1>2, <1>3 DEF RunsAreFilled, TypeOK
<1>10. Cancelling' /\ AudioIsKept' BY <1>2 DEF Linked, Cancelling, AudioIsKept
<1>11. ASSUME NEW u \in Workers, worker[u].at # "idle"
       PROVE  Owns(u)' => Owns(u) /\ ops'[worker[u].slot].run = ops[worker[u].slot].run
  <2>1. CASE ops' = ops BY <1>6, <2>1 DEF Owns
  <2>2. ASSUME NEW s \in Slots, ops[s].status = "free",
               ops' = [ops EXCEPT ![s] = Queued(r, to.stage)]
        PROVE  Owns(u)' => Owns(u) /\ ops'[worker[u].slot].run = ops[worker[u].slot].run
    <3>1. ops'[s].holder = None BY <1>1, <1>2, <1>5, <2>2, QueuedType DEF TypeOK
    <3>2. CASE worker[u].slot = s BY <1>6, <3>1, <3>2 DEF Owns
    <3>3. CASE worker[u].slot # s
      <4>1. worker[u].slot \in Slots BY <1>11 DEF Linked, Handling
      <4>2. ops'[worker[u].slot] = ops[worker[u].slot] BY <1>1, <2>2, <3>3, <4>1 DEF TypeOK
      <4> QED BY <1>6, <4>2 DEF Owns
    <3> QED BY <3>2, <3>3
  <2> QED BY <1>4, <2>1, <2>2
<1>12. ASSUME NEW u \in Workers, worker'[u].at # "idle" PROVE Handling(u)'
  <2>1. CASE u = w
    <3>1. worker'[w].at = "done" /\ worker'[w].slot = worker[w].slot /\ worker'[w].run = r
      BY <1>1, <1>2 DEF TypeOK, Process, r
    <3>2. runs'[r].status # "none" BY <1>1, <1>2, <1>3 DEF TypeOK
    <3>3. Owns(w)' => ops'[worker[w].slot].run = r
      BY <1>1, <1>2, <1>11 DEF Handling, r
    <3> QED BY <1>1, <1>2, <2>1, <3>1, <3>2, <3>3 DEF Handling, Owns
  <2>2. CASE u # w
    <3>1. worker'[u] = worker[u] BY <1>1, <1>2, <2>2 DEF TypeOK
    <3>2. Handling(u) BY <1>12, <3>1 DEF Linked
    <3>3. /\ Grown(runs[worker[u].run], runs'[worker[u].run])
          /\ runs'[worker[u].run].status # "none"
      BY <1>1, <1>2, <1>3, <3>2 DEF Handling, TypeOK, Grown
    <3> QED BY <1>11, <1>12, <3>1, <3>3, HandlingKept
  <2> QED BY <2>1, <2>2
<1> QED BY <1>8, <1>9, <1>7, <1>10, <1>12 DEF Linked

(* A worker leases a continuation, reads its run, or renews its lease.     *)
LEMMA WorkerSteps ==
  ASSUME Linked, NEW w \in Workers,
         \/ \E s \in Slots : Lease(w, s)
         \/ Load(w) \/ Confirm(w) \/ Return(w) \/ Crash(w) \/ Stall(w)
  PROVE  Linked'
<1> USE DEF children, budgets
<1>1. TypeOK /\ RunsAreFilled /\ OpsAreLinked /\ worker[w] \in Process
  BY DEF Linked, TypeOK
<1>2. UNCHANGED <<runs, waves, drafts, audio, audios, owner, canceller>>
  BY DEF Lease, Load, Confirm, Return, Crash, Stall
<1>3. RunsAreFilled' /\ Cancelling' /\ AudioIsKept'
  BY <1>2 DEF Linked, RunsAreFilled, Cancelling, AudioIsKept
<1>4. faults' \in 0..MaxFaults /\ cancels' \in 0..MaxCancels
  <2>1. cancels' = cancels /\ (faults' = faults \/ (faults < MaxFaults /\ faults' = faults + 1))
    BY DEF Lease, Load, Confirm, Return, Crash, Stall
  <2>2. faults \in 0..MaxFaults /\ cancels \in 0..MaxCancels /\ MaxFaults \in Nat
    BY <1>1 DEF TypeOK
  <2> QED BY ONLY <2>1, <2>2
<1>5. ASSUME ops' \in [Slots -> Operation], worker' \in [Workers -> Process], OpsAreLinked',
             worker'[w].at # "idle" => Handling(w)',
             \A u \in Workers \ {w} :
               /\ worker'[u] = worker[u]
               /\ Owns(u)' /\ worker[u].at # "idle" =>
                    Owns(u) /\ ops'[worker[u].slot].run = ops[worker[u].slot].run
      PROVE  Linked'
  <2>1. TypeOK' BY <1>1, <1>2, <1>4, <1>5 DEF TypeOK
  <2>2. ASSUME NEW u \in Workers \ {w}, worker'[u].at # "idle" PROVE Handling(u)'
    <3>1. Handling(u) /\ worker'[u] = worker[u] BY <1>5, <2>2 DEF Linked
    <3>2. Grown(runs[worker[u].run], runs'[worker[u].run]) /\ runs'[worker[u].run].status # "none"
      BY <1>2, <3>1 DEF Handling, Grown
    <3> QED BY <1>5, <2>2, <3>1, <3>2, HandlingKept
  <2> QED BY <1>3, <1>5, <2>1, <2>2 DEF Linked
<1>6. ASSUME NEW s \in Slots, Lease(w, s) PROVE Linked'
  <2>1. /\ worker[w].at = "idle"
        /\ ops' = [ops EXCEPT ![s].status = "running", ![s].holder = w, ![s].lapsed = FALSE,
                              ![s].attempts = @ + 1]
        /\ worker' = [worker EXCEPT ![w] =
                        [Idle EXCEPT !.at = "leased", !.slot = s, !.run = ops[s].run]]
    BY <1>6 DEF Lease
  <2>2. ops[s] \in Operation /\ ops[s].status # "free" /\ ops[s].attempts < MaxAttempts
    <3>1. ops[s] \in Operation /\ (ops[s].status = "queued" => ops[s].attempts = 0)
      BY <1>1 DEF TypeOK, OpsAreLinked
    <3>2. \/ ops[s].status = "queued"
          \/ ops[s].status = "running" /\ ops[s].attempts < MaxAttempts
      BY <1>6 DEF Lease
    <3> QED BY <3>1, <3>2
  <2>3. ops[s].run \in Runs /\ runs[ops[s].run].status # "none" BY <1>1, <2>2 DEF OpsAreLinked
  <2>4. ops' \in [Slots -> Operation]
    <3>1. ops[s].attempts + 1 \in 0..MaxAttempts BY <2>2 DEF Operation
    <3> QED BY <1>1, <2>1, <2>2, <3>1 DEF TypeOK, Operation
  <2>5. worker' \in [Workers -> Process]
    <3>1. Idle \in Process
      <4>1. Path[1] \in Stages /\ "failed" \in Stages \ {"cancelled"} BY StageNames DEF Path
      <4>2. NewRun \in Run BY <4>1 DEF NewRun, Run
      <4> QED BY <4>1, <4>2, ToType DEF Idle, Process
    <3>2. [Idle EXCEPT !.at = "leased", !.slot = s, !.run = ops[s].run] \in Process
      BY <2>3, <3>1 DEF Process
    <3> QED BY <1>1, <2>1, <3>2 DEF TypeOK
  <2>6. OpsAreLinked'
    <3>1. ops'[s].status = "running" /\ ops'[s].run = ops[s].run
      BY <1>1, <2>1, <2>2 DEF TypeOK, Operation
    <3>2. \A t \in Slots \ {s} : ops'[t] = ops[t] BY <1>1, <2>1 DEF TypeOK
    <3> QED BY <1>1, <1>2, <2>3, <3>1, <3>2 DEF OpsAreLinked
  <2>7. worker'[w].at = "leased" /\ worker'[w].slot = s /\ worker'[w].run = ops[s].run
    BY <1>1, <2>1 DEF TypeOK, Idle
  <2>8. ops'[s].run = ops[s].run /\ ops'[s].holder = w BY <1>1, <2>1 DEF TypeOK, Operation
  <2>9. Handling(w)' BY <1>2, <2>3, <2>7, <2>8 DEF Handling, Owns
  <2>10. ASSUME NEW u \in Workers \ {w} PROVE
           /\ worker'[u] = worker[u]
           /\ Owns(u)' /\ worker[u].at # "idle" =>
                Owns(u) /\ ops'[worker[u].slot].run = ops[worker[u].slot].run
    <3>1. worker'[u] = worker[u] BY <1>1, <2>1 DEF TypeOK
    <3>2. ASSUME Owns(u)', worker[u].at # "idle"
          PROVE  Owns(u) /\ ops'[worker[u].slot].run = ops[worker[u].slot].run
      <4>1. worker[u].slot # s BY <2>8, <3>1, <3>2 DEF Owns
      <4>2. worker[u].slot \in Slots BY <3>2 DEF Linked, Handling
      <4>3. ops'[worker[u].slot] = ops[worker[u].slot] BY <1>1, <2>1, <4>1, <4>2 DEF TypeOK
      <4> QED BY <3>1, <3>2, <4>3 DEF Owns
    <3> QED BY <3>1, <3>2
  <2> QED BY <1>5, <2>4, <2>5, <2>6, <2>9, <2>10
<1>7. ASSUME worker[w].at # "idle", NEW lapse \in BOOLEAN,
             ops' = [ops EXCEPT ![worker[w].slot].lapsed = lapse] \/ ops' = ops
      PROVE  /\ ops' \in [Slots -> Operation] /\ OpsAreLinked'
             /\ \A s \in Slots : ops'[s].run = ops[s].run /\ ops'[s].holder = ops[s].holder
  <2>1. worker[w].slot \in Slots BY <1>7 DEF Linked, Handling
  <2>2. ops' \in [Slots -> Operation]
    <3>1. ops \in [Slots -> Operation] /\ ops[worker[w].slot] \in Operation
      BY <1>1, <2>1 DEF TypeOK
    <3>2. [ops[worker[w].slot] EXCEPT !.lapsed = lapse] \in Operation BY <3>1 DEF Operation
    <3> QED BY <1>7, <3>1, <3>2
  <2>3. \A s \in Slots : /\ ops'[s].run = ops[s].run /\ ops'[s].holder = ops[s].holder
                         /\ ops'[s].status = ops[s].status /\ ops'[s].attempts = ops[s].attempts
    BY <1>1, <1>7, <2>1 DEF TypeOK, Operation
  <2> QED BY <1>1, <1>2, <2>2, <2>3 DEF OpsAreLinked
<1>8. ASSUME worker[w].at # "idle", NEW lapse \in BOOLEAN, NEW at, NEW snap,
             ops' = [ops EXCEPT ![worker[w].slot].lapsed = lapse] \/ ops' = ops,
             [worker[w] EXCEPT !.at = at, !.snap = snap] \in Process,
             worker' = [worker EXCEPT ![w] = [worker[w] EXCEPT !.at = at, !.snap = snap]],
             at \in {"loaded", "confirmed"} => Has(snap, snap.stage) /\ Grown(snap, runs[worker[w].run]),
             at # "moving"
      PROVE  Linked'
  <2>1. /\ ops' \in [Slots -> Operation] /\ OpsAreLinked'
        /\ \A s \in Slots : ops'[s].run = ops[s].run /\ ops'[s].holder = ops[s].holder
    BY <1>7, <1>8
  <2>2. worker' \in [Workers -> Process] /\ \A u \in Workers \ {w} : worker'[u] = worker[u]
    BY <1>1, <1>8 DEF TypeOK
  <2>3. Handling(w) BY <1>8 DEF Linked
  <2>4. /\ worker'[w].at = at /\ worker'[w].snap = snap /\ worker'[w].slot = worker[w].slot
        /\ worker'[w].run = worker[w].run
    BY <1>1, <1>8 DEF TypeOK, Process
  <2>5. Handling(w)' BY <1>2, <1>8, <2>1, <2>3, <2>4 DEF Handling, Owns
  <2>6. \A u \in Workers \ {w} : Owns(u)' /\ worker[u].at # "idle" =>
          Owns(u) /\ ops'[worker[u].slot].run = ops[worker[u].slot].run
    BY <2>1, <2>2 DEF Owns, Linked, Handling
  <2> QED BY <1>5, <2>1, <2>2, <2>5, <2>6
<1>9. ASSUME worker' = [worker EXCEPT ![w] = Idle], worker[w].at # "idle",
             \/ ops' = ops
             \/ ops' = [ops EXCEPT ![worker[w].slot].lapsed = TRUE]
             \/ Owns(w) /\ ops' = [ops EXCEPT ![worker[w].slot] = Free]
      PROVE  Linked'
  <2>1. worker[w].slot \in Slots BY <1>9 DEF Linked, Handling
  <2>2. Free \in Operation /\ Free.status = "free" /\ Free.holder = None
    <3>1. "completed" \in Stages /\ 0 \in 0..MaxAttempts BY StageNames
    <3> QED BY <3>1 DEF Free, Operation
  <2>3. /\ ops' \in [Slots -> Operation] /\ OpsAreLinked'
        /\ \A s \in Slots : \/ ops'[s].run = ops[s].run /\ ops'[s].holder = ops[s].holder
                            \/ ops'[s].holder = None
    <3>1. CASE ops' = ops \/ ops' = [ops EXCEPT ![worker[w].slot].lapsed = TRUE]
      BY <1>7, <1>9, <3>1
    <3>2. CASE ops' = [ops EXCEPT ![worker[w].slot] = Free]
      BY <1>1, <1>2, <2>1, <2>2, <3>2 DEF OpsAreLinked, TypeOK
    <3> QED BY <1>9, <3>1, <3>2
  <2>4. worker' \in [Workers -> Process] /\ worker'[w].at = "idle"
        /\ \A u \in Workers \ {w} : worker'[u] = worker[u]
    <3>1. Path[1] \in Stages /\ "failed" \in Stages \ {"cancelled"} BY StageNames DEF Path
    <3>2. NewRun \in Run BY <3>1 DEF NewRun, Run
    <3>3. Idle \in Process /\ Idle.at = "idle" BY <3>1, <3>2, ToType DEF Idle, Process
    <3> QED BY <1>1, <1>9, <3>3 DEF TypeOK
  <2>5. \A u \in Workers \ {w} : Owns(u)' /\ worker[u].at # "idle" =>
          Owns(u) /\ ops'[worker[u].slot].run = ops[worker[u].slot].run
    BY <2>3, <2>4 DEF Owns, Linked, Handling
  <2> QED BY <1>5, <2>3, <2>4, <2>5
<1>10. CASE Load(w)
  <2> DEFINE at == IF Applies(w) THEN "loaded" ELSE "done"
             snap == [runs[worker[w].run] EXCEPT !.stage = LeasedStage(w)]
  <2>1. /\ worker[w].at = "leased" /\ ops' = [ops EXCEPT ![worker[w].slot].lapsed = FALSE]
        /\ worker' = [worker EXCEPT ![w] = [worker[w] EXCEPT !.at = at, !.snap = snap]]
    BY <1>1, <1>10 DEF Load, Renewed, TypeOK
  <2>2. Handling(w) BY <2>1 DEF Linked
  <2>3. runs[worker[w].run] \in Run /\ ops[worker[w].slot] \in Operation
    BY <1>1, <2>2 DEF Handling, TypeOK
  <2>4. snap \in Run BY <2>3 DEF Run, Operation, LeasedStage
  <2>5. [worker[w] EXCEPT !.at = at, !.snap = snap] \in Process BY <1>1, <2>4 DEF Process
  <2>6. at = "loaded" => snap = runs[worker[w].run] BY <2>3 DEF Applies, Run
  <2>7. at \in {"loaded", "confirmed"} => Has(snap, snap.stage) /\ Grown(snap, runs[worker[w].run])
    BY <1>1, <2>2, <2>6 DEF RunsAreFilled, Handling, Grown
  <2>8. at # "moving" /\ FALSE \in BOOLEAN OBVIOUS
  <2> HIDE DEF at, snap
  <2> QED BY <1>8, <2>1, <2>5, <2>7, <2>8
<1>11. CASE Confirm(w)
  <2>1. /\ worker[w].at = "loaded" /\ ops' = [ops EXCEPT ![worker[w].slot].lapsed = FALSE]
        /\ worker' = [worker EXCEPT ![w].at = "confirmed"]
    BY <1>11 DEF Confirm, InStage, Renewed
  <2>2. worker' = [worker EXCEPT ![w] = [worker[w] EXCEPT !.at = "confirmed", !.snap = worker[w].snap]]
    BY <1>1, <2>1 DEF TypeOK, Process
  <2>3. [worker[w] EXCEPT !.at = "confirmed", !.snap = worker[w].snap] \in Process
    BY <1>1 DEF Process
  <2>4. Handling(w) BY <2>1 DEF Linked
  <2>5. Has(worker[w].snap, worker[w].snap.stage) /\ Grown(worker[w].snap, runs[worker[w].run])
    BY <2>1, <2>4 DEF Handling
  <2> QED BY <1>8, <2>1, <2>2, <2>3, <2>5
<1>12. CASE Return(w) BY <1>9, <1>12 DEF Return
<1>13. CASE Crash(w) BY <1>9, <1>13 DEF Crash
<1>14. CASE Stall(w)
  <2>1. /\ worker[w].at # "idle" /\ ops' = [ops EXCEPT ![worker[w].slot].lapsed = TRUE]
        /\ worker' = worker
    BY <1>14 DEF Stall
  <2>2. /\ ops' \in [Slots -> Operation] /\ OpsAreLinked'
        /\ \A s \in Slots : ops'[s].run = ops[s].run /\ ops'[s].holder = ops[s].holder
    BY <1>7, <2>1
  <2>3. Handling(w) BY <2>1 DEF Linked
  <2>4. Handling(w)' BY <1>2, <2>1, <2>2, <2>3 DEF Handling, Owns
  <2>5. \A u \in Workers \ {w} : Owns(u)' /\ worker[u].at # "idle" =>
          Owns(u) /\ ops'[worker[u].slot].run = ops[worker[u].slot].run
    BY <2>1, <2>2 DEF Owns, Linked, Handling
  <2> QED BY <1>1, <1>5, <2>1, <2>2, <2>4, <2>5 DEF TypeOK
<1> QED BY <1>6, <1>10, <1>11, <1>12, <1>13, <1>14

(* Children end, another client enqueues a wave, a person cancels.         *)
LEMMA OtherSteps ==
  ASSUME Linked,
         \/ CancelAudio \/ CancelRun \/ OtherWave
         \/ \E r \in Runs : CancelRead(r)
         \/ \E v \in Waves : WaveEnds(v) \/ AudioEnds(v)
  PROVE  Linked'
<1> USE NotNull DEF children, budgets
<1>1. TypeOK /\ RunsAreFilled /\ OpsAreLinked /\ Cancelling /\ AudioIsKept BY DEF Linked
<1>2. UNCHANGED <<drafts, audios, owner, ops, worker, faults>>
  BY DEF CancelAudio, CancelRun, OtherWave, CancelRead, WaveEnds, AudioEnds
<1>3. ASSUME runs' = runs \/ \E r \in Runs :
               runs' = [runs EXCEPT ![r].stage = "cancelled", ![r].status = "cancelled"],
             waves' \in [Waves -> {"none", "active", "usable", "empty", "failed"}],
             audio' \in [Waves -> {"none", "active", "succeeded", "failed"}],
             \A v \in Waves : audio[v] # "none" => audio'[v] # "none",
             canceller' \in [at : {"idle", "audio", "run"}, run : Runs \cup {None},
                             audio : Waves \cup {None}],
             Cancelling', cancels' \in 0..MaxCancels
      PROVE  Linked'
  <2>1. runs \in [Runs -> Run] /\ "cancelled" \in Stages BY <1>1, StageNames DEF TypeOK
  <2> DEFINE Kept == /\ runs' \in [Runs -> Run]
                     /\ \A r \in Runs : /\ Grown(runs[r], runs'[r])
                                        /\ runs[r].status # "none" => runs'[r].status # "none"
                                        /\ runs'[r].stage = "cancelled" \/ runs'[r] = runs[r]
  <2>2. Kept
    <3>1. CASE runs' = runs BY <2>1, <3>1 DEF Grown
    <3>2. ASSUME NEW q \in Runs,
                 runs' = [runs EXCEPT ![q].stage = "cancelled", ![q].status = "cancelled"]
          PROVE  Kept
      <4> DEFINE run == [runs[q] EXCEPT !.stage = "cancelled", !.status = "cancelled"]
      <4>1. runs[q] \in Run BY <2>1
      <4>2. /\ run \in Run /\ run.stage = "cancelled" /\ run.status = "cancelled"
            /\ Grown(runs[q], run)
        BY <2>1, <4>1 DEF Run, Grown
      <4>3. runs' = [runs EXCEPT ![q] = run] BY <2>1, <3>2
      <4> HIDE DEF run
      <4> QED BY <2>1, <4>2, <4>3 DEF Grown
    <3> QED BY <1>3, <3>1, <3>2
  <2>3. TypeOK' BY <1>1, <1>2, <1>3, <2>2 DEF TypeOK
  <2>4. RunsAreFilled' BY <1>1, <2>2 DEF RunsAreFilled, Has
  <2>5. OpsAreLinked' BY <1>1, <1>2, <2>2 DEF OpsAreLinked
  <2>6. AudioIsKept' BY <1>1, <1>2, <1>3 DEF AudioIsKept
  <2>7. ASSUME NEW u \in Workers, worker'[u].at # "idle" PROVE Handling(u)'
    <3>1. Handling(u) BY <1>2, <2>7 DEF Linked
    <3>2. Owns(u)' => Owns(u) /\ ops'[worker[u].slot].run = ops[worker[u].slot].run
      BY <1>2 DEF Owns
    <3> QED BY <1>2, <2>2, <2>7, <3>1, <3>2, HandlingKept DEF Handling
  <2> QED BY <1>3, <2>3, <2>4, <2>5, <2>6, <2>7 DEF Linked
<1>4. /\ waves \in [Waves -> {"none", "active", "usable", "empty", "failed"}]
      /\ audio \in [Waves -> {"none", "active", "succeeded", "failed"}]
      /\ canceller \in [at : {"idle", "audio", "run"}, run : Runs \cup {None},
                        audio : Waves \cup {None}]
      /\ cancels \in 0..MaxCancels
  BY <1>1 DEF TypeOK
<1>5. CASE CancelAudio
  <2>1. runs' = runs /\ waves' = waves /\ cancels' = cancels BY <1>5 DEF CancelAudio
  <2>2. /\ audio' \in [Waves -> {"none", "active", "succeeded", "failed"}]
        /\ \A v \in Waves : audio[v] # "none" => audio'[v] # "none"
    BY <1>4, <1>5 DEF CancelAudio
  <2>3. /\ canceller' \in [at : {"idle", "audio", "run"}, run : Runs \cup {None},
                           audio : Waves \cup {None}]
        /\ Cancelling'
    BY <1>1, <1>4, <1>5 DEF CancelAudio, Cancelling
  <2> QED BY <1>3, <1>4, <2>1, <2>2, <2>3
<1>6. CASE CancelRun
  <2>1. waves' = waves /\ audio' = audio /\ cancels' = cancels BY <1>6 DEF CancelRun
  <2>2. \/ runs' = runs
        \/ \E r \in Runs : runs' = [runs EXCEPT ![r].stage = "cancelled", ![r].status = "cancelled"]
    BY <1>1, <1>6 DEF CancelRun, RunCancelled, Cancelling
  <2>3. /\ canceller' \in [at : {"idle", "audio", "run"}, run : Runs \cup {None},
                           audio : Waves \cup {None}]
        /\ Cancelling'
    BY <1>6 DEF CancelRun, Cancelling
  <2> QED BY <1>3, <1>4, <2>1, <2>2, <2>3
<1>7. CASE OtherWave
  <2>1. /\ runs' = runs /\ audio' = audio /\ cancels' = cancels /\ canceller' = canceller
        /\ waves' \in [Waves -> {"none", "active", "usable", "empty", "failed"}]
    BY <1>4, <1>7 DEF OtherWave
  <2> QED BY <1>1, <1>3, <1>4, <2>1 DEF Cancelling
<1>8. ASSUME NEW r \in Runs, CancelRead(r) PROVE Linked'
  <2>1. audio' = audio /\ cancels' \in 0..MaxCancels BY <1>4, <1>8 DEF CancelRead
  <2>2. runs[r] \in Run BY <1>1 DEF TypeOK
  <2>3. CASE runs[r].event = None
    <3>1. waves' = waves /\ canceller' = canceller /\ RunCancelled(r) BY <1>8, <2>3 DEF CancelRead
    <3> QED BY <1>1, <1>3, <1>4, <2>1, <3>1 DEF RunCancelled, Cancelling
  <2>4. CASE runs[r].event # None
    <3>1. /\ runs' = runs
          /\ canceller' = [at |-> IF runs[r].audio = None THEN "run" ELSE "audio",
                           run |-> r, audio |-> runs[r].audio]
          /\ waves' = waves \/ waves' = [waves EXCEPT ![runs[r].event] = "failed"]
      BY <1>8, <2>4 DEF CancelRead
    <3>2. waves' \in [Waves -> {"none", "active", "usable", "empty", "failed"}]
      BY <1>4, <3>1
    <3>3. /\ canceller' \in [at : {"idle", "audio", "run"}, run : Runs \cup {None},
                             audio : Waves \cup {None}]
          /\ Cancelling'
      BY <2>2, <3>1 DEF Cancelling, Run
    <3> QED BY <1>3, <1>4, <2>1, <3>1, <3>2, <3>3
  <2> QED BY <2>3, <2>4
<1>9. ASSUME NEW v \in Waves, WaveEnds(v) PROVE Linked'
  <2>1. /\ runs' = runs /\ audio' = audio /\ cancels' = cancels /\ canceller' = canceller
        /\ waves' \in [Waves -> {"none", "active", "usable", "empty", "failed"}]
    BY <1>4, <1>9 DEF WaveEnds
  <2> QED BY <1>1, <1>3, <1>4, <2>1 DEF Cancelling
<1>10. ASSUME NEW v \in Waves, AudioEnds(v) PROVE Linked'
  <2>1. /\ runs' = runs /\ waves' = waves /\ cancels' = cancels /\ canceller' = canceller
        /\ audio' \in [Waves -> {"none", "active", "succeeded", "failed"}]
        /\ \A u \in Waves : audio[u] # "none" => audio'[u] # "none"
    BY <1>4, <1>10 DEF AudioEnds
  <2> QED BY <1>1, <1>3, <1>4, <2>1 DEF Cancelling
<1> QED BY <1>5, <1>6, <1>7, <1>8, <1>9, <1>10

LEMMA LinkedStep == Linked /\ [Next]_vars => Linked'
<1> SUFFICES ASSUME Linked, [Next]_vars PROVE Linked'
  OBVIOUS
<1>1. CASE UNCHANGED vars
  BY <1>1 DEF vars, children, budgets, Linked, TypeOK, RunsAreFilled, OpsAreLinked, Cancelling,
              AudioIsKept, Handling, Owns
<1>2. CASE Next
  <2>1. CASE \E r \in Runs : EnqueueRun(r) BY <2>1, RunSteps
  <2>2. CASE \E w \in Workers : Move(w) BY <2>2, MoveSteps
  <2>3. CASE \E w \in Workers : \/ \E s \in Slots : Lease(w, s)
                                \/ Load(w) \/ Confirm(w) \/ Return(w) \/ Crash(w) \/ Stall(w)
    BY <2>3, WorkerSteps
  <2>4. CASE \E w \in Workers :
               \/ AlreadyDone(w) \/ EnqueueWave(w) \/ WaitForWave(w) \/ GenerateReport(w)
               \/ WriteReviews(w) \/ ArchiveAndEnqueueAudio(w) \/ WaitForAudio(w) \/ Trouble(w)
    BY <2>4, DecisionSteps
  <2>5. CASE \/ CancelAudio \/ CancelRun \/ OtherWave
             \/ \E r \in Runs : CancelRead(r)
             \/ \E v \in Waves : WaveEnds(v) \/ AudioEnds(v)
    BY <2>5, OtherSteps
  <2> QED BY <1>2, <2>1, <2>2, <2>3, <2>4, <2>5 DEF Next, HandlerStep, Children
<1> QED BY <1>1, <1>2

(* A report has one audio operation, with any number of workers that crash *)
(* and stall between its archive and the move of its run.                  *)
THEOREM OneAudio == Spec => []AudioOnlyOnce
<1>1. Linked => AudioOnlyOnce
  <2> SUFFICES ASSUME Linked, NEW v \in Waves PROVE audios[v] <= 1
    BY DEF AudioOnlyOnce
  <2>1. audios[v] \in 0..2 /\ (audios[v] # 0 => audios[v] = 1)
    BY DEF Linked, AudioIsKept, TypeOK
  <2> QED BY <2>1
<1> QED BY <1>1, InitLinked, LinkedStep, PTL DEF Spec

---------------------------------------------------------------------------
(* The chain of continuations does not break.                              *)

(* A new continuation is open.                                             *)
LEMMA QueuedIsOpen ==
  ASSUME TypeOK', NEW s \in Slots, ops'[s].status = "queued", ops'[s].holder = None
  PROVE  Open(s)'
BY DEF Open

(* An operation stays open while it is not freed and the handlers that     *)
(* hold it are not done.                                                   *)
LEMMA ChainStep == Linked /\ Linked' /\ OpenChain /\ [Next]_vars => OpenChain'
<1> SUFFICES ASSUME Linked, Linked', OpenChain, [Next]_vars PROVE OpenChain'
  OBVIOUS
<1> USE DEF children, budgets
<1>1. TypeOK /\ TypeOK' /\ OpsAreLinked BY DEF Linked
<1>2. /\ runs \in [Runs -> Run] /\ ops \in [Slots -> Operation] /\ worker \in [Workers -> Process]
      /\ ops' \in [Slots -> Operation] /\ worker' \in [Workers -> Process]
  BY <1>1 DEF TypeOK
<1>3. \A w \in Workers : worker[w].at # "idle" => Handling(w) BY DEF Linked
<1>4. ASSUME NEW r \in Runs, Active(r), runs'[r].stage = runs[r].stage,
             \A s \in Slots : Open(s) /\ ops[s].run = r /\ ops[s].stage = runs[r].stage =>
               Open(s)' /\ ops'[s].run = ops[s].run /\ ops'[s].stage = ops[s].stage
      PROVE  \E s \in Slots : Open(s)' /\ ops'[s].run = r /\ ops'[s].stage = runs'[r].stage
  BY <1>4 DEF OpenChain
<1>5. ASSUME runs' = runs, NEW w \in Workers,
             \A u \in Workers \ {w} : worker'[u] = worker[u], worker'[w].at # "done",
             \A s \in Slots : Open(s) =>
               /\ ops'[s].status # "free" /\ ops'[s].run = ops[s].run /\ ops'[s].stage = ops[s].stage
               /\ ops'[s].holder = ops[s].holder \/ ops'[s].holder = w
      PROVE  OpenChain'
  <2>1. ASSUME NEW s \in Slots, Open(s)
        PROVE  Open(s)' /\ ops'[s].run = ops[s].run /\ ops'[s].stage = ops[s].stage
    BY <1>5, <2>1 DEF Open
  <2> QED BY <1>4, <1>5, <2>1 DEF OpenChain, Active
<1>6. ASSUME UNCHANGED <<ops, worker>>,
             \A r \in Runs : Active(r)' => Active(r) /\ runs'[r].stage = runs[r].stage
      PROVE  OpenChain'
  <2>1. \A s \in Slots : Open(s) => Open(s)' BY <1>6 DEF Open
  <2> QED BY <1>4, <1>6, <2>1 DEF OpenChain
<1>7. ASSUME NEW r \in Runs, EnqueueRun(r) PROVE OpenChain'
  <2>1. PICK s \in Slots : ops[s].status = "free"
                           /\ ops' = [ops EXCEPT ![s] = Queued(r, NewRun.stage)]
    BY <1>7, EnqueuedSlot DEF EnqueueRun
  <2>2. /\ ops'[s].status = "queued" /\ ops'[s].holder = None
        /\ ops'[s].run = r /\ ops'[s].stage = NewRun.stage
    BY <1>2, <2>1 DEF Queued, Free
  <2>3. Open(s)' BY <1>1, <2>2, QueuedIsOpen
  <2>4. runs' = [runs EXCEPT ![r] = NewRun] /\ \A q \in Runs : ~Active(q)
    BY <1>7 DEF EnqueueRun
  <2>5. \A q \in Runs \ {r} : ~Active(q)' BY <1>2, <2>4 DEF Active
  <2>6. runs'[r].stage = NewRun.stage BY <1>2, <2>4
  <2> QED BY <2>2, <2>3, <2>5, <2>6 DEF OpenChain
<1>8. ASSUME NEW w \in Workers, Move(w) PROVE OpenChain'
  <2>1. worker[w].at = "moving" /\ Handling(w) BY <1>3, <1>8 DEF Move
  <2>a. PICK q \in Runs : q = worker[w].run BY <2>1 DEF Handling
  <2>b. PICK to : to = worker[w].to OBVIOUS
  <2>2. /\ runs' = [runs EXCEPT ![q] = Transitioned(runs[q], to)] /\ q \in Runs
        /\ worker' = [worker EXCEPT ![w].at = "done"]
        /\ to.status = StatusOf(to.stage) /\ to.stage # "cancelled"
    BY <2>1, <2>a, <2>b, <1>8 DEF Move, Handling
  <2>3. \/ to.stage \in Ended /\ ops' = ops
        \/ to.stage \notin Ended /\ \E s \in Slots :
             ops[s].status = "free" /\ ops' = [ops EXCEPT ![s] = Queued(q, to.stage)]
    BY <1>8, <2>a, <2>b, EnqueuedSlot DEF Move, ContinuationStage
  <2>4. runs'[q].stage = to.stage /\ runs'[q].status = StatusOf(to.stage)
    BY <1>2, <2>2 DEF Transitioned
  <2>5. ASSUME NEW r \in Runs \ {q}, Active(r)'
        PROVE  \E s \in Slots : Open(s)' /\ ops'[s].run = r /\ ops'[s].stage = runs'[r].stage
    <3>1. runs'[r] = runs[r] BY <1>2, <2>2
    <3>2. ASSUME NEW s \in Slots, Open(s), ops[s].run = r PROVE Open(s)' /\ ops'[s] = ops[s]
      <4>1. ops'[s] = ops[s] BY <1>2, <2>3, <3>2 DEF Open
      <4>2. ~(worker[w].slot = s /\ ops[s].holder = w)
        BY <2>1, <2>a, <2>5, <3>2 DEF Handling, Owns
      <4>3. \A u \in Workers : worker'[u].slot = worker[u].slot
                               /\ (u # w => worker'[u] = worker[u])
        BY <1>2, <2>2 DEF Process
      <4> QED BY <3>2, <4>1, <4>2, <4>3 DEF Open
    <3>3. Active(r) /\ runs'[r].stage = runs[r].stage BY <2>5, <3>1 DEF Active
    <3> QED BY <1>4, <3>2, <3>3
  <2>6. ASSUME Active(q)'
        PROVE  \E s \in Slots : Open(s)' /\ ops'[s].run = q /\ ops'[s].stage = runs'[q].stage
    <3>1. to.stage \notin {"completed", "failed"} BY <2>4, <2>6 DEF Active, StatusOf
    <3>2. PICK s \in Slots : ops' = [ops EXCEPT ![s] = Queued(q, to.stage)]
      BY <2>2, <2>3, <3>1 DEF Ended
    <3>3. /\ ops'[s].status = "queued" /\ ops'[s].holder = None
          /\ ops'[s].run = q /\ ops'[s].stage = to.stage
      BY <1>2, <3>2 DEF Queued, Free
    <3> QED BY <1>1, <2>4, <3>3, QueuedIsOpen
  <2> QED BY <2>5, <2>6 DEF OpenChain
<1>9. ASSUME NEW w \in Workers, NEW t \in Slots, Lease(w, t) PROVE OpenChain'
  <2>1. /\ runs' = runs
        /\ ops' = [ops EXCEPT ![t].status = "running", ![t].holder = w, ![t].lapsed = FALSE,
                              ![t].attempts = @ + 1]
        /\ worker' = [worker EXCEPT ![w] =
                        [Idle EXCEPT !.at = "leased", !.slot = t, !.run = ops[t].run]]
    BY <1>9 DEF Lease
  <2>2. worker'[w].at = "leased" /\ \A u \in Workers \ {w} : worker'[u] = worker[u]
    BY <1>2, <2>1 DEF Idle
  <2>3. \A s \in Slots : Open(s) =>
          /\ ops'[s].status # "free" /\ ops'[s].run = ops[s].run /\ ops'[s].stage = ops[s].stage
          /\ ops'[s].holder = ops[s].holder \/ ops'[s].holder = w
    BY <1>2, <2>1 DEF Operation, Open
  <2> QED BY <1>5, <2>1, <2>2, <2>3
<1>10. ASSUME NEW w \in Workers, Load(w) PROVE OpenChain'
  <2>1. /\ runs' = runs /\ worker[w].at = "leased" /\ Owns(w) /\ Handling(w)
        /\ ops' = [ops EXCEPT ![worker[w].slot].lapsed = FALSE]
        /\ \A u \in Workers \ {w} : worker'[u] = worker[u]
        /\ worker'[w].slot = worker[w].slot
        /\ worker'[w].at = "done" => runs[worker[w].run].stage # ops[worker[w].slot].stage
    BY <1>2, <1>3, <1>10 DEF Load, Renewed, Applies, LeasedStage, Process
  <2>2. \A s \in Slots : /\ ops'[s].status = ops[s].status /\ ops'[s].run = ops[s].run
                         /\ ops'[s].stage = ops[s].stage /\ ops'[s].holder = ops[s].holder
    BY <1>2, <2>1 DEF Operation
  <2>3. ASSUME NEW r \in Runs, NEW s \in Slots, Open(s), ops[s].run = r,
               ops[s].stage = runs[r].stage
        PROVE  Open(s)'
    <3>1. worker'[w].at = "done" => worker[w].slot # s
      BY <2>1, <2>3 DEF Handling
    <3> QED BY <2>1, <2>2, <2>3, <3>1 DEF Open
  <2> QED BY <1>4, <2>1, <2>2, <2>3 DEF OpenChain, Active
<1>11. ASSUME NEW w \in Workers, Confirm(w) PROVE OpenChain'
  <2>1. /\ runs' = runs /\ ops' = [ops EXCEPT ![worker[w].slot].lapsed = FALSE]
        /\ \A u \in Workers \ {w} : worker'[u] = worker[u]
        /\ worker'[w].at = "confirmed"
    BY <1>2, <1>11 DEF Confirm, Renewed, Process
  <2>2. \A s \in Slots : /\ ops'[s].status = ops[s].status /\ ops'[s].run = ops[s].run
                         /\ ops'[s].stage = ops[s].stage /\ ops'[s].holder = ops[s].holder
    BY <1>2, <2>1 DEF Operation
  <2> QED BY <1>5, <2>1, <2>2 DEF Open
<1>12. ASSUME NEW w \in Workers,
              \/ AlreadyDone(w) \/ EnqueueWave(w) \/ WaitForWave(w) \/ GenerateReport(w)
              \/ WriteReviews(w) \/ ArchiveAndEnqueueAudio(w) \/ WaitForAudio(w) \/ Trouble(w)
       PROVE  OpenChain'
  <2>1. /\ runs' = runs /\ ops' = ops
        /\ \A u \in Workers \ {w} : worker'[u] = worker[u]
        /\ worker'[w].at = "moving"
    <3>1. runs' = runs /\ ops' = ops
      BY <1>12 DEF AlreadyDone, EnqueueWave, WaitForWave, GenerateReport, WriteReviews,
                   ArchiveAndEnqueueAudio, WaitForAudio, Trouble
    <3>2. PICK to : Decide(w, to)
      BY <1>12 DEF AlreadyDone, EnqueueWave, WaitForWave, GenerateReport, WriteReviews,
                   ArchiveAndEnqueueAudio, WaitForAudio, Trouble
    <3> QED BY <1>2, <3>1, <3>2 DEF Decide, Process
  <2> QED BY <1>5, <2>1 DEF Open
<1>13. ASSUME NEW w \in Workers, Return(w) \/ Crash(w) PROVE OpenChain'
  <2>1. /\ runs' = runs /\ \A u \in Workers \ {w} : worker'[u] = worker[u]
        /\ worker'[w].at = "idle" /\ worker[w].at # "idle" /\ Handling(w)
    BY <1>2, <1>3, <1>13 DEF Return, Crash, Idle
  <2>2. \/ ops' = ops \/ ops' = [ops EXCEPT ![worker[w].slot].lapsed = TRUE]
        \/ Owns(w) /\ worker[w].at = "done" /\ ops' = [ops EXCEPT ![worker[w].slot] = Free]
    BY <1>13 DEF Return, Crash
  <2>3. \A s \in Slots : Open(s) =>
          /\ ops'[s].status = ops[s].status /\ ops'[s].run = ops[s].run
          /\ ops'[s].stage = ops[s].stage /\ ops'[s].holder = ops[s].holder
    <3>1. CASE ops' = ops BY <3>1
    <3>2. CASE ops' = [ops EXCEPT ![worker[w].slot].lapsed = TRUE] BY <1>2, <3>2 DEF Operation
    <3>3. CASE Owns(w) /\ worker[w].at = "done" /\ ops' = [ops EXCEPT ![worker[w].slot] = Free]
      <4>1. ~Open(worker[w].slot) BY <3>3 DEF Open, Owns
      <4> QED BY <1>2, <3>3, <4>1
    <3> QED BY <2>2, <3>1, <3>2, <3>3
  <2> QED BY <1>5, <2>1, <2>3 DEF Open
<1>14. ASSUME NEW w \in Workers, Stall(w) PROVE OpenChain'
  <2>1. /\ runs' = runs /\ worker' = worker
        /\ ops' = [ops EXCEPT ![worker[w].slot].lapsed = TRUE]
    BY <1>14 DEF Stall
  <2>2. \A s \in Slots : /\ ops'[s].status = ops[s].status /\ ops'[s].run = ops[s].run
                         /\ ops'[s].stage = ops[s].stage /\ ops'[s].holder = ops[s].holder
    BY <1>2, <2>1 DEF Operation
  <2>3. \A s \in Slots : Open(s) => Open(s)' BY <2>1, <2>2 DEF Open
  <2> QED BY <1>4, <2>1, <2>2, <2>3 DEF OpenChain, Active
<1>15. CASE \/ CancelAudio \/ CancelRun \/ OtherWave
            \/ \E r \in Runs : CancelRead(r)
            \/ \E v \in Waves : WaveEnds(v) \/ AudioEnds(v)
  <2>1. UNCHANGED <<ops, worker>>
    BY <1>15 DEF CancelAudio, CancelRun, OtherWave, CancelRead, WaveEnds, AudioEnds
  <2>2. runs' = runs \/ \E r \in Runs :
          runs' = [runs EXCEPT ![r].stage = "cancelled", ![r].status = "cancelled"]
    <3>1. CASE CancelRun
      BY <3>1 DEF CancelRun, RunCancelled, Linked, Cancelling
    <3> QED BY <1>15, <3>1
             DEF CancelAudio, OtherWave, CancelRead, WaveEnds, AudioEnds, RunCancelled
  <2>3. \A r \in Runs : Active(r)' => Active(r) /\ runs'[r].stage = runs[r].stage
    <3>1. CASE runs' = runs BY <3>1 DEF Active
    <3>2. ASSUME NEW q \in Runs,
                 runs' = [runs EXCEPT ![q].stage = "cancelled", ![q].status = "cancelled"]
          PROVE  \A r \in Runs : Active(r)' => Active(r) /\ runs'[r].stage = runs[r].stage
      <4>1. runs'[q].status = "cancelled" BY <1>2, <3>2 DEF Run
      <4>2. \A r \in Runs \ {q} : runs'[r] = runs[r] BY <1>2, <3>2
      <4> QED BY <4>1, <4>2 DEF Active
    <3> QED BY <2>2, <3>1, <3>2
  <2> QED BY <1>6, <2>1, <2>3
<1>16. CASE UNCHANGED vars
  BY <1>6, <1>16 DEF vars, Active
<1> QED
  <2>1. CASE Next
    BY <1>7, <1>8, <1>9, <1>10, <1>11, <1>12, <1>13, <1>14, <1>15, <2>1
       DEF Next, HandlerStep, Children
  <2> QED BY <1>16, <2>1

---------------------------------------------------------------------------
(* The chain of continuations does not multiply.                           *)

(* A set that changes in one member only.                                  *)
LEMMA SetChange ==
  ASSUME NEW S, IsFiniteSet(S), NEW T, NEW x, T \ {x} = S \ {x}
  PROVE  /\ IsFiniteSet(T) /\ Cardinality(S) \in Nat /\ Cardinality(T) \in Nat
         /\ (x \in T) = (x \in S) => Cardinality(T) = Cardinality(S)
         /\ x \in T /\ x \notin S => Cardinality(T) = Cardinality(S) + 1
         /\ x \in S /\ x \notin T => Cardinality(T) = Cardinality(S) - 1
<1>1. CASE T = S BY <1>1, FS_CardinalityType
<1>2. CASE x \in T /\ x \notin S
  <2>1. T = S \cup {x} BY <1>2
  <2> QED BY <1>2, <2>1, FS_AddElement, FS_CardinalityType
<1>3. CASE x \in S /\ x \notin T
  <2>1. T = S \ {x} BY <1>3
  <2> QED BY <1>3, <2>1, FS_RemoveElement, FS_CardinalityType
<1>4. CASE (x \in T) = (x \in S)
  <2>1. \A y : y \in T <=> y \in S
    <3>1. ASSUME NEW y, y # x PROVE y \in T <=> y \in S
      <4>1. (y \in T \ {x}) = (y \in S \ {x}) OBVIOUS
      <4> QED BY <3>1, <4>1
    <3> QED BY <1>4, <3>1
  <2>2. T = S BY <2>1
  <2> QED BY <1>1, <2>2
<1> QED BY <1>2, <1>3, <1>4

LEMMA Finite ==
  /\ IsFiniteSet(Continuations) /\ Cardinality(Continuations) \in Nat
  /\ IsFiniteSet(Strays) /\ Cardinality(Strays) \in Nat
  /\ IsFiniteSet(Settled) /\ Cardinality(Settled) \in Nat
  /\ Cardinality(Settled) <= Cardinality(Workers) /\ Cardinality(Workers) \in Nat
<1>1. Continuations \subseteq Slots /\ Strays \subseteq Workers /\ Settled \subseteq Workers
  BY DEF Continuations, Strays, Settled
<1>2. IsFiniteSet(Slots) /\ IsFiniteSet(Workers) OBVIOUS
<1> QED BY <1>1, <1>2, FS_Subset, FS_CardinalityType

(* What a step of one worker does to the workers that are accounted for.   *)
LEMMA OneWorker ==
  ASSUME Linked, NEW w \in Workers,
         \A u \in Workers \ {w} : worker'[u] = worker[u] /\ (worker[u].at # "idle" => Fresh(u)' = Fresh(u))
  PROVE  Strays' \ {w} = Strays \ {w} /\ Settled' \ {w} = Settled \ {w}
BY DEF Strays, Settled

(* An operation that a worker owns is running.                             *)
LEMMA OwnedRuns ==
  ASSUME Linked, NEW w \in Workers, worker[w].at # "idle", Owns(w)
  PROVE  worker[w].slot \in Slots /\ ops[worker[w].slot].status = "running"
<1>1. Handling(w) /\ OpsAreLinked BY DEF Linked
<1>2. w # None OBVIOUS
<1> QED BY <1>1, <1>2 DEF Handling, OpsAreLinked, Owns

LEMMA Counts == ActiveCount \in 0..1 /\ CancelCount \in 0..1 /\ ActiveCount' \in 0..1
BY DEF ActiveCount, CancelCount

(* The account of a step of one worker: at most the continuation s becomes *)
(* free or queued, and the other workers keep or miss theirs as before.    *)
Bit(b) == IF b THEN 1 ELSE 0
Elsewhere(w, s) ==
  /\ \A u \in Workers \ {w} :
       worker'[u] = worker[u] /\ (worker[u].at # "idle" => Fresh(u)' = Fresh(u))
  /\ \A t \in Slots \ {s} : ops'[t] = ops[t]

LEMMA OneStep ==
  ASSUME Linked, Linked', Accounted, NEW w \in Workers, NEW s \in Slots, Elsewhere(w, s),
         UNCHANGED <<canceller, cancels>>,
         Bit(s \in Continuations') + Bit(w \in Strays') + ActiveCount + Bit(w \in Settled) + faults
           <= Bit(s \in Continuations) + Bit(w \in Strays) + ActiveCount' + Bit(w \in Settled')
              + faults'
  PROVE  Accounted'
<1> USE DEF Bit
<1>0. PICK c0 \in 0..1, c1 \in 0..1, s0 \in 0..1, s1 \in 0..1, d0 \in 0..1, d1 \in 0..1 :
        /\ c0 = Bit(s \in Continuations) /\ c1 = Bit(s \in Continuations')
        /\ s0 = Bit(w \in Strays) /\ s1 = Bit(w \in Strays')
        /\ d0 = Bit(w \in Settled) /\ d1 = Bit(w \in Settled')
  OBVIOUS
<1>9. /\ faults \in Nat /\ faults' \in Nat /\ cancels \in Nat
      /\ \A u \in Workers \ {w} :
           worker'[u] = worker[u] /\ (worker[u].at # "idle" => Fresh(u)' = Fresh(u))
      /\ \A t \in Slots \ {s} : ops'[t] = ops[t]
  BY DEF Linked, TypeOK, Elsewhere
<1>1. Strays' \ {w} = Strays \ {w} /\ Settled' \ {w} = Settled \ {w} BY <1>9, OneWorker
<1>2. Continuations' \ {s} = Continuations \ {s} BY <1>9 DEF Continuations
<1>3. /\ Cardinality(Continuations) \in Nat /\ Cardinality(Continuations') \in Nat
      /\ Cardinality(Continuations') = Cardinality(Continuations) + c1 - c0
  BY <1>0, <1>2, Finite, SetChange
<1>4. /\ Cardinality(Strays) \in Nat /\ Cardinality(Strays') \in Nat
      /\ Cardinality(Strays') = Cardinality(Strays) + s1 - s0
  BY <1>0, <1>1, Finite, SetChange
<1>5. /\ Cardinality(Settled) \in Nat /\ Cardinality(Settled') \in Nat
      /\ Cardinality(Settled') = Cardinality(Settled) + d1 - d0
  BY <1>0, <1>1, Finite, SetChange
<1>6. CancelCount' = CancelCount /\ CancelCount \in 0..1 /\ ActiveCount \in 0..1
      /\ ActiveCount' \in 0..1
  BY Counts DEF CancelCount
<1>7. Cardinality(Continuations) + Cardinality(Strays) + CancelCount
        <= ActiveCount + Cardinality(Settled) + faults + cancels
  BY DEF Accounted
<1>8. Cardinality(Continuations') + Cardinality(Strays') + CancelCount'
        <= ActiveCount' + Cardinality(Settled') + faults' + cancels'
  <2>1. /\ c0 \in 0..1 /\ c1 \in 0..1 /\ s0 \in 0..1 /\ s1 \in 0..1 /\ d0 \in 0..1 /\ d1 \in 0..1
        /\ faults \in Nat /\ cancels \in Nat /\ cancels' = cancels /\ faults' \in Nat
        /\ c1 + s1 + ActiveCount + d0 + faults <= c0 + s0 + ActiveCount' + d1 + faults'
    BY <1>0, <1>9
  <2>2. PICK c \in Nat, t \in Nat, d \in Nat, k \in 0..1, a \in 0..1, b \in 0..1 :
          /\ c = Cardinality(Continuations) /\ t = Cardinality(Strays) /\ d = Cardinality(Settled)
          /\ k = CancelCount /\ a = ActiveCount /\ b = ActiveCount'
    BY <1>3, <1>4, <1>5, <1>6
  <2>3. c + t + k <= a + d + faults + cancels BY <1>7, <2>2
  <2>4. c1 + s1 + a + d0 + faults <= c0 + s0 + b + d1 + faults' BY <2>1, <2>2
  <2>b. PICK f \in Nat, g \in Nat, x \in Nat : f = faults /\ g = faults' /\ x = cancels BY <2>1
  <2>5. (c + c1 - c0) + (t + s1 - s0) + k <= b + (d + d1 - d0) + g + x
    <3>1. c + t + k <= a + d + f + x BY <2>3, <2>b
    <3>2. c1 + s1 + a + d0 + f <= c0 + s0 + b + d1 + g BY <2>4, <2>b
    <3>3. f \in Nat /\ g \in Nat /\ x \in Nat OBVIOUS
    <3>4. c0 \in Nat /\ c1 \in Nat /\ s0 \in Nat /\ s1 \in Nat /\ d0 \in Nat /\ d1 \in Nat
      OBVIOUS
    <3>5. c \in Nat /\ t \in Nat /\ d \in Nat /\ k \in Nat /\ a \in Nat /\ b \in Nat
      OBVIOUS
    <3> QED BY ONLY <3>1, <3>2, <3>3, <3>4, <3>5
  <2>6. /\ Cardinality(Continuations') = c + c1 - c0 /\ Cardinality(Strays') = t + s1 - s0
        /\ Cardinality(Settled') = d + d1 - d0 /\ CancelCount' = k /\ ActiveCount' = b
        /\ cancels' = cancels
    BY <1>3, <1>4, <1>5, <1>6, <2>1, <2>2
  <2> QED BY <2>5, <2>6, <2>b
<1> QED BY <1>8 DEF Accounted

(* Only its owner decides whether a lease is fresh.                        *)
LEMMA FreshElsewhere ==
  ASSUME Linked, Linked', NEW w \in Workers, worker[w].at # "idle",
         NEW s \in Slots, \A u \in Workers \ {w} : worker'[u] = worker[u],
         \A t \in Slots \ {s} : ops'[t] = ops[t],
         ops'[s] = ops[s] \/ (ops[s].holder \in {w, None} /\ ops'[s].holder \in {w, None})
  PROVE  Elsewhere(w, s)
<1> SUFFICES ASSUME NEW u \in Workers \ {w}, worker[u].at # "idle"
             PROVE  Fresh(u)' = Fresh(u)
  BY DEF Elsewhere
<1>1. worker[u].slot \in Slots /\ worker'[u] = worker[u] /\ u # None
  BY DEF Linked, Handling
<1>2. CASE ops'[worker[u].slot] = ops[worker[u].slot] BY <1>1, <1>2 DEF Fresh, Owns
<1>3. CASE /\ worker[u].slot = s
           /\ ops[s].holder \in {w, None} /\ ops'[s].holder \in {w, None}
  BY <1>1, <1>3 DEF Fresh, Owns
<1> QED BY <1>1, <1>2, <1>3

(* A step that frees and enqueues nothing and that leaves its worker       *)
(* accounted for as well as before.                                        *)
LEMMA AsBefore ==
  ASSUME Linked, Linked', Accounted, NEW w \in Workers, NEW s \in Slots, Elsewhere(w, s),
         UNCHANGED <<runs, canceller, faults, cancels>>,
         (ops'[s].status = "free") = (ops[s].status = "free"),
         w \in Strays' => w \in Strays, w \in Settled => w \in Settled'
  PROVE  Accounted'
<1>1. Bit(s \in Continuations') = Bit(s \in Continuations) BY DEF Continuations
<1>2. ActiveCount' = ActiveCount /\ ActiveCount \in 0..1 BY DEF ActiveCount, Active
<1>3. /\ Bit(w \in Strays') \in 0..1 /\ Bit(w \in Strays) \in 0..1
      /\ Bit(w \in Settled') \in 0..1 /\ Bit(w \in Settled) \in 0..1
      /\ Bit(s \in Continuations) \in 0..1 /\ faults \in Nat
  BY DEF Bit, Linked, TypeOK
<1>4. Bit(w \in Strays') <= Bit(w \in Strays) /\ Bit(w \in Settled) <= Bit(w \in Settled')
  BY DEF Bit
<1>5. Bit(s \in Continuations') + Bit(w \in Strays') + ActiveCount + Bit(w \in Settled) + faults
        <= Bit(s \in Continuations) + Bit(w \in Strays) + ActiveCount' + Bit(w \in Settled')
           + faults'
  <2> HIDE DEF Bit, ActiveCount
  <2> QED BY <1>1, <1>2, <1>3, <1>4
<1> QED BY <1>5, OneStep

LEMMA WorkerAccounts ==
  ASSUME Linked, Linked', Accounted, NEW w \in Workers,
         \/ \E s \in Slots : Lease(w, s)
         \/ Load(w) \/ Confirm(w)
         \/ AlreadyDone(w) \/ EnqueueWave(w) \/ WaitForWave(w) \/ GenerateReport(w)
         \/ WriteReviews(w) \/ ArchiveAndEnqueueAudio(w) \/ WaitForAudio(w) \/ Trouble(w)
  PROVE  Accounted'
<1> USE DEF children, budgets
<1>1. UNCHANGED <<runs, canceller, faults, cancels>>
  BY DEF Lease, Load, Confirm, AlreadyDone, EnqueueWave, WaitForWave, GenerateReport,
         WriteReviews, ArchiveAndEnqueueAudio, WaitForAudio, Trouble
<1>2. /\ ops \in [Slots -> Operation] /\ worker \in [Workers -> Process]
  BY DEF Linked, TypeOK
<1>3. worker[w].at # "idle" => Handling(w) BY DEF Linked
<1>4. ASSUME NEW s \in Slots, Lease(w, s) PROVE Accounted'
  <2>1. /\ worker[w].at = "idle" /\ (ops[s].status = "queued" \/ ops[s].lapsed)
        /\ ops[s].status # "free"
        /\ ops' = [ops EXCEPT ![s].status = "running", ![s].holder = w, ![s].lapsed = FALSE,
                              ![s].attempts = @ + 1]
        /\ worker' = [worker EXCEPT ![w] =
                        [Idle EXCEPT !.at = "leased", !.slot = s, !.run = ops[s].run]]
    BY <1>4 DEF Lease
  <2>2. /\ worker'[w].at = "leased" /\ worker'[w].slot = s
        /\ \A u \in Workers \ {w} : worker'[u] = worker[u]
        /\ \A t \in Slots \ {s} : ops'[t] = ops[t]
        /\ ops'[s].status = "running" /\ ops'[s].holder = w /\ ops'[s].lapsed = FALSE
    BY <1>2, <2>1 DEF Idle, Operation
  <2>3. Elsewhere(w, s)
    <3> SUFFICES ASSUME NEW u \in Workers \ {w}, worker[u].at # "idle"
                 PROVE  Fresh(u)' = Fresh(u)
      BY <2>2 DEF Elsewhere
    <3>1. worker[u].slot \in Slots /\ worker'[u] = worker[u] BY <2>2 DEF Linked, Handling
    <3>2. CASE worker[u].slot = s
      <4>1. ~Fresh(u) BY <2>1, <3>2, UnownedSlot DEF Fresh
      <4>2. ~Fresh(u)' BY <2>2, <3>1, <3>2 DEF Fresh, Owns
      <4> QED BY <4>1, <4>2 DEF Fresh
    <3>3. CASE worker[u].slot # s BY <2>2, <3>1, <3>3 DEF Fresh, Owns
    <3> QED BY <3>2, <3>3
  <2>4. w \notin Strays' /\ w \notin Settled
    BY <2>1, <2>2 DEF Strays, Settled, Fresh, Owns
  <2> QED BY <1>1, <2>1, <2>2, <2>3, <2>4, AsBefore
<1>5. CASE Load(w) \/ Confirm(w)
  <2> DEFINE s == worker[w].slot
  <2>1. /\ worker[w].at \in {"leased", "loaded"} /\ Owns(w)
        /\ ops' = [ops EXCEPT ![s].lapsed = FALSE]
    BY <1>5 DEF Load, Confirm, InStage, Renewed
  <2>2. s \in Slots BY <1>3, <2>1 DEF Handling
  <2>3. /\ worker'[w].slot = s /\ \A u \in Workers \ {w} : worker'[u] = worker[u]
    BY <1>2, <1>5 DEF Load, Confirm, Process
  <2>4. /\ \A t \in Slots \ {s} : ops'[t] = ops[t]
        /\ ops'[s].status = ops[s].status /\ ops'[s].holder = w /\ ops[s].holder = w
        /\ ops'[s].lapsed = FALSE
    BY <1>2, <2>1, <2>2 DEF Operation, Owns
  <2>5. w \notin Strays' /\ w \notin Settled
    BY <2>1, <2>3, <2>4 DEF Strays, Settled, Fresh, Owns
  <2> HIDE DEF s
  <2>6. Elsewhere(w, s) BY <2>1, <2>2, <2>3, <2>4, FreshElsewhere
  <2> QED BY <1>1, <2>2, <2>4, <2>5, <2>6, AsBefore
<1>6. CASE \/ AlreadyDone(w) \/ EnqueueWave(w) \/ WaitForWave(w) \/ GenerateReport(w)
           \/ WriteReviews(w) \/ ArchiveAndEnqueueAudio(w) \/ WaitForAudio(w) \/ Trouble(w)
  <2> DEFINE s == worker[w].slot
  <2>1. /\ worker[w].at \in {"loaded", "confirmed", "moving"} /\ ops' = ops
        /\ worker'[w].at = "moving" /\ worker'[w].slot = s
        /\ \A u \in Workers \ {w} : worker'[u] = worker[u]
    <3>1. worker[w].at \in {"loaded", "confirmed", "moving"} /\ ops' = ops
      BY <1>6 DEF AlreadyDone, EnqueueWave, WaitForWave, GenerateReport, WriteReviews,
                  ArchiveAndEnqueueAudio, WaitForAudio, Trouble, InStage
    <3>2. PICK to : Decide(w, to)
      BY <1>6 DEF AlreadyDone, EnqueueWave, WaitForWave, GenerateReport, WriteReviews,
                  ArchiveAndEnqueueAudio, WaitForAudio, Trouble
    <3> QED BY <1>2, <3>1, <3>2 DEF Decide, Process
  <2>2. s \in Slots BY <1>3, <2>1 DEF Handling
  <2>3. (w \in Strays' => w \in Strays) /\ w \notin Settled
    BY <2>1 DEF Strays, Settled, Fresh, Owns
  <2> HIDE DEF s
  <2>4. Elsewhere(w, s) BY <2>1, <2>2, FreshElsewhere
  <2> QED BY <1>1, <2>1, <2>2, <2>3, <2>4, AsBefore
<1> QED BY <1>4, <1>5, <1>6

(* The moves of runs, the ends of continuations, and faults.               *)
LEMMA RunAccounts ==
  ASSUME Linked, Linked', Accounted, NEW w \in Workers, Move(w) \/ Return(w) \/ Crash(w) \/ Stall(w)
  PROVE  Accounted'
<1> DEFINE s == worker[w].slot
<1> USE DEF children, budgets
<1>1. worker[w].at # "idle" /\ Handling(w) /\ s \in Slots
  BY DEF Linked, Handling, Move, Return, Crash, Stall
<1>2. /\ ops \in [Slots -> Operation] /\ worker \in [Workers -> Process]
      /\ faults \in Nat /\ worker[w] \in Process
  BY DEF Linked, TypeOK
<1>3. UNCHANGED <<canceller, cancels>> BY DEF Move, Return, Crash, Stall
<1>4. ActiveCount \in 0..1 /\ ActiveCount' \in 0..1 BY Counts
<1>5. \A b : Bit(b) \in 0..1 BY DEF Bit
<1>6. CASE Move(w)
  <2>1. /\ worker[w].at = "moving" /\ faults' = faults
        /\ worker'[w].at = "done" /\ worker'[w].slot = s
        /\ \A u \in Workers \ {w} : worker'[u] = worker[u]
    BY <1>2, <1>6 DEF Move, Process
  <2>2. CASE worker[w].to.stage \in Ended
    <3>1. ops' = ops BY <1>6, <2>2 DEF Move
    <3>2. Elsewhere(w, s) BY <1>1, <2>1, <3>1, FreshElsewhere
    <3>3. Bit(w \in Settled) = 0 /\ Bit(w \in Strays') = 0
          /\ Bit(w \in Strays) + Bit(w \in Settled') = 1
          /\ Bit(s \in Continuations') = Bit(s \in Continuations)
      BY <2>1, <3>1 DEF Bit, Settled, Strays, Fresh, Owns, Continuations
    <3>4. Bit(s \in Continuations') + Bit(w \in Strays') + ActiveCount + Bit(w \in Settled) + faults
            <= Bit(s \in Continuations) + Bit(w \in Strays) + ActiveCount' + Bit(w \in Settled')
               + faults'
      <4> HIDE DEF s
      <4> QED BY <1>2, <1>4, <1>5, <2>1, <3>3
    <3> QED BY <1>1, <1>3, <3>2, <3>4, OneStep
  <2>3. CASE worker[w].to.stage \notin Ended
    <3>1. PICK t \in Slots : /\ ops[t].status = "free"
                             /\ ops' = [ops EXCEPT ![t] = Queued(worker[w].run, worker[w].to.stage)]
      BY <1>6, <2>3, EnqueuedSlot DEF Move, ContinuationStage
    <3>2. /\ ops[t].holder = None /\ ops'[t].holder = None /\ ops'[t].status = "queued"
          /\ \A q \in Slots \ {t} : ops'[q] = ops[q]
      BY <1>2, <3>1 DEF Linked, OpsAreLinked, Queued, Free
    <3>3. Elsewhere(w, t) BY <1>1, <2>1, <3>2, FreshElsewhere
    <3>4. ActiveCount' = 1
      <4>1. worker[w].run \in Runs /\ worker[w].to.status = StatusOf(worker[w].to.stage)
        BY <1>1, <2>1 DEF Handling
      <4>2. StatusOf(worker[w].to.stage) = "running" BY <2>3 DEF StatusOf, Ended
      <4>3. runs'[worker[w].run].status = "running"
        BY <1>6, <4>1, <4>2 DEF Move, Linked, TypeOK, Transitioned
      <4> QED BY <4>1, <4>3 DEF ActiveCount, Active
    <3>5. Bit(t \in Continuations) = 0 /\ Bit(t \in Continuations') = 1
      BY <3>1, <3>2 DEF Bit, Continuations
    <3>6. Bit(w \in Settled) = 0 /\ Bit(w \in Strays') = 0
      BY <2>1 DEF Bit, Settled, Strays
    <3>7. Bit(w \in Strays) + Bit(w \in Settled') = 1
      <4>1. Fresh(w)' = Fresh(w)
        <5>1. CASE s = t
          <6>1. ~Owns(w) /\ ~Owns(w)' BY <2>1, <3>2, <5>1, UnownedSlot, <3>1 DEF Owns
          <6> QED BY <6>1 DEF Fresh
        <5>2. CASE s # t BY <1>1, <2>1, <3>2, <5>2 DEF Fresh, Owns
        <5> QED BY <5>1, <5>2
      <4>2. w \in Strays <=> ~Fresh(w) BY <2>1 DEF Strays
      <4>3. w \in Settled' <=> Fresh(w)' BY <2>1 DEF Settled
      <4> QED BY <4>1, <4>2, <4>3 DEF Bit
    <3>8. Bit(t \in Continuations') + Bit(w \in Strays') + ActiveCount + Bit(w \in Settled) + faults
            <= Bit(t \in Continuations) + Bit(w \in Strays) + ActiveCount' + Bit(w \in Settled')
               + faults'
      BY <1>2, <1>4, <1>5, <2>1, <3>4, <3>5, <3>6, <3>7
    <3> QED BY <1>3, <3>3, <3>8, OneStep
  <2> QED BY <2>2, <2>3
<1>7. CASE Return(w)
  <2>1. /\ faults' = faults /\ runs' = runs /\ worker'[w].at = "idle"
        /\ \A u \in Workers \ {w} : worker'[u] = worker[u]
        /\ worker[w].at = "done" \/ ~Owns(w)
        /\ IF Owns(w) THEN ops' = [ops EXCEPT ![s] = Free] ELSE ops' = ops
    BY <1>2, <1>7 DEF Return, Idle
  <2>2. /\ \A t \in Slots \ {s} : ops'[t] = ops[t]
        /\ ops'[s] = ops[s] \/ (ops[s].holder \in {w, None} /\ ops'[s].holder \in {w, None})
    BY <1>1, <1>2, <2>1 DEF Free, Owns
  <2>3. Bit(w \in Strays') = 0 /\ Bit(w \in Settled') = 0
    BY <2>1 DEF Bit, Strays, Settled
  <2>4. ActiveCount' = ActiveCount BY <2>1 DEF ActiveCount, Active
  <2>5. Bit(s \in Continuations') + Bit(w \in Settled) <= Bit(s \in Continuations) + Bit(w \in Strays)
    <3>1. CASE Owns(w)
      <4>1. s \in Continuations /\ s \notin Continuations'
        BY <1>1, <1>2, <2>1, <3>1, OwnedRuns DEF Continuations, Free
      <4>2. Bit(s \in Continuations) = 1 /\ Bit(s \in Continuations') = 0 BY <4>1 DEF Bit
      <4> HIDE DEF s
      <4> QED BY <1>5, <4>2
    <3>2. CASE ~Owns(w)
      <4>1. Bit(s \in Continuations') = Bit(s \in Continuations) BY <2>1, <3>2 DEF Continuations
      <4>2. Bit(w \in Settled) = 0 BY <3>2 DEF Bit, Settled, Fresh
      <4> HIDE DEF s
      <4> QED BY <1>5, <4>1, <4>2
    <3> QED BY <3>1, <3>2
  <2>6. Elsewhere(w, s) BY <1>1, <2>1, <2>2, FreshElsewhere
  <2>7. Bit(s \in Continuations') + Bit(w \in Strays') + ActiveCount + Bit(w \in Settled) + faults
          <= Bit(s \in Continuations) + Bit(w \in Strays) + ActiveCount' + Bit(w \in Settled')
             + faults'
    <3> HIDE DEF s
    <3> QED BY <1>2, <1>4, <1>5, <2>1, <2>3, <2>4, <2>5
  <2> QED BY <1>1, <1>3, <2>6, <2>7, OneStep
<1>8. CASE Crash(w) \/ Stall(w)
  <2>1. /\ faults' = faults + 1 /\ runs' = runs
        /\ \A u \in Workers \ {w} : worker'[u] = worker[u]
        /\ ops' = ops \/ ops' = [ops EXCEPT ![s].lapsed = TRUE]
        /\ Owns(w) \/ ops' = ops
    BY <1>2, <1>8 DEF Crash, Stall
  <2>2. /\ \A t \in Slots \ {s} : ops'[t] = ops[t]
        /\ ops'[s].status = ops[s].status
        /\ ops'[s] = ops[s] \/ (ops[s].holder \in {w, None} /\ ops'[s].holder \in {w, None})
    BY <1>1, <1>2, <2>1 DEF Operation, Owns
  <2>3. Elsewhere(w, s) BY <1>1, <2>1, <2>2, FreshElsewhere
  <2>4. ActiveCount' = ActiveCount BY <2>1 DEF ActiveCount, Active
  <2>5. Bit(s \in Continuations') = Bit(s \in Continuations) BY <2>2 DEF Continuations
  <2>6. Bit(w \in Strays') + Bit(w \in Settled) <= 1
    <3>1. CASE worker[w].at = "done"
      <4>1. worker'[w].at \in {"idle", "done"} BY <1>2, <1>8, <3>1 DEF Crash, Stall, Idle
      <4>2. Bit(w \in Strays') = 0 BY <4>1 DEF Bit, Strays
      <4> QED BY <1>5, <4>2
    <3>2. CASE worker[w].at # "done"
      <4>1. Bit(w \in Settled) = 0 BY <3>2 DEF Bit, Settled
      <4> QED BY <1>5, <4>1
    <3> QED BY <3>1, <3>2
  <2>7. Bit(s \in Continuations') + Bit(w \in Strays') + ActiveCount + Bit(w \in Settled) + faults
          <= Bit(s \in Continuations) + Bit(w \in Strays) + ActiveCount' + Bit(w \in Settled')
             + faults'
    <3> HIDE DEF s
    <3> QED BY <1>2, <1>4, <1>5, <2>1, <2>4, <2>5, <2>6
  <2> QED BY <1>1, <1>3, <2>3, <2>7, OneStep
<1> QED BY <1>6, <1>7, <1>8

(* A step outside the workers that leaves all continuations but s alone.   *)
LEMMA OutsideStep ==
  ASSUME Linked, Linked', Accounted, UNCHANGED worker, faults' = faults,
         NEW n \in Nat, Cardinality(Continuations') = Cardinality(Continuations) + n,
         \A w \in Workers : worker[w].at # "idle" => Fresh(w)' = Fresh(w),
         n + CancelCount' + ActiveCount + cancels <= CancelCount + ActiveCount' + cancels'
  PROVE  Accounted'
<1>1. Strays' = Strays /\ Settled' = Settled BY DEF Strays, Settled
<1>2. PICK c \in Nat, s \in Nat, d \in Nat, f \in Nat, x \in Nat, y \in Nat :
        /\ c = Cardinality(Continuations) /\ s = Cardinality(Strays) /\ d = Cardinality(Settled)
        /\ f = faults /\ x = cancels /\ y = cancels'
  BY Finite DEF Linked, TypeOK
<1>3. PICK k \in 0..1, l \in 0..1, a \in 0..1, b \in 0..1 :
        /\ k = CancelCount /\ l = CancelCount' /\ a = ActiveCount /\ b = ActiveCount'
  BY DEF CancelCount, ActiveCount
<1>4. c + s + k <= a + d + f + x BY <1>2, <1>3 DEF Accounted
<1>5. n + l + a + x <= k + b + y BY <1>2, <1>3
<1>6. (c + n) + s + l <= b + d + f + y
  <2>1. /\ n \in Nat /\ c \in Nat /\ s \in Nat /\ d \in Nat /\ f \in Nat /\ x \in Nat /\ y \in Nat
        /\ k \in Nat /\ l \in Nat /\ a \in Nat /\ b \in Nat
    OBVIOUS
  <2> QED BY ONLY <1>4, <1>5, <2>1
<1>7. Cardinality(Continuations') + Cardinality(Strays') + CancelCount'
        <= ActiveCount' + Cardinality(Settled') + faults' + cancels'
  <2> HIDE DEF Continuations, Strays, Settled, CancelCount, ActiveCount
  <2> QED BY <1>1, <1>2, <1>3, <1>6
<1> QED BY <1>7 DEF Accounted

LEMMA OtherAccounts ==
  ASSUME Linked, Linked', Accounted,
         \/ CancelAudio \/ CancelRun \/ OtherWave
         \/ \E r \in Runs : EnqueueRun(r) \/ CancelRead(r)
         \/ \E v \in Waves : WaveEnds(v) \/ AudioEnds(v)
         \/ UNCHANGED vars
  PROVE  Accounted'
<1> USE DEF children, budgets
<1>1. UNCHANGED worker /\ faults' = faults
  BY DEF CancelAudio, CancelRun, OtherWave, EnqueueRun, CancelRead, WaveEnds, AudioEnds, vars
<1>2. cancels \in Nat /\ ActiveCount \in 0..1 /\ ActiveCount' \in 0..1 /\ CancelCount \in 0..1
  BY Counts DEF Linked, TypeOK
<1>3. ASSUME ops' = ops, CancelCount' + ActiveCount + cancels <= CancelCount + ActiveCount' + cancels'
      PROVE  Accounted'
  <2>1. \A w \in Workers : Fresh(w)' = Fresh(w) BY <1>1, <1>3 DEF Fresh, Owns
  <2>2. Cardinality(Continuations') = Cardinality(Continuations) + 0
    <3>1. Continuations' = Continuations BY <1>3 DEF Continuations
    <3> QED BY <3>1, Finite
  <2>3. 0 + CancelCount' + ActiveCount + cancels <= CancelCount + ActiveCount' + cancels'
    <3>1. CancelCount' \in 0..1 BY DEF CancelCount
    <3> QED BY <1>2, <1>3, <3>1
  <2> QED BY <1>1, <2>1, <2>2, <2>3, OutsideStep
<1>4. ASSUME ops' = ops, runs' = runs, canceller' = canceller, cancels' = cancels PROVE Accounted'
  <2>1. ActiveCount' = ActiveCount /\ CancelCount' = CancelCount
    BY <1>4 DEF ActiveCount, Active, CancelCount
  <2>2. CancelCount' + ActiveCount + cancels <= CancelCount + ActiveCount' + cancels'
    <3> HIDE DEF ActiveCount, CancelCount
    <3> QED BY <1>2, <1>4, <2>1
  <2> QED BY <1>3, <1>4, <2>2
<1>5. CASE OtherWave \/ (\E v \in Waves : WaveEnds(v) \/ AudioEnds(v)) \/ UNCHANGED vars
  BY <1>4, <1>5 DEF OtherWave, WaveEnds, AudioEnds, vars
<1>6. CASE CancelAudio
  <2>1. /\ ops' = ops /\ runs' = runs /\ cancels' = cancels
        /\ canceller.at # "idle" /\ canceller'.at # "idle"
    BY <1>6 DEF CancelAudio, Linked, TypeOK
  <2>2. ActiveCount' = ActiveCount /\ CancelCount' = CancelCount
    BY <2>1 DEF ActiveCount, Active, CancelCount
  <2>3. CancelCount' + ActiveCount + cancels <= CancelCount + ActiveCount' + cancels'
    BY <1>2, <2>1, <2>2
  <2> QED BY <1>3, <2>1, <2>3
<1>7. CASE CancelRun
  <2>1. ops' = ops /\ cancels' = cancels /\ CancelCount = 1 /\ CancelCount' = 0
    BY <1>7 DEF CancelRun, CancelCount
  <2>2. PICK a \in 0..1, b \in 0..1, x \in Nat : a = ActiveCount /\ b = ActiveCount' /\ x = cancels
    BY <1>2
  <2>3. 0 + a + x <= 1 + b + x OBVIOUS
  <2>4. CancelCount' + ActiveCount + cancels <= CancelCount + ActiveCount' + cancels'
    BY <2>1, <2>2, <2>3
  <2> QED BY <1>3, <2>1, <2>4
<1>8. ASSUME NEW r \in Runs, CancelRead(r) PROVE Accounted'
  <2>1. ops' = ops /\ cancels' = cancels + 1 /\ CancelCount = 0
    BY <1>8 DEF CancelRead, CancelCount
  <2>2. \/ CancelCount' = 0 \/ (ActiveCount' = ActiveCount /\ CancelCount' \in 0..1)
    <3>1. canceller' = canceller \/ runs' = runs BY <1>8 DEF CancelRead
    <3>2. canceller' = canceller => CancelCount' = 0 BY <2>1 DEF CancelCount
    <3>3. runs' = runs => ActiveCount' = ActiveCount BY DEF ActiveCount, Active
    <3>4. CancelCount' \in 0..1 BY DEF CancelCount
    <3> QED BY <3>1, <3>2, <3>3, <3>4
  <2>3. CancelCount' + ActiveCount + cancels <= CancelCount + ActiveCount' + cancels'
    <3>1. PICK a \in 0..1, b \in 0..1, k \in 0..1, x \in Nat :
            a = ActiveCount /\ b = ActiveCount' /\ k = CancelCount' /\ x = cancels
      BY <1>2 DEF CancelCount
    <3>2. k = 0 \/ b = a BY <2>2, <3>1
    <3>3. k + a + x <= 0 + b + (x + 1) BY <3>2
    <3> QED BY <2>1, <3>1, <3>3
  <2> QED BY <1>3, <2>1, <2>3
<1>9. ASSUME NEW r \in Runs, EnqueueRun(r) PROVE Accounted'
  <2>1. cancels' = cancels /\ canceller' = canceller /\ ActiveCount = 0
    BY <1>9 DEF EnqueueRun, ActiveCount
  <2>2. ActiveCount' = 1
    <3>1. runs'[r] = NewRun BY <1>9 DEF EnqueueRun, Linked, TypeOK
    <3> QED BY <3>1 DEF ActiveCount, Active, NewRun
  <2>3. PICK s \in Slots : ops[s].status = "free"
                           /\ ops' = [ops EXCEPT ![s] = Queued(r, NewRun.stage)]
    BY <1>9, EnqueuedSlot DEF EnqueueRun
  <2>4. /\ ops'[s].status = "queued" /\ ops'[s].holder = None
        /\ \A t \in Slots \ {s} : ops'[t] = ops[t]
    BY <2>3 DEF Linked, TypeOK, Queued, Free
  <2>5. Cardinality(Continuations') = Cardinality(Continuations) + 1
    <3>1. s \notin Continuations /\ s \in Continuations' BY <2>3, <2>4 DEF Continuations
    <3>2. Continuations' \ {s} = Continuations \ {s} BY <2>4 DEF Continuations
    <3> QED BY <3>1, <3>2, Finite, SetChange
  <2>6. ASSUME NEW w \in Workers, worker[w].at # "idle" PROVE Fresh(w)' = Fresh(w)
    <3>1. worker[w].slot \in Slots /\ w # None BY <2>6 DEF Linked, Handling
    <3>2. CASE worker[w].slot = s
      <4>1. ~Owns(w) BY <2>3, <2>6, <3>2, UnownedSlot
      <4>2. ~Owns(w)' BY <1>1, <2>4, <3>1, <3>2 DEF Owns
      <4> QED BY <4>1, <4>2 DEF Fresh
    <3>3. CASE worker[w].slot # s BY <1>1, <2>4, <3>1, <3>3 DEF Fresh, Owns
    <3> QED BY <3>2, <3>3
  <2>7. 1 + CancelCount' + ActiveCount + cancels <= CancelCount + ActiveCount' + cancels'
    <3>1. CancelCount' = CancelCount BY <2>1 DEF CancelCount
    <3> QED BY <1>2, <2>1, <2>2, <3>1
  <2> QED BY <1>1, <2>5, <2>6, <2>7, OutsideStep
<1> QED BY <1>5, <1>6, <1>7, <1>8, <1>9

LEMMA AccountStep == Linked /\ Linked' /\ Accounted /\ [Next]_vars => Accounted'
<1> SUFFICES ASSUME Linked, Linked', Accounted, [Next]_vars PROVE Accounted'
  OBVIOUS
<1>1. CASE \E w \in Workers :
             \/ \E s \in Slots : Lease(w, s)
             \/ Load(w) \/ Confirm(w)
             \/ AlreadyDone(w) \/ EnqueueWave(w) \/ WaitForWave(w) \/ GenerateReport(w)
             \/ WriteReviews(w) \/ ArchiveAndEnqueueAudio(w) \/ WaitForAudio(w) \/ Trouble(w)
  BY <1>1, WorkerAccounts
<1>2. CASE \E w \in Workers : Move(w) \/ Return(w) \/ Crash(w) \/ Stall(w)
  BY <1>2, RunAccounts
<1>3. CASE \/ CancelAudio \/ CancelRun \/ OtherWave
           \/ \E r \in Runs : EnqueueRun(r) \/ CancelRead(r)
           \/ \E v \in Waves : WaveEnds(v) \/ AudioEnds(v)
           \/ UNCHANGED vars
  BY <1>3, OtherAccounts
<1> QED BY <1>1, <1>2, <1>3 DEF Next, HandlerStep, Children

---------------------------------------------------------------------------
LEMMA InitAccounted == Init => OpenChain /\ Accounted
<1> SUFFICES ASSUME Init PROVE OpenChain /\ Accounted
  OBVIOUS
<1>1. \A r \in Runs : ~Active(r) BY DEF Init, Active, NewRun
<1>2. Continuations = {} /\ Strays = {} /\ Settled = {}
  BY DEF Init, Continuations, Free, Strays, Settled, Idle
<1>3. ActiveCount = 0 /\ CancelCount = 0 /\ faults = 0 /\ cancels = 0
  BY <1>1 DEF ActiveCount, CancelCount, Init
<1> QED BY <1>1, <1>2, <1>3, FS_EmptySet DEF OpenChain, Accounted

(* The inductive invariant: handlers find what their stage needs, the open *)
(* continuation of an active run is for its stage, and continuations are   *)
(* accounted for by runs, workers, faults and cancellations.               *)
THEOREM Invariance == Spec => []IInv
<1>1. Init => IInv BY InitLinked, InitAccounted DEF IInv
<1>2. IInv /\ [Next]_vars => IInv' BY LinkedStep, ChainStep, AccountStep DEF IInv
<1> QED BY <1>1, <1>2, PTL DEF Spec

(* For any number of workers, runs, faults and cancellations: an active    *)
(* run is never without the continuation that takes it on from its stage,  *)
(* and no more continuations than one, one per worker, one per fault and   *)
(* one per cancellation exist at once.                                     *)
THEOREM SoundChain == Spec => []ChainIsSound
<1>1. IInv => TypeOK BY DEF IInv, Linked
<1>2. IInv => ChainIsAlive BY DEF IInv, OpenChain, ChainIsAlive, Open
<1>3. ASSUME IInv PROVE ContinuationsAreBounded
  <2>1. PICK c \in Nat, s \in Nat, d \in Nat, n \in Nat, f \in Nat, x \in Nat :
          /\ c = Cardinality(Continuations) /\ s = Cardinality(Strays) /\ d = Cardinality(Settled)
          /\ n = Cardinality(Workers) /\ f = faults /\ x = cancels /\ d <= n
    BY <1>3, Finite DEF IInv, Linked, TypeOK
  <2>2. PICK k \in 0..1, a \in 0..1 : k = CancelCount /\ a = ActiveCount BY Counts
  <2>3. c + s + k <= a + d + f + x BY <1>3, <2>1, <2>2 DEF IInv, Accounted
  <2>4. c <= 1 + n + f + x BY <2>1, <2>2, <2>3
  <2> QED BY <2>1, <2>4 DEF ContinuationsAreBounded
<1>4. IInv => ChainIsSound BY <1>1, <1>2, <1>3 DEF ChainIsSound
<1> QED BY <1>4, Invariance, PTL

---------------------------------------------------------------------------
(* One worker.                                                             *)
(*                                                                         *)
(* The program runs a single worker, so a handler that has read a run      *)
(* finds it as it was when it writes it back, or cancelled.  What a run    *)
(* says of its wave, report and audio is then true in every stage.         *)

Published(run) ==
  \/ waves[run.event] = "empty" /\ run.report = None
  \/ /\ waves[run.event] = "usable" /\ run.report = run.event /\ run.audio = run.report
     /\ drafts[run.report] = "archived" /\ audio[run.audio] = "succeeded"

(* What a run r may say of itself.                                         *)
Facts(run, r) ==
  /\ run.event # None => owner[run.event] = r /\ waves[run.event] # "none"
  /\ run.report # None => /\ run.event # None /\ run.report = run.event
                          /\ waves[run.event] = "usable" /\ drafts[run.report] # "none"
  /\ run.audio # None => /\ run.report # None /\ run.audio = run.report
                         /\ drafts[run.report] = "archived" /\ audio[run.report] # "none"
  /\ run.stage \in {"enqueue_content_wave", "wait_content_wave", "generate_report"} =>
       run.report = None
  /\ run.stage = "generate_report" => waves[run.event] = "usable"
  /\ run.stage = "archive_and_enqueue_audio" => drafts[run.report] \in {"reviewed", "archived"}
  /\ run.stage = "completed" => run.event # None /\ Published(run)

RunsAreTrue ==
  \A r \in Runs :
    /\ Facts(runs[r], r)
    /\ runs[r].status \in {"none", "queued", "running"} <=> runs[r].stage \notin Ended
    /\ runs[r].status = "succeeded" => runs[r].stage = "completed"

(* No continuation is enqueued for a run that has ended.                   *)
OpsGoOn == \A s \in Slots : ops[s].status # "free" => ops[s].stage \notin Ended

(* The run is as its handler has read it, or cancelled since.              *)
AsRead(w) ==
  LET r == worker[w].run
      snap == worker[w].snap
      to == worker[w].to
  IN
  /\ snap.stage \notin Ended /\ Facts(snap, r)
  /\ runs[r].event = snap.event /\ runs[r].report = snap.report /\ runs[r].audio = snap.audio
  /\ runs[r].stage = snap.stage \/ runs[r].status = "cancelled"
  /\ worker[w].at = "moving" =>
       /\ Facts(Transitioned(runs[r], to), r)
       /\ to.stage \notin Ended => Rank(snap.stage) <= Rank(to.stage)

Truth ==
  /\ RunsAreTrue /\ OpsGoOn
  /\ \A w \in Workers : worker[w].at \in {"loaded", "confirmed", "moving"} => AsRead(w)

(* Waves, reports and audio only go on.                                    *)
ChildrenGrow ==
  \A v \in Waves :
    /\ waves[v] # "none" => waves'[v] # "none" /\ owner'[v] = owner[v]
    /\ waves[v] \in {"usable", "empty"} => waves'[v] = waves[v]
    /\ drafts[v] # "none" => drafts'[v] # "none"
    /\ drafts[v] \in {"reviewed", "archived"} => drafts'[v] \in {"reviewed", "archived"}
    /\ drafts[v] = "archived" => drafts'[v] = "archived"
    /\ audio[v] # "none" => audio'[v] # "none"
    /\ drafts[v] = "archived" /\ audio[v] = "succeeded" => audio'[v] = "succeeded"
    /\ drafts'[v] = "archived" /\ drafts[v] # "archived" => drafts[v] = "reviewed"

LEMMA Ranks ==
  /\ Rank("enqueue_content_wave") = 1 /\ Rank("wait_content_wave") = 2
  /\ Rank("generate_report") = 3 /\ Rank("write_reviews") = 4
  /\ Rank("archive_and_enqueue_audio") = 5 /\ Rank("wait_audio") = 6
<1>1. DOMAIN Path = 1..7 BY DEF Path
<1>2. \A i, j \in 1..7 : Path[i] = Path[j] => i = j BY DEF Path
<1>3. \A i \in 1..7 : Rank(Path[i]) = i BY <1>1, <1>2 DEF Rank
<1>4. /\ Path[1] = "enqueue_content_wave" /\ Path[2] = "wait_content_wave"
      /\ Path[3] = "generate_report" /\ Path[4] = "write_reviews"
      /\ Path[5] = "archive_and_enqueue_audio" /\ Path[6] = "wait_audio"
  BY DEF Path
<1>5. 1 \in 1..7 /\ 2 \in 1..7 /\ 3 \in 1..7 /\ 4 \in 1..7 /\ 5 \in 1..7 /\ 6 \in 1..7
  OBVIOUS
<1> QED BY <1>3, <1>4, <1>5

LEMMA Growth == Linked /\ Truth /\ [Next]_vars => ChildrenGrow
<1> SUFFICES ASSUME Linked, Truth, [Next]_vars PROVE ChildrenGrow
  OBVIOUS
<1> USE NotNull DEF children, budgets
<1>1. /\ waves \in [Waves -> {"none", "active", "usable", "empty", "failed"}]
      /\ drafts \in [Waves -> {"none", "draft", "reviewed", "archived"}]
      /\ audio \in [Waves -> {"none", "active", "succeeded", "failed"}]
      /\ audios \in [Waves -> 0..2] /\ owner \in [Waves -> Runs \cup {None}]
      /\ runs \in [Runs -> Run] /\ worker \in [Workers -> Process]
  BY DEF Linked, TypeOK
<1>2. \A w \in Workers : worker[w].at = "confirmed" =>
        /\ Has(worker[w].snap, worker[w].snap.stage) /\ worker[w].snap \in Run
        /\ Facts(worker[w].snap, worker[w].run)
  BY <1>1 DEF Linked, Handling, Truth, AsRead, Process
<1>3. CASE UNCHANGED <<waves, drafts, audio, owner>>
  BY <1>3 DEF ChildrenGrow
<1>4. ASSUME NEW w \in Workers, EnqueueWave(w) PROVE ChildrenGrow
  <2>1. UNCHANGED <<drafts, audio>>
    BY <1>4 DEF EnqueueWave
  <2>2. CASE WaveIsActive BY <1>3, <1>4, <2>1, <2>2 DEF EnqueueWave
  <2>3. CASE ~WaveIsActive
    <3>1. PICK v \in Waves : /\ waves[v] = "none" /\ waves' = [waves EXCEPT ![v] = "active"]
                             /\ owner' = [owner EXCEPT ![v] = worker[w].run]
      BY <1>4, <2>3 DEF EnqueueWave
    <3> QED BY <1>1, <2>1, <3>1 DEF ChildrenGrow
  <2> QED BY <2>2, <2>3
<1>5. ASSUME NEW w \in Workers, GenerateReport(w) PROVE ChildrenGrow
  <2>1. UNCHANGED <<waves, audio, owner>> BY <1>5 DEF GenerateReport
  <2>2. drafts' = drafts \/ \E v : drafts[v] = "none" /\ drafts' = [drafts EXCEPT ![v] = "draft"]
    BY <1>5 DEF GenerateReport
  <2> QED BY <1>1, <2>1, <2>2 DEF ChildrenGrow
<1>6. ASSUME NEW w \in Workers, WriteReviews(w) PROVE ChildrenGrow
  <2>1. UNCHANGED <<waves, audio, owner>> BY <1>6 DEF WriteReviews
  <2>2. drafts' = drafts
        \/ \E v : drafts[v] # "archived" /\ drafts' = [drafts EXCEPT ![v] = "reviewed"]
    BY <1>6 DEF WriteReviews
  <2> QED BY <1>1, <2>1, <2>2 DEF ChildrenGrow
<1>7. ASSUME NEW w \in Workers, ArchiveAndEnqueueAudio(w) PROVE ChildrenGrow
  <2>1. UNCHANGED <<waves, owner>> /\ worker[w].at = "confirmed"
        /\ worker[w].snap.stage = "archive_and_enqueue_audio"
    BY <1>7 DEF ArchiveAndEnqueueAudio, InStage
  <2>2. CASE UNCHANGED <<drafts, audio>> BY <1>3, <2>1, <2>2
  <2>3. CASE ~(UNCHANGED <<drafts, audio>>)
    <3>1. PICK v \in Waves : v = worker[w].snap.report BY <1>2, <2>1 DEF Has, Run
    <3>2. drafts[v] \in {"reviewed", "archived"} BY <1>2, <2>1, <3>1 DEF Facts
    <3>3. ~KeepsAudio(v) /\ drafts' = [drafts EXCEPT ![v] = "archived"]
          /\ audio' = [audio EXCEPT ![v] = "active"]
      BY <1>7, <2>3, <3>1 DEF ArchiveAndEnqueueAudio, ArchivedWithAudio
    <3>4. drafts[v] # "archived" \/ audio[v] = "none" BY <3>3 DEF KeepsAudio
    <3> QED BY <1>1, <2>1, <3>2, <3>3, <3>4 DEF ChildrenGrow
  <2> QED BY <2>2, <2>3
<1>8. ASSUME NEW v \in Waves, WaveEnds(v) PROVE ChildrenGrow
  <2>1. /\ UNCHANGED <<drafts, audio, owner>> /\ waves[v] = "active"
        /\ \E result \in {"usable", "empty", "failed"} : waves' = [waves EXCEPT ![v] = result]
    BY <1>8 DEF WaveEnds
  <2> QED BY <1>1, <2>1 DEF ChildrenGrow
<1>9. ASSUME NEW v \in Waves, AudioEnds(v) PROVE ChildrenGrow
  <2>1. /\ UNCHANGED <<drafts, waves, owner>> /\ audio[v] = "active"
        /\ \E result \in {"succeeded", "failed"} : audio' = [audio EXCEPT ![v] = result]
    BY <1>9 DEF AudioEnds
  <2> QED BY <1>1, <2>1 DEF ChildrenGrow
<1>10. CASE OtherWave
  <2>1. /\ UNCHANGED <<drafts, audio, owner>> /\ waves[0] = "none"
        /\ waves' = [waves EXCEPT ![0] = "active"]
    BY <1>10 DEF OtherWave
  <2> QED BY <1>1, <2>1 DEF ChildrenGrow
<1>11. ASSUME NEW r \in Runs, CancelRead(r) PROVE ChildrenGrow
  <2>1. UNCHANGED <<drafts, audio, owner>>
        /\ (waves' = waves \/ \E v : waves[v] = "active" /\ waves' = [waves EXCEPT ![v] = "failed"])
    BY <1>11 DEF CancelRead
  <2> QED BY <1>1, <2>1 DEF ChildrenGrow
<1>12. CASE CancelAudio
  <2>1. UNCHANGED <<drafts, waves, owner>>
        /\ (audio' = audio \/ \E v : audio[v] = "active" /\ audio' = [audio EXCEPT ![v] = "failed"])
    BY <1>12 DEF CancelAudio
  <2> QED BY <1>1, <2>1 DEF ChildrenGrow
<1>13. ASSUME NEW w \in Workers,
              \/ \E s \in Slots : Lease(w, s)
              \/ Load(w) \/ AlreadyDone(w) \/ Confirm(w) \/ WaitForWave(w) \/ WaitForAudio(w)
              \/ Move(w) \/ Return(w) \/ Trouble(w) \/ Crash(w) \/ Stall(w)
       PROVE  ChildrenGrow
  BY <1>3, <1>13 DEF Lease, Load, AlreadyDone, Confirm, WaitForWave, WaitForAudio, Move, Return,
                     Trouble, Crash, Stall
<1>14. CASE CancelRun \/ (\E r \in Runs : EnqueueRun(r)) \/ UNCHANGED vars
  BY <1>3, <1>14 DEF CancelRun, EnqueueRun, vars
<1> QED
  BY <1>4, <1>5, <1>6, <1>7, <1>8, <1>9, <1>10, <1>11, <1>12, <1>13, <1>14
     DEF Next, HandlerStep, Children

(* What was true of waves, reports and audio stays true.                   *)
LEMMA FactsStay ==
  ASSUME ChildrenGrow, NEW run \in Run, NEW r, Facts(run, r), Has(run, run.stage)
  PROVE  Facts(run, r)'
<1>1. /\ run.event # None => run.event \in Waves
      /\ run.report # None => run.report \in Waves
      /\ run.audio # None => run.audio \in Waves
  BY DEF Run
<1>2. run.event # None => owner'[run.event] = r /\ waves'[run.event] # "none"
  BY <1>1 DEF Facts, ChildrenGrow
<1>3. run.report # None => /\ run.event # None /\ run.report = run.event
                           /\ waves'[run.event] = "usable" /\ drafts'[run.report] # "none"
  BY <1>1 DEF Facts, ChildrenGrow
<1>4. run.audio # None => /\ run.report # None /\ run.audio = run.report
                          /\ drafts'[run.report] = "archived" /\ audio'[run.report] # "none"
  BY <1>1 DEF Facts, ChildrenGrow
<1>5. run.stage = "generate_report" => waves'[run.event] = "usable"
  BY <1>1 DEF Facts, ChildrenGrow, Has
<1>6. run.stage = "archive_and_enqueue_audio" => drafts'[run.report] \in {"reviewed", "archived"}
  BY <1>1 DEF Facts, ChildrenGrow, Has
<1>7. run.stage = "completed" => run.event # None /\ Published(run)'
  <2>1. CASE run.stage = "completed"
    <3>1. run.event \in Waves /\ Published(run) BY <1>1, <2>1 DEF Facts
    <3>2. CASE waves[run.event] = "empty" /\ run.report = None
      BY <1>1, <3>1, <3>2 DEF ChildrenGrow, Published, Facts
    <3>3. CASE /\ waves[run.event] = "usable" /\ run.report = run.event /\ run.audio = run.report
               /\ drafts[run.report] = "archived" /\ audio[run.audio] = "succeeded"
      BY <1>1, <3>1, <3>3 DEF ChildrenGrow, Published, Facts
    <3> QED BY <3>1, <3>2, <3>3 DEF Published
  <2> QED BY <2>1
<1>8. run.stage \in {"enqueue_content_wave", "wait_content_wave", "generate_report"} =>
        run.report = None
  BY DEF Facts
<1> QED BY <1>2, <1>3, <1>4, <1>5, <1>6, <1>7, <1>8 DEF Facts

(* Runs that are not written to stay true.                                 *)
LEMMA RunStays ==
  ASSUME Linked, RunsAreTrue, ChildrenGrow, NEW r \in Runs, runs'[r] = runs[r]
  PROVE  /\ Facts(runs[r], r)'
         /\ (runs[r].status \in {"none", "queued", "running"} <=> runs[r].stage \notin Ended)'
         /\ (runs[r].status = "succeeded" => runs[r].stage = "completed")'
<1>1. PICK run \in Run : run = runs[r] BY DEF Linked, TypeOK
<1>2. Facts(run, r) /\ Has(run, run.stage) BY <1>1 DEF RunsAreTrue, Linked, RunsAreFilled
<1>3. Facts(run, r)' BY <1>2, FactsStay
<1>4. Facts(runs[r], r)' BY <1>1, <1>3
<1> QED BY <1>4 DEF RunsAreTrue

(* A decision of the one worker that is true of the run it will write.     *)
LEMMA Decided ==
  ASSUME NEW w, Workers = {w}, Linked, Truth, ChildrenGrow,
         worker[w].at \in {"loaded", "confirmed", "moving"},
         NEW q \in Runs, q = worker[w].run, NEW run \in Run, run = runs[q],
         NEW snap \in Run, snap = worker[w].snap,
         NEW to \in Run, Decide(w, to), runs' = runs, ops' = ops,
         Facts(Transitioned(run, to), q)',
         to.stage \notin Ended => Rank(snap.stage) <= Rank(to.stage)
  PROVE  Truth'
<1>1. worker \in [Workers -> Process] /\ worker[w] \in Process BY DEF Linked, TypeOK
<1>2. /\ worker'[w].at = "moving" /\ worker'[w].run = q /\ worker'[w].snap = snap
      /\ worker'[w].to = to
  BY <1>1 DEF Decide, Process
<1>3. AsRead(w) BY DEF Truth
<1>4. Facts(snap, q)'
  <2>1. Handling(w) BY DEF Linked
  <2>2. Has(snap, snap.stage) BY <2>1 DEF Handling
  <2> QED BY <1>3, <2>2, FactsStay DEF AsRead
<1>5. AsRead(w)'
  <2>1. /\ snap.stage \notin Ended /\ run.event = snap.event /\ run.report = snap.report
        /\ run.audio = snap.audio /\ (run.stage = snap.stage \/ run.status = "cancelled")
    BY <1>3 DEF AsRead
  <2>2. runs'[q] = run OBVIOUS
  <2> QED BY <1>2, <1>4, <2>1, <2>2 DEF AsRead
<1>6. RunsAreTrue' BY RunStays DEF Truth, RunsAreTrue
<1>7. OpsGoOn' BY DEF Truth, OpsGoOn
<1> QED BY <1>5, <1>6, <1>7 DEF Truth

(* What a run says of itself once it has moved on.                         *)
LEMMA NewFacts ==
  ASSUME NEW run \in Run, NEW to \in Run, NEW q,
         NEW new, new = Transitioned(run, to)
  PROVE  /\ new.stage = to.stage
         /\ new.event = IF to.event = None THEN run.event ELSE to.event
         /\ new.report = IF to.report = None THEN run.report ELSE to.report
         /\ new.audio = IF to.audio = None THEN run.audio ELSE to.audio
BY DEF Transitioned

LEMMA ToWith ==
  ASSUME NEW stage \in Stages \ {"cancelled"}, NEW v \in Waves
  PROVE  /\ \E to \in Run : /\ to = [To(stage) EXCEPT !.event = v] /\ to.stage = stage
                           /\ to.event = v /\ to.report = None /\ to.audio = None
         /\ \E to \in Run : /\ to = [To(stage) EXCEPT !.report = v] /\ to.stage = stage
                           /\ to.event = None /\ to.report = v /\ to.audio = None
         /\ \E to \in Run : /\ to = [To(stage) EXCEPT !.audio = v] /\ to.stage = stage
                           /\ to.event = None /\ to.report = None /\ to.audio = v
<1>1. PICK old \in Run : /\ old = To(stage) /\ old.stage = stage /\ old.event = None
                         /\ old.report = None /\ old.audio = None
  BY ToType
<1>2. /\ [old EXCEPT !.event = v] \in Run /\ [old EXCEPT !.report = v] \in Run
      /\ [old EXCEPT !.audio = v] \in Run
  BY DEF Run
<1>3. /\ [old EXCEPT !.event = v].stage = stage /\ [old EXCEPT !.event = v].event = v
      /\ [old EXCEPT !.event = v].report = None /\ [old EXCEPT !.event = v].audio = None
  BY <1>1 DEF Run
<1>4. /\ [old EXCEPT !.report = v].stage = stage /\ [old EXCEPT !.report = v].event = None
      /\ [old EXCEPT !.report = v].report = v /\ [old EXCEPT !.report = v].audio = None
  BY <1>1 DEF Run
<1>5. /\ [old EXCEPT !.audio = v].stage = stage /\ [old EXCEPT !.audio = v].event = None
      /\ [old EXCEPT !.audio = v].report = None /\ [old EXCEPT !.audio = v].audio = v
  BY <1>1 DEF Run
<1> QED BY <1>1, <1>2, <1>3, <1>4, <1>5

LEMMA DecisionTruth ==
  ASSUME NEW w, Workers = {w}, Linked, Truth, ChildrenGrow,
         \/ AlreadyDone(w) \/ EnqueueWave(w) \/ WaitForWave(w) \/ GenerateReport(w)
         \/ WriteReviews(w) \/ ArchiveAndEnqueueAudio(w) \/ WaitForAudio(w) \/ Trouble(w)
  PROVE  Truth'
<1> USE NotNull DEF InStage, children
<1>1. /\ worker[w].at \in {"loaded", "confirmed", "moving"} /\ runs' = runs /\ ops' = ops
  BY DEF AlreadyDone, EnqueueWave, WaitForWave, GenerateReport, WriteReviews,
         ArchiveAndEnqueueAudio, WaitForAudio, Trouble
<1>2. Handling(w) /\ AsRead(w) BY <1>1 DEF Linked, Truth
<1>3. PICK q \in Runs, run \in Run, snap \in Run :
        q = worker[w].run /\ run = runs[q] /\ snap = worker[w].snap
  BY <1>2 DEF Handling, Linked, TypeOK, Process
<1>4. Has(snap, snap.stage) BY <1>1, <1>2, <1>3 DEF Handling
<1>5. /\ Facts(snap, q) /\ snap.stage \notin Ended
      /\ run.event = snap.event /\ run.report = snap.report /\ run.audio = snap.audio
  BY <1>2, <1>3 DEF AsRead
<1>6. Facts(snap, q)' BY <1>4, <1>5, FactsStay
<1>7. snap.event \in Waves \cup {None} /\ snap.report \in Waves \cup {None}
      /\ snap.audio \in Waves \cup {None}
  BY DEF Run
<1>8. /\ waves \in [Waves -> {"none", "active", "usable", "empty", "failed"}]
      /\ drafts \in [Waves -> {"none", "draft", "reviewed", "archived"}]
      /\ audio \in [Waves -> {"none", "active", "succeeded", "failed"}]
      /\ owner \in [Waves -> Runs \cup {None}]
  BY DEF Linked, TypeOK
<1>9. ASSUME NEW to \in Run, Decide(w, to), Facts(Transitioned(run, to), q)',
             to.stage \notin Ended => Rank(snap.stage) <= Rank(to.stage)
      PROVE  Truth'
  BY <1>1, <1>3, <1>9, Decided
<1>10. /\ snap.stage = "enqueue_content_wave" => Rank(snap.stage) = 1
       /\ snap.stage = "wait_content_wave" => Rank(snap.stage) = 2
       /\ snap.stage = "generate_report" => Rank(snap.stage) = 3
       /\ snap.stage = "write_reviews" => Rank(snap.stage) = 4
       /\ snap.stage = "archive_and_enqueue_audio" => Rank(snap.stage) = 5
       /\ snap.stage = "wait_audio" => Rank(snap.stage) = 6
  BY Ranks
<1>11. ASSUME Decide(w, To("failed")) PROVE Truth'
  <2>1. PICK to \in Run : /\ to = To("failed") /\ to.stage = "failed" /\ to.event = None
                          /\ to.report = None /\ to.audio = None
    BY ToType, StageNames
  <2>2. PICK new : new = Transitioned(run, to) OBVIOUS
  <2>3. /\ new.stage = "failed" /\ new.event = snap.event /\ new.report = snap.report
        /\ new.audio = snap.audio
    BY <1>5, <2>1, <2>2, NewFacts
  <2>4. Facts(new, q)' BY <1>6, <2>3 DEF Facts
  <2> QED BY <1>9, <1>11, <2>1, <2>2, <2>4 DEF Ended
<1>12. CASE Trouble(w) BY <1>11, <1>12 DEF Trouble
<1>13. CASE AlreadyDone(w)
  <2>1. CASE snap.stage = "enqueue_content_wave"
    <3>1. PICK to \in Run : /\ to = To("wait_content_wave") /\ to.stage = "wait_content_wave"
                            /\ to.event = None /\ to.report = None /\ to.audio = None
      BY ToType, StageNames
    <3>2. PICK new : new = Transitioned(run, to) OBVIOUS
    <3>3. /\ new.stage = "wait_content_wave" /\ new.event = snap.event
          /\ new.report = snap.report /\ new.audio = snap.audio
      BY <1>5, <3>1, <3>2, NewFacts
    <3>4. Facts(new, q)' BY <1>6, <2>1, <3>3 DEF Facts
    <3>5. Decide(w, to) BY <1>3, <1>13, <2>1, <3>1 DEF AlreadyDone
    <3>6. Rank(snap.stage) <= Rank(to.stage) BY <1>10, <2>1, <3>1, Ranks
    <3> QED BY <1>9, <3>2, <3>4, <3>5, <3>6
  <2>2. CASE snap.stage = "generate_report"
    <3>1. snap.report # None BY <1>3, <1>13, <2>2 DEF AlreadyDone
    <3> QED BY <1>5, <2>2, <3>1 DEF Facts
  <2>3. CASE snap.stage = "write_reviews"
    <3>1. PICK to \in Run : /\ to = To("archive_and_enqueue_audio")
                            /\ to.stage = "archive_and_enqueue_audio"
                            /\ to.event = None /\ to.report = None /\ to.audio = None
      BY ToType, StageNames
    <3>2. PICK new : new = Transitioned(run, to) OBVIOUS
    <3>3. /\ new.stage = "archive_and_enqueue_audio" /\ new.event = snap.event
          /\ new.report = snap.report /\ new.audio = snap.audio
      BY <1>5, <3>1, <3>2, NewFacts
    <3>4. snap.report \in Waves /\ drafts[snap.report] # "none" BY <1>4, <1>5, <1>7, <2>3 DEF Has, Facts
    <3>5. drafts[snap.report] # "draft" /\ Decide(w, to) /\ drafts' = drafts
      BY <1>3, <1>13, <2>3, <3>1 DEF AlreadyDone, ReviewsPending
    <3>6. drafts'[snap.report] \in {"reviewed", "archived"} BY <1>8, <3>4, <3>5
    <3>7. Facts(new, q)' BY <1>6, <3>3, <3>6 DEF Facts
    <3>8. Rank(snap.stage) <= Rank(to.stage) BY <1>10, <2>3, <3>1, Ranks
    <3> QED BY <1>9, <3>2, <3>5, <3>7, <3>8
  <2> QED BY <1>3, <1>13, <2>1, <2>2, <2>3 DEF AlreadyDone
<1>14. CASE EnqueueWave(w)
  <2>1. snap.stage = "enqueue_content_wave" BY <1>3, <1>14 DEF EnqueueWave
  <2>2. CASE WaveIsActive
    <3>1. PICK to \in Run : /\ to = To("enqueue_content_wave") /\ to.stage = "enqueue_content_wave"
                            /\ to.event = None /\ to.report = None /\ to.audio = None
      BY ToType, StageNames
    <3>2. PICK new : new = Transitioned(run, to) OBVIOUS
    <3>3. /\ new.stage = snap.stage /\ new.event = snap.event
          /\ new.report = snap.report /\ new.audio = snap.audio
      BY <1>5, <2>1, <3>1, <3>2, NewFacts
    <3>4. Facts(new, q)' BY <1>6, <2>1, <3>3 DEF Facts
    <3>5. Decide(w, to) BY <1>14, <2>2, <3>1 DEF EnqueueWave
    <3>6. Rank(snap.stage) <= Rank(to.stage) BY <1>10, <2>1, <3>1
    <3> QED BY <1>9, <3>2, <3>4, <3>5, <3>6
  <2>3. CASE ~WaveIsActive
    <3>1. PICK v \in Waves : /\ waves' = [waves EXCEPT ![v] = "active"]
                             /\ owner' = [owner EXCEPT ![v] = worker[w].run]
                             /\ Decide(w, [To("wait_content_wave") EXCEPT !.event = v])
      BY <1>14, <2>3 DEF EnqueueWave
    <3>2. PICK to \in Run : /\ to = [To("wait_content_wave") EXCEPT !.event = v]
                            /\ to.stage = "wait_content_wave"
                            /\ to.event = v /\ to.report = None /\ to.audio = None
      BY ToWith, StageNames
    <3>3. PICK new : new = Transitioned(run, to) OBVIOUS
    <3>4. /\ new.stage = "wait_content_wave" /\ new.event = v
          /\ new.report = snap.report /\ new.audio = snap.audio
      <4>1. v # None OBVIOUS
      <4>2. /\ new.stage = to.stage
            /\ new.event = IF to.event = None THEN run.event ELSE to.event
            /\ new.report = IF to.report = None THEN run.report ELSE to.report
            /\ new.audio = IF to.audio = None THEN run.audio ELSE to.audio
        BY <3>3, NewFacts
      <4> QED BY <1>5, <3>2, <4>1, <4>2
    <3>5. snap.report = None /\ snap.audio = None BY <1>5, <2>1 DEF Facts
    <3>6. owner'[v] = q /\ waves'[v] = "active" BY <1>3, <1>8, <3>1
    <3>7. Facts(new, q)' BY <3>4, <3>5, <3>6 DEF Facts
    <3>8. Rank(snap.stage) <= Rank(to.stage) BY <1>10, <2>1, <3>2, Ranks
    <3> QED BY <1>9, <3>1, <3>2, <3>3, <3>7, <3>8
  <2> QED BY <2>2, <2>3
<1>15. CASE WaitForWave(w)
  <2>1. snap.stage = "wait_content_wave" /\ waves' = waves
        /\ Decide(w, To(AfterWave(waves[snap.event])))
    BY <1>3, <1>15 DEF WaitForWave
  <2>2. snap.event \in Waves /\ snap.report = None /\ snap.audio = None
    BY <1>4, <1>5, <1>7, <2>1 DEF Has, Facts
  <2>3. PICK stage : stage = AfterWave(waves[snap.event]) OBVIOUS
  <2>4. /\ stage \in {"wait_content_wave", "generate_report", "completed", "failed"}
        /\ stage = "generate_report" => waves[snap.event] = "usable"
        /\ stage = "completed" => waves[snap.event] = "empty"
    BY <1>8, <2>2, <2>3 DEF AfterWave
  <2>5. stage \in Stages \ {"cancelled"} BY <2>4, StageNames
  <2>6. PICK to \in Run : /\ to = To(stage) /\ to.stage = stage
                          /\ to.event = None /\ to.report = None /\ to.audio = None
    BY <2>5, ToType
  <2>7. PICK new : new = Transitioned(run, to) OBVIOUS
  <2>8. /\ new.stage = stage /\ new.event = snap.event
        /\ new.report = None /\ new.audio = None
    BY <1>5, <2>2, <2>6, <2>7, NewFacts
  <2>9. Facts(new, q)' BY <1>6, <2>1, <2>2, <2>4, <2>8 DEF Facts, Published
  <2>10. to.stage \notin Ended => Rank(snap.stage) <= Rank(to.stage)
    BY <1>10, <2>1, <2>4, <2>6, Ranks DEF Ended
  <2>11. Decide(w, to) BY <2>1, <2>3, <2>6
  <2> QED BY <1>9, <2>7, <2>9, <2>10, <2>11
<1>16. CASE GenerateReport(w)
  <2>1. snap.stage = "generate_report" /\ waves' = waves BY <1>3, <1>16 DEF GenerateReport
  <2>2. PICK v \in Waves : v = snap.event /\ waves[v] = "usable"
    BY <1>4, <1>5, <1>7, <2>1 DEF Has, Facts
  <2>3. CASE Decide(w, [To("write_reviews") EXCEPT !.report = v])
             /\ drafts' = IF drafts[v] = "none" THEN [drafts EXCEPT ![v] = "draft"] ELSE drafts
    <3>1. PICK to \in Run : /\ to = [To("write_reviews") EXCEPT !.report = v]
                            /\ to.stage = "write_reviews"
                            /\ to.event = None /\ to.report = v /\ to.audio = None
      BY ToWith, StageNames
    <3>2. PICK new : new = Transitioned(run, to) OBVIOUS
    <3>3. snap.audio = None BY <1>5, <2>1 DEF Facts
    <3>4. /\ new.stage = "write_reviews" /\ new.event = v /\ new.report = v /\ new.audio = None
      <4>1. v # None OBVIOUS
      <4>2. /\ new.stage = to.stage
            /\ new.event = IF to.event = None THEN run.event ELSE to.event
            /\ new.report = IF to.report = None THEN run.report ELSE to.report
            /\ new.audio = IF to.audio = None THEN run.audio ELSE to.audio
        BY <3>2, NewFacts
      <4> QED BY <1>5, <2>2, <3>1, <3>3, <4>1, <4>2
    <3>5. drafts'[v] # "none" BY <1>8, <2>3
    <3>6. v # None /\ owner'[v] = q /\ waves'[v] = "usable" BY <1>6, <2>1, <2>2 DEF Facts
    <3>7. Facts(new, q)' BY <3>4, <3>5, <3>6 DEF Facts
    <3>8. Rank(snap.stage) <= Rank(to.stage) BY <1>10, <2>1, <3>1, Ranks
    <3> QED BY <1>9, <2>3, <3>1, <3>2, <3>7, <3>8
  <2> QED BY <1>3, <1>11, <1>16, <2>2, <2>3 DEF GenerateReport
<1>17. CASE WriteReviews(w)
  <2>1. snap.stage = "write_reviews" BY <1>3, <1>17 DEF WriteReviews
  <2>2. PICK v \in Waves : v = snap.report
    BY <1>4, <1>7, <2>1 DEF Has
  <2>3. CASE Decide(w, To("archive_and_enqueue_audio")) /\ drafts' = [drafts EXCEPT ![v] = "reviewed"]
    <3>1. PICK to \in Run : /\ to = To("archive_and_enqueue_audio")
                            /\ to.stage = "archive_and_enqueue_audio"
                            /\ to.event = None /\ to.report = None /\ to.audio = None
      BY ToType, StageNames
    <3>2. PICK new : new = Transitioned(run, to) OBVIOUS
    <3>3. /\ new.stage = "archive_and_enqueue_audio" /\ new.event = snap.event
          /\ new.report = snap.report /\ new.audio = snap.audio
      BY <1>5, <3>1, <3>2, NewFacts
    <3>4. drafts'[snap.report] = "reviewed" BY <1>8, <2>2, <2>3
    <3>5. Facts(new, q)' BY <1>6, <3>3, <3>4 DEF Facts
    <3>6. Rank(snap.stage) <= Rank(to.stage) BY <1>10, <2>1, <3>1, Ranks
    <3> QED BY <1>9, <2>3, <3>1, <3>2, <3>5, <3>6
  <2> QED BY <1>3, <1>11, <1>17, <2>2, <2>3 DEF WriteReviews
<1>18. CASE ArchiveAndEnqueueAudio(w)
  <2>1. snap.stage = "archive_and_enqueue_audio" BY <1>3, <1>18 DEF ArchiveAndEnqueueAudio
  <2>2. PICK v \in Waves : v = snap.report BY <1>4, <1>7, <2>1 DEF Has
  <2>3. Decide(w, [To("wait_audio") EXCEPT !.audio = v])
    BY <1>3, <1>18, <2>2 DEF ArchiveAndEnqueueAudio
  <2>4. drafts'[v] = "archived" /\ audio'[v] # "none"
    <3>1. CASE snap.audio # None BY <1>6, <2>2, <3>1 DEF Facts
    <3>2. CASE snap.audio = None
      <4>1. ArchivedWithAudio(v) BY <1>3, <1>18, <2>2, <3>2 DEF ArchiveAndEnqueueAudio
      <4> QED BY <1>8, <4>1 DEF ArchivedWithAudio, KeepsAudio
    <3> QED BY <3>1, <3>2
  <2>5. PICK to \in Run : /\ to = [To("wait_audio") EXCEPT !.audio = v] /\ to.stage = "wait_audio"
                          /\ to.event = None /\ to.report = None /\ to.audio = v
    BY ToWith, StageNames
  <2>6. PICK new : new = Transitioned(run, to) OBVIOUS
  <2>7. /\ new.stage = "wait_audio" /\ new.event = snap.event
        /\ new.report = snap.report /\ new.audio = v
    <3>1. v # None OBVIOUS
    <3>2. /\ new.stage = to.stage
          /\ new.event = IF to.event = None THEN run.event ELSE to.event
          /\ new.report = IF to.report = None THEN run.report ELSE to.report
          /\ new.audio = IF to.audio = None THEN run.audio ELSE to.audio
      BY <2>6, NewFacts
    <3> QED BY <1>5, <2>5, <3>1, <3>2
  <2>8. Facts(new, q)' BY <1>6, <2>2, <2>4, <2>7 DEF Facts
  <2>9. Rank(snap.stage) <= Rank(to.stage) BY <1>10, <2>1, <2>5, Ranks
  <2>10. Decide(w, to) BY <2>3, <2>5
  <2> QED BY <1>9, <2>6, <2>8, <2>9, <2>10
<1>19. CASE WaitForAudio(w)
  <2> DEFINE found == CASE audio[snap.audio] = "active" -> "wait_audio"
                        [] audio[snap.audio] = "succeeded" -> "completed"
                        [] audio[snap.audio] \in {"none", "failed"} -> "failed"
  <2>1. snap.stage = "wait_audio" /\ audio' = audio /\ Decide(w, To(found))
    BY <1>3, <1>19 DEF WaitForAudio
  <2>2. snap.audio \in Waves BY <1>4, <1>7, <2>1 DEF Has
  <2>3. PICK stage : stage = found OBVIOUS
  <2>4. /\ stage \in {"wait_audio", "completed", "failed"}
        /\ stage = "completed" => audio[snap.audio] = "succeeded"
    BY <1>8, <2>2, <2>3
  <2> HIDE DEF found
  <2>5. stage \in Stages \ {"cancelled"} BY <2>4, StageNames
  <2>6. PICK to \in Run : /\ to = To(stage) /\ to.stage = stage
                          /\ to.event = None /\ to.report = None /\ to.audio = None
    BY <2>5, ToType
  <2>7. PICK new : new = Transitioned(run, to) OBVIOUS
  <2>8. /\ new.stage = stage /\ new.event = snap.event
        /\ new.report = snap.report /\ new.audio = snap.audio
    BY <1>5, <2>6, <2>7, NewFacts
  <2>9. snap.audio # None BY <2>2
  <2>10. Facts(new, q)' BY <1>6, <2>1, <2>4, <2>8, <2>9 DEF Facts, Published
  <2>11. to.stage \notin Ended => Rank(snap.stage) <= Rank(to.stage)
    BY <1>10, <2>1, <2>4, <2>6, Ranks DEF Ended
  <2>12. Decide(w, to) BY <2>1, <2>3, <2>6
  <2> QED BY <1>9, <2>7, <2>10, <2>11, <2>12
<1> QED BY <1>12, <1>13, <1>14, <1>15, <1>16, <1>17, <1>18, <1>19

(* The other steps of the one worker: leases, checkpoints, ends, faults.   *)
LEMMA LeaseTruth ==
  ASSUME NEW w, Workers = {w}, Linked, Truth, ChildrenGrow,
         \/ \E s \in Slots : Lease(w, s)
         \/ Load(w) \/ Confirm(w) \/ Return(w) \/ Crash(w) \/ Stall(w)
  PROVE  Truth'
<1> USE DEF children, budgets
<1>1. /\ runs \in [Runs -> Run] /\ ops \in [Slots -> Operation] /\ worker \in [Workers -> Process]
      /\ worker[w] \in Process /\ runs' = runs
  BY DEF Linked, TypeOK, Lease, Load, Confirm, Return, Crash, Stall
<1>2. RunsAreTrue' BY <1>1, RunStays DEF Truth, RunsAreTrue
<1>3. OpsGoOn'
  <2>1. CASE \E s \in Slots : Lease(w, s)
    <3>1. PICK s \in Slots : Lease(w, s) BY <2>1
    <3>2. /\ ops[s].status # "free" /\ \A t \in Slots : ops'[t].stage = ops[t].stage
          /\ \A t \in Slots \ {s} : ops'[t] = ops[t]
      BY <1>1, <3>1 DEF Lease, Operation
    <3> QED BY <3>2 DEF Truth, OpsGoOn
  <2>2. CASE Load(w) \/ Confirm(w) \/ Stall(w) \/ Crash(w)
    <3>1. \/ ops' = ops
          \/ \E lapse \in BOOLEAN : ops' = [ops EXCEPT ![worker[w].slot].lapsed = lapse]
      BY <2>2 DEF Load, Confirm, Stall, Crash, Renewed
    <3>2. \A t \in Slots : ops'[t].stage = ops[t].stage /\ ops'[t].status = ops[t].status
      <4>1. CASE ops' = ops BY <4>1
      <4>2. ASSUME NEW lapse \in BOOLEAN, ops' = [ops EXCEPT ![worker[w].slot].lapsed = lapse]
            PROVE  \A t \in Slots : ops'[t].stage = ops[t].stage /\ ops'[t].status = ops[t].status
        BY <1>1, <4>2 DEF Operation
      <4> QED BY <3>1, <4>1, <4>2
    <3> QED BY <3>2 DEF Truth, OpsGoOn
  <2>3. CASE Return(w)
    <3>1. ops' = ops \/ ops' = [ops EXCEPT ![worker[w].slot] = Free] BY <2>3 DEF Return
    <3>2. \A t \in Slots : ops'[t] = ops[t] \/ ops'[t].status = "free" BY <1>1, <3>1 DEF Free
    <3> QED BY <3>2 DEF Truth, OpsGoOn
  <2> QED BY <2>1, <2>2, <2>3
<1>4. CASE worker'[w].at \notin {"loaded", "confirmed", "moving"}
  BY <1>2, <1>3, <1>4 DEF Truth
<1>5. ASSUME worker'[w].at \in {"loaded", "confirmed", "moving"},
             worker[w].at \in {"loaded", "confirmed", "moving"},
             worker'[w].at = "moving" => worker[w].at = "moving",
             worker'[w].run = worker[w].run, worker'[w].snap = worker[w].snap,
             worker'[w].to = worker[w].to
      PROVE  Truth'
  <2>1. Handling(w) /\ AsRead(w) BY <1>5 DEF Linked, Truth
  <2>2. PICK q \in Runs, run \in Run, snap \in Run, to \in Run :
          q = worker[w].run /\ run = runs[q] /\ snap = worker[w].snap /\ to = worker[w].to
    BY <1>1, <2>1 DEF Handling, Process
  <2>3. Has(snap, snap.stage) /\ Facts(snap, q) BY <1>5, <2>1, <2>2 DEF Handling, AsRead
  <2>4. Facts(snap, q)' BY <2>3, FactsStay
  <2>5. worker'[w].at = "moving" => Facts(Transitioned(run, to), q)'
    <3>1. SUFFICES ASSUME worker[w].at = "moving" PROVE Facts(Transitioned(run, to), q)'
      BY <1>5
    <3>2. PICK new : new = Transitioned(run, to) OBVIOUS
    <3>3. new \in Run /\ new.stage = to.stage BY <3>2 DEF Transitioned, Run
    <3>4. Has(new, new.stage) /\ Facts(new, q) BY <2>1, <2>2, <3>1, <3>2, <3>3 DEF Handling, AsRead
    <3>5. Facts(new, q)' BY <3>3, <3>4, FactsStay
    <3> QED BY <3>2, <3>5
  <2>6. /\ worker'[w].run = q /\ worker'[w].snap = snap /\ worker'[w].to = to /\ runs'[q] = run
    BY <1>1, <1>5, <2>2
  <2>7. AsRead(w)' BY <1>5, <2>1, <2>2, <2>4, <2>5, <2>6 DEF AsRead
  <2> QED BY <1>2, <1>3, <2>7 DEF Truth
<1>6. CASE \E s \in Slots : Lease(w, s)
  <2>1. PICK s \in Slots : worker' = [worker EXCEPT ![w] =
                              [Idle EXCEPT !.at = "leased", !.slot = s, !.run = ops[s].run]]
    BY <1>6 DEF Lease
  <2>2. worker'[w].at = "leased" BY <1>1, <2>1 DEF Idle
  <2> QED BY <1>4, <2>2
<1>7. CASE Return(w) \/ Crash(w)
  <2>1. worker'[w].at = "idle" BY <1>1, <1>7 DEF Return, Crash, Idle
  <2> QED BY <1>4, <2>1
<1>8. CASE Stall(w)
  <2>1. worker' = worker BY <1>8 DEF Stall
  <2> QED BY <1>4, <1>5, <2>1
<1>9. CASE Confirm(w)
  <2>1. /\ worker[w].at = "loaded" /\ worker'[w].at = "confirmed" /\ worker'[w].run = worker[w].run
        /\ worker'[w].snap = worker[w].snap /\ worker'[w].to = worker[w].to
    BY <1>1, <1>9 DEF Confirm, InStage, Process
  <2> QED BY <1>5, <2>1
<1>10. CASE Load(w)
  <2>1. worker[w].at = "leased" /\ Owns(w) /\ Handling(w) BY <1>10 DEF Load, Linked
  <2>2. PICK q \in Runs, run \in Run : q = worker[w].run /\ run = runs[q]
    BY <1>1, <2>1 DEF Handling
  <2>3. CASE Applies(w)
    <3>1. /\ worker'[w].at = "loaded" /\ worker'[w].run = q
          /\ worker'[w].snap = [run EXCEPT !.stage = LeasedStage(w)]
      BY <1>1, <1>10, <2>2, <2>3 DEF Load, Process
    <3>2. run.stage = LeasedStage(w) BY <2>2, <2>3 DEF Applies
    <3>3. [run EXCEPT !.stage = run.stage] = run BY DEF Run
    <3>4. worker'[w].snap = run BY <3>1, <3>2, <3>3
    <3>5. run.stage \notin Ended BY <2>1, <3>2, OwnedRuns DEF LeasedStage, Truth, OpsGoOn
    <3>6. Facts(run, q)' BY <1>1, <1>2, <2>2 DEF RunsAreTrue
    <3>7. runs'[q] = run BY <1>1, <2>2
    <3>8. AsRead(w)' BY <3>1, <3>4, <3>5, <3>6, <3>7 DEF AsRead
    <3> QED BY <1>2, <1>3, <3>8 DEF Truth
  <2>4. CASE ~Applies(w)
    <3>1. worker'[w].at = "done" BY <1>1, <1>10, <2>4 DEF Load, Process
    <3> QED BY <1>4, <3>1
  <2> QED BY <2>3, <2>4
<1> QED BY <1>6, <1>7, <1>8, <1>9, <1>10

(* The one worker writes what it has decided.                              *)
LEMMA MoveTruth ==
  ASSUME NEW w, Workers = {w}, Linked, Truth, ChildrenGrow, Move(w)
  PROVE  Truth'
<1>1. /\ runs \in [Runs -> Run] /\ ops \in [Slots -> Operation] /\ worker \in [Workers -> Process]
      /\ worker[w] \in Process
  BY DEF Linked, TypeOK
<1>2. worker[w].at = "moving" /\ Handling(w) /\ AsRead(w) BY DEF Move, Linked, Truth
<1>3. PICK q \in Runs, run \in Run, to \in Run :
        q = worker[w].run /\ run = runs[q] /\ to = worker[w].to
  BY <1>1, <1>2 DEF Handling, Process
<1>4. PICK new \in Run : new = Transitioned(run, to)
  <2>1. /\ run.event \in Waves \cup {None} /\ run.report \in Waves \cup {None}
        /\ run.audio \in Waves \cup {None} /\ to.event \in Waves \cup {None}
        /\ to.report \in Waves \cup {None} /\ to.audio \in Waves \cup {None}
        /\ to.stage \in Stages
        /\ to.status \in {"none", "queued", "running", "succeeded", "failed", "cancelled"}
    BY DEF Run
  <2>2. Transitioned(run, to) \in Run BY <2>1 DEF Transitioned, Run
  <2> QED BY <2>2
<1>5. /\ new.stage = to.stage /\ new.status = StatusOf(to.stage) /\ to.stage # "cancelled"
      /\ Has(new, new.stage) /\ Facts(new, q)
  BY <1>2, <1>3, <1>4 DEF Handling, AsRead, Transitioned
<1>6. Facts(new, q)' BY <1>5, FactsStay
<1>7. runs' = [runs EXCEPT ![q] = new] /\ worker'[w].at = "done"
  BY <1>1, <1>3, <1>4 DEF Move, Process
<1>8. RunsAreTrue'
  <2>1. ASSUME NEW r \in Runs \ {q}
        PROVE  /\ Facts(runs[r], r)'
               /\ (runs[r].status \in {"none", "queued", "running"} <=> runs[r].stage \notin Ended)'
               /\ (runs[r].status = "succeeded" => runs[r].stage = "completed")'
    <3>1. runs'[r] = runs[r] BY <1>1, <1>7
    <3> QED BY <3>1, RunStays DEF Truth
  <2>2. runs'[q] = new BY <1>1, <1>7
  <2>3. /\ new.status \in {"none", "queued", "running"} <=> new.stage \notin Ended
        /\ new.status = "succeeded" => new.stage = "completed"
    BY <1>5 DEF StatusOf, Ended
  <2> QED BY <1>6, <2>1, <2>2, <2>3 DEF RunsAreTrue
<1>9. OpsGoOn'
  <2>1. \/ ops' = ops
        \/ to.stage \notin Ended /\ \E s \in Slots : ops' = [ops EXCEPT ![s] = Queued(q, to.stage)]
    BY <1>3, EnqueuedSlot DEF Move, ContinuationStage
  <2>2. Queued(q, to.stage).stage = to.stage BY DEF Queued, Free
  <2> QED BY <1>1, <2>1, <2>2 DEF Truth, OpsGoOn
<1> QED BY <1>7, <1>8, <1>9 DEF Truth

(* Steps of others that leave the runs alone, or cancel one.               *)
LEMMA OtherTruth ==
  ASSUME NEW w, Workers = {w}, Linked, Truth, ChildrenGrow,
         \/ CancelAudio \/ CancelRun \/ OtherWave
         \/ \E r \in Runs : EnqueueRun(r) \/ CancelRead(r)
         \/ \E v \in Waves : WaveEnds(v) \/ AudioEnds(v)
         \/ UNCHANGED vars
  PROVE  Truth'
<1> USE DEF children, budgets
<1>1. /\ runs \in [Runs -> Run] /\ ops \in [Slots -> Operation] /\ worker \in [Workers -> Process]
      /\ worker[w] \in Process /\ worker' = worker
  BY DEF Linked, TypeOK, CancelAudio, CancelRun, OtherWave, EnqueueRun, CancelRead, WaveEnds,
         AudioEnds, vars
<1>2. ASSUME worker[w].at \in {"loaded", "confirmed", "moving"},
             /\ runs'[worker[w].run].event = runs[worker[w].run].event
             /\ runs'[worker[w].run].report = runs[worker[w].run].report
             /\ runs'[worker[w].run].audio = runs[worker[w].run].audio,
             \/ runs'[worker[w].run].status = "cancelled"
             \/ runs'[worker[w].run] = runs[worker[w].run]
      PROVE  AsRead(w)'
  <2>1. Handling(w) /\ AsRead(w) BY <1>2 DEF Linked, Truth
  <2>2. PICK q \in Runs, run \in Run, snap \in Run, to \in Run :
          q = worker[w].run /\ run = runs[q] /\ snap = worker[w].snap /\ to = worker[w].to
    BY <1>1, <2>1 DEF Handling, Process
  <2>3. Has(snap, snap.stage) /\ Facts(snap, q) BY <1>2, <2>1, <2>2 DEF Handling, AsRead
  <2>4. Facts(snap, q)' BY <2>3, FactsStay
  <2>5. Transitioned(runs'[q], to) = Transitioned(run, to) BY <1>2, <2>2 DEF Transitioned
  <2>6. worker[w].at = "moving" => Facts(Transitioned(run, to), q)'
    <3>1. SUFFICES ASSUME worker[w].at = "moving" PROVE Facts(Transitioned(run, to), q)'
      OBVIOUS
    <3>2. PICK new : new = Transitioned(run, to) OBVIOUS
    <3>3. new \in Run /\ new.stage = to.stage BY <3>2 DEF Transitioned, Run
    <3>4. Has(new, new.stage) /\ Facts(new, q) BY <2>1, <2>2, <3>1, <3>2, <3>3 DEF Handling, AsRead
    <3>5. Facts(new, q)' BY <3>3, <3>4, FactsStay
    <3> QED BY <3>2, <3>5
  <2>7. PICK new : new = Transitioned(run, to) OBVIOUS
  <2>8. worker[w].at = "moving" => Facts(new, q)' BY <2>6, <2>7
  <2> QED BY <1>1, <1>2, <2>1, <2>2, <2>4, <2>5, <2>7, <2>8 DEF AsRead
<1>3. CASE runs' = runs /\ ops' = ops
  <2>1. RunsAreTrue' BY <1>3, RunStays DEF Truth, RunsAreTrue
  <2>2. OpsGoOn' BY <1>3 DEF Truth, OpsGoOn
  <2> QED BY <1>1, <1>2, <1>3, <2>1, <2>2 DEF Truth
<1>4. ASSUME NEW q \in Runs, ops' = ops,
             runs' = [runs EXCEPT ![q].stage = "cancelled", ![q].status = "cancelled"]
      PROVE  Truth'
  <2>1. PICK run \in Run : run = runs[q] BY <1>1
  <2>2. PICK new : new = [run EXCEPT !.stage = "cancelled", !.status = "cancelled"] OBVIOUS
  <2>3. /\ runs' = [runs EXCEPT ![q] = new] /\ new.stage = "cancelled" /\ new.status = "cancelled"
        /\ new.event = run.event /\ new.report = run.report /\ new.audio = run.audio
    BY <1>1, <1>4, <2>1, <2>2 DEF Run
  <2>4. Facts(run, q)'
    <3>1. Facts(run, q) /\ Has(run, run.stage)
      BY <2>1 DEF Truth, RunsAreTrue, Linked, RunsAreFilled
    <3> QED BY <3>1, FactsStay
  <2>5. Facts(new, q)' BY <2>3, <2>4 DEF Facts
  <2>6. RunsAreTrue'
    <3>1. ASSUME NEW r \in Runs \ {q}
          PROVE  /\ Facts(runs[r], r)'
                 /\ (runs[r].status \in {"none", "queued", "running"} <=> runs[r].stage \notin Ended)'
                 /\ (runs[r].status = "succeeded" => runs[r].stage = "completed")'
      <4>1. runs'[r] = runs[r] BY <1>1, <2>3
      <4> QED BY <4>1, RunStays DEF Truth
    <3>2. runs'[q] = new BY <1>1, <2>3
    <3>3. new.status \notin {"none", "queued", "running", "succeeded"} /\ new.stage \in Ended
      BY <2>3 DEF Ended
    <3> QED BY <2>5, <3>1, <3>2, <3>3 DEF RunsAreTrue
  <2>7. OpsGoOn' BY <1>4 DEF Truth, OpsGoOn
  <2>8. ASSUME worker[w].at \in {"loaded", "confirmed", "moving"} PROVE AsRead(w)'
    <3>1. worker[w].run \in Runs BY <2>8 DEF Linked, Handling
    <3>2. CASE worker[w].run = q BY <1>1, <1>2, <2>1, <2>3, <2>8, <3>2
    <3>3. CASE worker[w].run # q BY <1>1, <1>2, <2>3, <2>8, <3>1, <3>3
    <3> QED BY <3>2, <3>3
  <2> QED BY <1>1, <2>6, <2>7, <2>8 DEF Truth
<1>5. ASSUME NEW q \in Runs, EnqueueRun(q) PROVE Truth'
  <2>1. /\ runs[q].status = "none" /\ runs' = [runs EXCEPT ![q] = NewRun]
        /\ \E s \in Slots : ops' = [ops EXCEPT ![s] = Queued(q, NewRun.stage)]
    BY <1>5, EnqueuedSlot DEF EnqueueRun
  <2>2. /\ NewRun.stage = "enqueue_content_wave" /\ NewRun.status = "queued"
        /\ NewRun.event = None /\ NewRun.report = None /\ NewRun.audio = None
    BY DEF NewRun, Path
  <2>3. Facts(NewRun, q)' BY <2>2 DEF Facts
  <2>4. RunsAreTrue'
    <3>1. ASSUME NEW r \in Runs \ {q}
          PROVE  /\ Facts(runs[r], r)'
                 /\ (runs[r].status \in {"none", "queued", "running"} <=> runs[r].stage \notin Ended)'
                 /\ (runs[r].status = "succeeded" => runs[r].stage = "completed")'
      <4>1. runs'[r] = runs[r] BY <1>1, <2>1
      <4> QED BY <4>1, RunStays DEF Truth
    <3>2. runs'[q] = NewRun BY <1>1, <2>1
    <3>3. NewRun.status # "succeeded" /\ NewRun.stage \notin Ended BY <2>2 DEF Ended
    <3> QED BY <2>2, <2>3, <3>1, <3>2, <3>3 DEF RunsAreTrue
  <2>5. OpsGoOn'
    <3>1. Queued(q, NewRun.stage).stage = "enqueue_content_wave" BY <2>2 DEF Queued, Free
    <3> QED BY <1>1, <2>1, <3>1 DEF Truth, OpsGoOn, Ended
  <2>6. ASSUME worker[w].at \in {"loaded", "confirmed", "moving"} PROVE AsRead(w)'
    <3>1. worker[w].run \in Runs /\ runs[worker[w].run].status # "none"
      BY <2>6 DEF Linked, Handling
    <3>2. runs'[worker[w].run] = runs[worker[w].run] BY <1>1, <2>1, <3>1
    <3> QED BY <1>2, <2>6, <3>2
  <2> QED BY <1>1, <2>4, <2>5, <2>6 DEF Truth
<1>6. CASE CancelRun \/ (\E r \in Runs : CancelRead(r))
  <2>1. ops' = ops BY <1>6 DEF CancelRun, CancelRead
  <2>2. \/ runs' = runs
        \/ \E r \in Runs : runs' = [runs EXCEPT ![r].stage = "cancelled", ![r].status = "cancelled"]
    BY <1>6 DEF CancelRun, CancelRead, RunCancelled, Linked, Cancelling
  <2> QED BY <1>3, <1>4, <2>1, <2>2
<1>7. CASE \/ CancelAudio \/ OtherWave \/ (\E v \in Waves : WaveEnds(v) \/ AudioEnds(v))
           \/ UNCHANGED vars
  BY <1>3, <1>7 DEF CancelAudio, OtherWave, WaveEnds, AudioEnds, vars
<1> QED BY <1>5, <1>6, <1>7

LEMMA TruthStep ==
  ASSUME NEW w, Workers = {w}
  PROVE  Linked /\ Truth /\ [Next]_vars => Truth'
<1> SUFFICES ASSUME Linked, Truth, [Next]_vars PROVE Truth'
  OBVIOUS
<1>1. ChildrenGrow BY Growth
<1>2. CASE \/ \E s \in Slots : Lease(w, s)
           \/ Load(w) \/ Confirm(w) \/ Return(w) \/ Crash(w) \/ Stall(w)
  BY <1>1, <1>2, LeaseTruth
<1>3. CASE \/ AlreadyDone(w) \/ EnqueueWave(w) \/ WaitForWave(w) \/ GenerateReport(w)
           \/ WriteReviews(w) \/ ArchiveAndEnqueueAudio(w) \/ WaitForAudio(w) \/ Trouble(w)
  BY <1>1, <1>3, DecisionTruth
<1>4. CASE Move(w) BY <1>1, <1>4, MoveTruth
<1>5. CASE \/ CancelAudio \/ CancelRun \/ OtherWave
           \/ \E r \in Runs : EnqueueRun(r) \/ CancelRead(r)
           \/ \E v \in Waves : WaveEnds(v) \/ AudioEnds(v)
           \/ UNCHANGED vars
  BY <1>1, <1>5, OtherTruth
<1> QED BY <1>2, <1>3, <1>4, <1>5 DEF Next, HandlerStep, Children

LEMMA InitTruth == Init => Truth
<1> SUFFICES ASSUME Init PROVE Truth
  OBVIOUS
<1>1. /\ NewRun.stage = "enqueue_content_wave" /\ NewRun.event = None /\ NewRun.report = None
      /\ NewRun.audio = None
  BY DEF NewRun, Path
<1>2. PICK new : new = [NewRun EXCEPT !.status = "none"] OBVIOUS
<1>3. /\ new.stage = "enqueue_content_wave" /\ new.event = None /\ new.report = None
      /\ new.audio = None /\ new.status = "none"
  BY <1>2 DEF NewRun, Path
<1>4. \A r \in Runs : runs[r] = new BY <1>2 DEF Init
<1>5. RunsAreTrue BY <1>3, <1>4 DEF RunsAreTrue, Facts, Ended
<1>6. OpsGoOn BY DEF Init, OpsGoOn, Free
<1>7. \A w \in Workers : worker[w].at = "idle" BY DEF Init, Idle
<1> QED BY <1>5, <1>6, <1>7 DEF Truth

(* With the one worker of the program, and any number of runs, waves,      *)
(* faults and cancellations: a run that succeeded published the report of  *)
(* a usable wave of its own, archived and with audio, or had no content;   *)
(* no report has a second audio operation.                                 *)
THEOREM SoundPublication ==
  ASSUME NEW w, Workers = {w}
  PROVE  Spec => []PublicationIsSound
<1>1. Init => Truth BY InitTruth
<1>2. Linked /\ Truth /\ [Next]_vars => Truth' BY TruthStep
<1>3. Truth => SuccessIsPublished
  <2> SUFFICES ASSUME Truth, NEW r \in Runs, runs[r].status = "succeeded"
               PROVE  owner[runs[r].event] = r /\ Published(runs[r])
    BY DEF SuccessIsPublished, Published
  <2> QED BY DEF Truth, RunsAreTrue, Facts
<1>4. AudioOnlyOnce /\ Truth => PublicationIsSound BY <1>3 DEF PublicationIsSound
<1> QED BY <1>1, <1>2, <1>4, InitLinked, LinkedStep, OneAudio, PTL DEF Spec

(* With the one worker of the program, a run never goes back to a stage it *)
(* left, one that succeeded or failed stays so, whatever continuations of  *)
(* it are still queued, and only a reviewed report is archived.            *)
THEOREM OrderedStages ==
  ASSUME NEW w, Workers = {w}
  PROVE  Spec => StagesAreOrdered
<1>1. Init => Truth BY InitTruth
<1>2. Linked /\ Truth /\ [Next]_vars => Truth' BY TruthStep
<1> DEFINE Archives == \A v \in Waves : drafts[v] # drafts'[v] /\ drafts'[v] = "archived"
                         => drafts[v] = "reviewed"
           Advances == \A r \in Runs :
             /\ runs[r].status = "running" /\ runs'[r].status = "running"
                  => Rank(runs[r].stage) <= Rank(runs'[r].stage)
             /\ runs[r].status \in {"succeeded", "failed"} => runs'[r] = runs[r]
<1>3. Linked /\ Truth /\ [Next]_vars => Archives
  <2> SUFFICES ASSUME Linked, Truth, [Next]_vars PROVE Archives
    OBVIOUS
  <2> QED BY Growth DEF ChildrenGrow
<1>4. Linked /\ Truth /\ [Next]_vars => Advances
  <2> SUFFICES ASSUME Linked, Truth, [Next]_vars PROVE Advances
    OBVIOUS
  <2>1. /\ runs \in [Runs -> Run] /\ \A r \in Runs : runs[r].stage \in Stages
    BY DEF Linked, TypeOK, Run
  <2>2. \A r \in Runs : Rank(runs[r].stage) <= Rank(runs[r].stage) \/ runs[r].stage \in Ended
    BY <2>1, StageNames, Ranks DEF Ended
  <2>3. CASE runs' = runs
    <3>1. \A r \in Runs : runs[r].status = "running" => runs[r].stage \notin Ended
      BY DEF Truth, RunsAreTrue
    <3> QED BY <2>2, <2>3, <3>1
  <2>4. ASSUME NEW q \in Runs, runs' = [runs EXCEPT ![q].stage = "cancelled",
                                                    ![q].status = "cancelled"], Active(q)
        PROVE  Advances
    <3>1. \A r \in Runs : runs[r].status = "running" => runs[r].stage \notin Ended
      BY DEF Truth, RunsAreTrue
    <3>2. runs[q].status \in {"queued", "running"} BY <2>4 DEF Active
    <3>3. runs'[q].status = "cancelled" BY <2>1, <2>4 DEF Run
    <3>4. \A r \in Runs \ {q} : runs'[r] = runs[r] BY <2>1, <2>4
    <3> QED BY <2>2, <3>1, <3>2, <3>3, <3>4
  <2>5. CASE Move(w)
    <3>1. worker[w].at = "moving" /\ Handling(w) /\ AsRead(w) BY <2>5 DEF Move, Linked, Truth
    <3>2. PICK q \in Runs : q = worker[w].run BY <3>1 DEF Handling
    <3>3. PICK to : to = worker[w].to OBVIOUS
    <3>4. PICK snap : snap = worker[w].snap OBVIOUS
    <3>5. /\ runs'[q].stage = to.stage /\ runs'[q].status = StatusOf(to.stage)
          /\ to.stage # "cancelled"
          /\ \A r \in Runs \ {q} : runs'[r] = runs[r]
      BY <2>1, <2>5, <3>1, <3>2, <3>3 DEF Move, Handling, Transitioned
    <3>6. /\ runs[q].stage = snap.stage \/ runs[q].status = "cancelled"
          /\ snap.stage \notin Ended
          /\ to.stage \notin Ended => Rank(snap.stage) <= Rank(to.stage)
      BY <3>1, <3>2, <3>3, <3>4 DEF AsRead
    <3>7. runs'[q].status = "running" => to.stage \notin Ended BY <3>5 DEF StatusOf, Ended
    <3>8. \A r \in Runs : runs[r].status = "running" => runs[r].stage \notin Ended
      BY DEF Truth, RunsAreTrue
    <3>9. runs[q].status \notin {"succeeded", "failed"}
      BY <3>6 DEF Truth, RunsAreTrue
    <3>10. runs[q].status = "running" /\ runs'[q].status = "running" =>
             Rank(runs[q].stage) <= Rank(runs'[q].stage)
      BY <3>5, <3>6, <3>7
    <3> QED BY <2>2, <3>5, <3>8, <3>9, <3>10
  <2>6. ASSUME NEW q \in Runs, EnqueueRun(q) PROVE Advances
    <3>1. runs[q].status = "none" /\ \A r \in Runs \ {q} : runs'[r] = runs[r]
      BY <2>1, <2>6 DEF EnqueueRun
    <3>2. \A r \in Runs : runs[r].status = "running" => runs[r].stage \notin Ended
      BY DEF Truth, RunsAreTrue
    <3> QED BY <2>2, <3>1, <3>2
  <2>7. CASE CancelRun \/ \E r \in Runs : CancelRead(r)
    <3>1. \/ runs' = runs
          \/ \E q \in Runs : Active(q) /\ runs' = [runs EXCEPT ![q].stage = "cancelled",
                                                             ![q].status = "cancelled"]
      BY <2>7 DEF CancelRun, CancelRead, RunCancelled, Linked, Cancelling
    <3> QED BY <2>3, <2>4, <3>1
  <2>8. CASE \/ CancelAudio \/ OtherWave \/ \E v \in Waves : WaveEnds(v) \/ AudioEnds(v)
             \/ UNCHANGED vars
    BY <2>3, <2>8 DEF CancelAudio, OtherWave, WaveEnds, AudioEnds, vars
  <2>9. CASE \/ \E s \in Slots : Lease(w, s)
             \/ Load(w) \/ Confirm(w) \/ Return(w) \/ Crash(w) \/ Stall(w)
             \/ AlreadyDone(w) \/ EnqueueWave(w) \/ WaitForWave(w) \/ GenerateReport(w)
             \/ WriteReviews(w) \/ ArchiveAndEnqueueAudio(w) \/ WaitForAudio(w) \/ Trouble(w)
    BY <2>3, <2>9 DEF Lease, Load, Confirm, Return, Crash, Stall, AlreadyDone, EnqueueWave,
       WaitForWave, GenerateReport, WriteReviews, ArchiveAndEnqueueAudio, WaitForAudio, Trouble
  <2> QED BY <2>5, <2>6, <2>7, <2>8, <2>9 DEF Next, HandlerStep, Children
<1>5. Linked /\ Truth /\ [Next]_vars => [Archives]_vars /\ [Advances]_vars BY <1>3, <1>4
<1> HIDE DEF Archives, Advances
<1>6. Spec => [][Archives]_vars /\ [][Advances]_vars
  BY <1>1, <1>2, <1>3, <1>4, InitLinked, LinkedStep, PTL DEF Spec
<1> QED BY <1>6 DEF Archives, Advances, StagesAreOrdered, StagesOnlyAdvance, OnlyReviewedIsArchived
=============================================================================
