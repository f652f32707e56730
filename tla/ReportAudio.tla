---------------------------- MODULE ReportAudio ----------------------------
(***************************************************************************)
(* The audio of one archived report: rows and files made by the handlers   *)
(* of its audio operations (DailyReportAudioHandler), what counts as work  *)
(* in progress on the report, its way to the trash and back, and the purge *)
(* of its rows and then of its files (DailyReportPurgeHandler).            *)
(*                                                                         *)
(* Rows and files cannot be written together.  The operations are those of *)
(* OperationContract; as there, a reclaim or a lease check that raises     *)
(* leaves the handler of a former attempt running.                         *)
(***************************************************************************)
EXTENDS Naturals, SequencesExt

CONSTANTS
  Audios,         \* audio operations of the report, all of one rendition
  Purges,         \* purge operations of the report
  MaxAttempts,    \* MAX_ATTEMPTS
  MaxFaults       \* crashes, lost leases, raising checks, cancellations  (bound)

ASSUME AudioAssumption ==
  /\ Audios \cap Purges = {} /\ IsFiniteSet(Audios)
  /\ MaxAttempts \in Nat /\ MaxFaults \in Nat

VARIABLES
  status, attempts, cancel,     \* operation_runs
  faults,
  report,                       \* daily_reports: the row, deleted_at
  artifact,                     \* daily_report_audio_artifacts, one per attempt
  file,                         \* its mp3 file
  purgeQueue,                   \* daily_report_audio_purge_queue
  handlerAt, outcome,                  \* handlers, and what they return
  todo,                         \* queue rows a purge handler has read
  copies,                       \* purges that copy the scope of another
  swept                         \* what the retention sweep has read

operation == <<status, attempts, cancel>>
rows == <<report, artifact, purgeQueue>>
handler == <<handlerAt, outcome, todo, copies>>
audioVars == <<operation, faults, rows, file, handler, swept>>

Operations == Audios \cup Purges
Attempts == 1..MaxAttempts
Jobs == Operations \X Attempts        \* attempts, and their handlers
Mp3s == Audios \X Attempts            \* each attempt makes at most one

Queue == INSTANCE OperationContract

Steps ==
  {"none", "over", "returned", "starting",
   "reading", "inserting", "speaking", "writing", "written", "publishing", "unlinking", "failing",
   "purging", "listing", "cleaning", "dequeuing"}
Outcomes == {"none", "succeeded", "error", "failed", "cancelled"}

AudioTypeOK ==
  /\ faults \in 0..MaxFaults
  /\ report \in {"live", "trash", "purged"}
  /\ artifact \in [Mp3s -> {"none", "running", "succeeded", "failed", "deleted"}]
  /\ file \in [Mp3s -> {"none", "partial", "whole"}]
  /\ purgeQueue \subseteq Mp3s
  /\ handlerAt \in [Jobs -> Steps]
  /\ outcome \in [Jobs -> Outcomes]
  /\ \A j \in Jobs : todo[j] \in Seq(Mp3s)
  /\ copies \subseteq Purges
  /\ swept \in {"no", "free", "done"}

AudioInit ==
  /\ Queue!ContractInit
  /\ faults = 0
  /\ report = "live"
  /\ artifact = [f \in Mp3s |-> "none"]
  /\ file = [f \in Mp3s |-> "none"]
  /\ purgeQueue = {}
  /\ handlerAt = [j \in Jobs |-> "none"]
  /\ outcome = [j \in Jobs |-> "none"]
  /\ todo = [j \in Jobs |-> <<>>]
  /\ copies = {}
  /\ swept = "no"

---------------------------------------------------------------------------
(* _active_daily_report_ids and _trash_block_diagnostic:                   *)
(* work in progress on the report, but for that of the operations own.     *)
Unfinished(o) == status[o] \in {"queued", "running"}
(* A wrong one: the operations alone. *)
BusyOperations(own) == \E other \in Operations \ own : Unfinished(other)
Busy(own) ==
  \/ \E f \in Mp3s : artifact[f] = "running"
  \/ \E other \in Operations \ own : Unfinished(other)

(* _has_active_work: but for the purge operation itself.                   *)
HasActiveWork(o) == Busy({o})

(* enqueue_daily_report_audio answers with the active operation of the     *)
(* rendition, if there is one.                                             *)
EnqueueAudio(o) ==
  /\ report = "live"
  /\ \A other \in Audios : ~Unfinished(other)
  /\ Queue!Submit(o)
  /\ UNCHANGED <<faults, rows, file, handler, swept>>

EnqueuePurge(o) ==
  /\ report = "trash" /\ ~Busy({})
  /\ Queue!Submit(o)
  /\ UNCHANGED <<faults, rows, file, handler, swept>>

(* OperationCommandService.retry copies a terminal operation, whatever     *)
(* became of the report, and adds to its scope.                            *)
Retry(o) ==
  /\ \E original \in Operations :
       /\ status[original] \in {"succeeded", "failed", "cancelled"}
       /\ {o, original} \subseteq Audios \/ {o, original} \subseteq Purges
  /\ Queue!Submit(o)
  /\ copies' = copies \cup ({o} \cap Purges)
  /\ UNCHANGED <<faults, rows, file, handlerAt, outcome, todo, swept>>

RequestCancel(o) ==
  /\ faults < MaxFaults /\ faults' = faults + 1
  /\ Queue!AskCancel(o)
  /\ UNCHANGED <<rows, file, handler, swept>>

MoveToTrash ==
  /\ report = "live" /\ ~Busy({})
  /\ report' = "trash"
  /\ UNCHANGED <<operation, faults, artifact, purgeQueue, file, handler, swept>>

(* The retention sweep reads the busy reports before it locks the others.  *)
SweepRead ==
  /\ swept = "no" /\ ~Busy({})
  /\ swept' = "free"
  /\ UNCHANGED <<operation, faults, rows, file, handler>>

SweepTrash ==
  /\ swept = "free"
  /\ report' = IF report = "live" THEN "trash" ELSE report
  /\ swept' = "done"
  /\ UNCHANGED <<operation, faults, artifact, purgeQueue, file, handler>>

Restore ==
  /\ report = "trash"
  /\ report' = "live"
  /\ UNCHANGED <<operation, faults, artifact, purgeQueue, file, handler, swept>>

---------------------------------------------------------------------------
(* Attempts.                                                               *)

Current(j) == j[2] = attempts[j[1]] /\ status[j[1]] = "running"
HandlerAlive(j) == handlerAt[j] \notin {"none", "over"}

Lease(o) ==
  /\ Queue!Begin(o)
  /\ faults' = IF status[o] = "running" /\ HandlerAlive(<<o, attempts[o]>>) THEN faults + 1 ELSE faults
  /\ faults' <= MaxFaults
  /\ handlerAt' = [handlerAt EXCEPT ![<<o, attempts'[o]>>] = "starting"]
  /\ UNCHANGED <<rows, file, outcome, todo, copies, swept>>

(* finish_attempt                                                          *)
Conclude(j, result) ==
  LET o == j[1] IN
    CASE ~Current(j) -> UNCHANGED operation
      [] Current(j) /\ cancel[o] -> Queue!Decide(o, "cancelled")
      [] Current(j) /\ ~cancel[o] /\ result = "error" /\ j[2] < MaxAttempts -> Queue!GiveBack(o)
      [] Current(j) /\ ~cancel[o] /\ (result # "error" \/ j[2] = MaxAttempts) ->
           Queue!Decide(o, IF result = "succeeded" THEN "succeeded" ELSE "failed")

Finish(j) ==
  /\ handlerAt[j] = "returned"
  /\ Conclude(j, outcome[j])
  /\ handlerAt' = [handlerAt EXCEPT ![j] = "over"]
  /\ outcome' = [outcome EXCEPT ![j] = "none"]
  /\ UNCHANGED <<faults, rows, file, todo, copies, swept>>

MonitorError(j) ==
  /\ HandlerAlive(j) /\ Current(j) /\ faults < MaxFaults
  /\ Conclude(j, "error")
  /\ faults' = faults + 1
  /\ UNCHANGED <<rows, file, handler, swept>>

(* The process dies with its handler, or a database error ends it: nothing *)
(* is tidied up.                                                           *)
Die(j) ==
  /\ HandlerAlive(j) /\ faults < MaxFaults
  /\ handlerAt' = [handlerAt EXCEPT ![j] = "over"]
  /\ outcome' = [outcome EXCEPT ![j] = "none"]
  /\ todo' = [todo EXCEPT ![j] = <<>>]
  /\ faults' = faults + 1
  /\ UNCHANGED <<operation, rows, file, copies, swept>>

GoesOn(j, step) == handlerAt' = [handlerAt EXCEPT ![j] = step] /\ UNCHANGED outcome
Returns(j, result) ==
  /\ handlerAt' = [handlerAt EXCEPT ![j] = "returned"]
  /\ outcome' = [outcome EXCEPT ![j] = result]

(* A checkpoint passes while the operation runs and is not cancelled, for  *)
(* the handler of a former attempt too when worker ids are shared.         *)
Passes(j) == status[j[1]] = "running" /\ ~cancel[j[1]]
Raises(j) == ~Current(j) \/ cancel[j[1]]

(* _request_report_ids refuses a scope it did not write itself.            *)
Start(j) ==
  /\ handlerAt[j] = "starting"
  /\ \/ j[1] \in copies /\ Returns(j, "failed")
     \/ j[1] \notin copies /\ Passes(j) /\ GoesOn(j, IF j \in Mp3s THEN "reading" ELSE "purging")
     \/ j[1] \notin copies /\ Raises(j) /\ Returns(j, "cancelled")
  /\ UNCHANGED <<operation, faults, rows, file, todo, copies, swept>>

---------------------------------------------------------------------------
(* The audio handler of attempt j, which is also its artifact.             *)

(* _target: every artifact has a file of its own.                          *)
(* A wrong one: one for all attempts of an operation. *)
FileOfOperation(j) == <<j[1], 1>>
FileOf(j) == j

(* DailyReportQueryService.detail finds no report in the trash.            *)
ReadReport(j) ==
  /\ handlerAt[j] = "reading"
  /\ IF report = "live" THEN GoesOn(j, "inserting") ELSE Returns(j, "failed")
  /\ UNCHANGED <<operation, faults, rows, file, todo, copies, swept>>

(* The row refers to the report, which nothing has locked since it was     *)
(* read: it may be in the trash by now, or gone, and then the key refuses. *)
InsertArtifact(j) ==
  /\ handlerAt[j] = "inserting"
  /\ \/ /\ report # "purged"
        /\ artifact' = [artifact EXCEPT ![j] = "running"]
        /\ GoesOn(j, "speaking")
     \/ report = "purged" /\ Returns(j, "error") /\ UNCHANGED artifact
  /\ UNCHANGED <<operation, faults, report, purgeQueue, file, todo, copies, swept>>

(* _fail                                                                   *)
FailArtifact(j, result) ==
  /\ artifact' = [artifact EXCEPT ![j] = IF @ = "running" THEN "failed" ELSE @]
  /\ Returns(j, result)
  /\ UNCHANGED <<operation, faults, report, purgeQueue, file, todo, copies, swept>>

(* Synthesis, and before_audio_write.                                      *)
Spoken(j) ==
  /\ handlerAt[j] = "speaking"
  /\ \/ /\ Passes(j) /\ GoesOn(j, "writing")
        /\ UNCHANGED <<operation, faults, rows, file, todo, copies, swept>>
     \/ Raises(j) /\ FailArtifact(j, "cancelled")
     \/ \E result \in {"error", "failed"} : FailArtifact(j, result)

(* write_bytes: it ends, or the disk is full or the process dies under it. *)
WriteFile(j) ==
  /\ handlerAt[j] = "writing"
  /\ LET f == FileOf(j) IN
       \/ /\ file[f] # "partial" /\ file' = [file EXCEPT ![f] = "partial"]
          /\ UNCHANGED <<handlerAt, outcome>>
       \/ /\ file[f] = "partial"
          /\ \/ file' = [file EXCEPT ![f] = "whole"] /\ GoesOn(j, "written")
             \/ UNCHANGED file /\ GoesOn(j, "failing")
  /\ UNCHANGED <<operation, faults, rows, todo, copies, swept>>

WriteFailed(j) == handlerAt[j] = "failing" /\ FailArtifact(j, "error")

(* after_audio_write, and the file is removed if it raises.                *)
Written(j) ==
  /\ handlerAt[j] = "written"
  /\ \/ Passes(j) /\ GoesOn(j, "publishing") /\ UNCHANGED file
     \/ /\ Raises(j) /\ GoesOn(j, "unlinking")
        /\ file' = [file EXCEPT ![FileOf(j)] = "none"]
  /\ UNCHANGED <<operation, faults, rows, todo, copies, swept>>

Unlinked(j) == handlerAt[j] = "unlinking" /\ FailArtifact(j, "cancelled")

(* _succeed                                                                *)
Publish(j) ==
  /\ handlerAt[j] = "publishing"
  /\ IF artifact[j] = "deleted" THEN Returns(j, "failed") /\ UNCHANGED artifact
     ELSE artifact' = [artifact EXCEPT ![j] = "succeeded"] /\ Returns(j, "succeeded")
  /\ UNCHANGED <<operation, faults, report, purgeQueue, file, todo, copies, swept>>

AudioStep(j) ==
  \/ ReadReport(j) \/ InsertArtifact(j) \/ Spoken(j) \/ WriteFile(j) \/ WriteFailed(j)
  \/ Written(j) \/ Unlinked(j) \/ Publish(j)

---------------------------------------------------------------------------
(* The purge handler of attempt j.                                         *)

(* had_pending_audio: another attempt deleted the rows, but left files.    *)
AudioIsPending == purgeQueue # {}

(* _purge_member, first the rows.                                          *)
PurgeRows(j) ==
  /\ handlerAt[j] = "purging"
  /\ \/ /\ report = "trash" /\ ~HasActiveWork(j[1])
        /\ report' = "purged"
        /\ purgeQueue' = purgeQueue \cup {FileOf(f) : f \in {a \in Mp3s : artifact[a] = "succeeded"}}
        /\ artifact' = [f \in Mp3s |-> IF artifact[f] = "none" THEN "none" ELSE "deleted"]
        /\ GoesOn(j, "listing")
     \/ /\ \/ report = "live" /\ Returns(j, "failed")
           \/ report = "trash" /\ HasActiveWork(j[1]) /\ Returns(j, "error")
           \/ report = "purged" /\ AudioIsPending /\ GoesOn(j, "listing")
           \/ report = "purged" /\ ~AudioIsPending /\ Returns(j, "succeeded")
        /\ UNCHANGED rows
  /\ UNCHANGED <<operation, faults, file, todo, copies, swept>>

(* _cleanup_staged_audio, in the order of the queue.                       *)
ListFiles(j) ==
  /\ handlerAt[j] = "listing"
  /\ todo' = [todo EXCEPT ![j] = SetToSeq(purgeQueue)]
  /\ GoesOn(j, "cleaning")
  /\ UNCHANGED <<operation, faults, rows, file, copies, swept>>

(* unlink, where a file that is not there is a success; or an OSError.     *)
UnlinkFile(j) ==
  /\ handlerAt[j] = "cleaning" /\ todo[j] # <<>>
  /\ \/ /\ file' = [file EXCEPT ![Head(todo[j])] = "none"]
        /\ GoesOn(j, "dequeuing") /\ UNCHANGED todo
     \/ /\ Returns(j, "error") /\ UNCHANGED file
        /\ todo' = [todo EXCEPT ![j] = <<>>]
  /\ UNCHANGED <<operation, faults, rows, copies, swept>>

DequeueFile(j) ==
  /\ handlerAt[j] = "dequeuing"
  /\ purgeQueue' = purgeQueue \ {Head(todo[j])}
  /\ todo' = [todo EXCEPT ![j] = Tail(@)]
  /\ GoesOn(j, "cleaning")
  /\ UNCHANGED <<operation, faults, report, artifact, file, copies, swept>>

Cleaned(j) ==
  /\ handlerAt[j] = "cleaning" /\ todo[j] = <<>>
  /\ Returns(j, "succeeded")
  /\ UNCHANGED <<operation, faults, rows, file, todo, copies, swept>>

PurgeStep(j) ==
  PurgeRows(j) \/ ListFiles(j) \/ UnlinkFile(j) \/ DequeueFile(j) \/ Cleaned(j)

---------------------------------------------------------------------------
AudioNext ==
  \/ \E o \in Audios : EnqueueAudio(o)
  \/ \E o \in Purges : EnqueuePurge(o)
  \/ \E o \in Operations : Retry(o) \/ RequestCancel(o) \/ Lease(o)
  \/ MoveToTrash \/ SweepRead \/ SweepTrash \/ Restore
  \/ \E j \in Jobs : Start(j) \/ Finish(j) \/ MonitorError(j) \/ Die(j)
  \/ \E j \in Mp3s : AudioStep(j)
  \/ \E j \in Jobs \ Mp3s : PurgeStep(j)

AudioSpec == AudioInit /\ [][AudioNext]_audioVars

---------------------------------------------------------------------------
(* Properties.                                                             *)

(* Audio that is offered is there: the file of a succeeded artifact is     *)
(* whole, whichever handlers of other attempts write, tidy up or are cut   *)
(* off, until the purge has deleted the artifact.                          *)
PublishedIsOnDisk == \A j \in Mp3s : artifact[j] = "succeeded" => file[FileOf(j)] = "whole"

(* A purge that was reported as done is done, through attempts that were   *)
(* reclaimed or failed between the rows and the files: the report is gone  *)
(* and so is every file that was written to its end.                       *)
PurgedIsGone ==
  \A o \in Purges : status[o] = "succeeded" =>
    report = "purged" /\ \A f \in Mp3s : file[f] # "whole"

(* A report is not purged under a handler that is making its audio, even   *)
(* if its operation was given to another attempt or is over: nobody writes *)
(* files or publishes audio of a report that is gone.                      *)
NoAudioOfPurgedReport ==
  report = "purged" =>
    \A j \in Mp3s : handlerAt[j] \in {"none", "over", "returned", "starting", "reading", "inserting"}

(* Files follow the rows: there while audio is offered, gone after a purge.*)
FilesFollowRows == AudioTypeOK /\ PublishedIsOnDisk /\ PurgedIsGone
=============================================================================
