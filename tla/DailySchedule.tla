---------------------------- MODULE DailySchedule ----------------------------
(***************************************************************************)
(* The daily schedule (DailyAutomationService.tick, which every worker     *)
(* calls once a minute): it creates the run of the day after 07:30 local   *)
(* time, and once a day sweeps old reports to the trash and expired ones   *)
(* to a purge.                                                             *)
(*                                                                         *)
(* A tick is one transaction that locks the row of the configuration first *)
(* and keeps it: ticks of several workers follow each other, but the clock *)
(* goes on inside of one, and the tick reads it again at every step.  What *)
(* a run does is the subject of DailyAutopilot, purging that of            *)
(* ReportRevisions and ReportAudio.                                        *)
(***************************************************************************)
EXTENDS Integers, SequencesExt, FiniteSetsExt

CONSTANTS
  Reports,
  DateOf,        \* the day of a report, counted from the first of the clock
  RetentionDays, TrashDays,
  Plans,         \* wave plans, as their digest and window
  MaxTime,       \* half days the clock runs                       (bound)
  MaxRuns        \* runs created                                   (bound)

ASSUME ScheduleAssumption ==
  /\ DateOf \in [Reports -> Int] /\ RetentionDays \in Nat /\ TrashDays \in Nat
  /\ MaxTime \in Nat /\ MaxRuns \in Nat

VARIABLES
  time,          \* in half days; the second half of a day is after 07:30
  config,        \* daily_automation_config
  autoRuns,      \* daily_autopilot_runs
  retained,      \* per report: its place, purge_after, pinned_at
  removals,      \* active purges: their report_ids and trigger
  tick           \* the open transaction of a tick

scheduleVars == <<time, config, autoRuns, retained, removals, tick>>

Never == -1
Today == time \div 2
Late == time % 2 = 1

NoTick == [at |-> "closed", due |-> Never, sweeps |-> FALSE, trash |-> {}, purge |-> {},
           swept |-> Never, run |-> <<>>]

ScheduleInit ==
  /\ time = 0
  /\ config = [enabled |-> FALSE, scheduled |-> Never, swept |-> Never]
  /\ autoRuns = <<>>
  /\ retained = [r \in Reports |-> [place |-> "kept", expires |-> Never, pinned |-> FALSE]]
  /\ removals = {}
  /\ tick = NoTick

Passing ==
  /\ time < MaxTime /\ time' = time + 1
  /\ UNCHANGED <<config, autoRuns, retained, removals, tick>>

---------------------------------------------------------------------------
(* Retention of reports.                                                   *)

(* _active_daily_report_ids, of which purges are modelled; a wrong one.    *)
BeingPurged(r) == \E purge \in removals : r \in purge.scope
NothingIsBusy(r) == FALSE
IsBusy(r) == BeingPurged(r)

Expires == time + 2 * TrashDays
InTrash(r) == retained[r].place = "trash"

(* trash_retention_candidates and purge_retention_candidates; the limits   *)
(* of their batches are not modelled.                                      *)
Outlived ==
  {r \in Reports : /\ retained[r].place = "kept" /\ ~retained[r].pinned /\ ~IsBusy(r)
                   /\ DateOf[r] <= Today - RetentionDays}
Expired ==
  {r \in Reports : /\ InTrash(r) /\ ~retained[r].pinned /\ ~IsBusy(r)
                   /\ retained[r].expires <= time}

(* The rows a tick has locked until it ends.                               *)
LockedRow(r) == r \in tick.trash \cup tick.purge

Placed(r, place, expires) ==
  /\ ~LockedRow(r)
  /\ retained' = [retained EXCEPT ![r].place = place, ![r].expires = expires]
  /\ UNCHANGED <<time, config, autoRuns, removals, tick>>

Discard(r) == retained[r].place = "kept" /\ ~IsBusy(r) /\ Placed(r, "trash", Expires)
TakeBack(r) == InTrash(r) /\ Placed(r, "kept", Never)

SetPin(r) ==
  /\ retained[r].place # "gone" /\ ~LockedRow(r)
  /\ retained' = [retained EXCEPT ![r].pinned = ~@]
  /\ UNCHANGED <<time, config, autoRuns, removals, tick>>

(* enqueue_daily_report_purge, by the user.                                *)
PurgeNow(r) ==
  /\ InTrash(r) /\ ~BeingPurged(r) /\ ~LockedRow(r)
  /\ removals' = removals \cup {[scope |-> {r}, trigger |-> "web"]}
  /\ UNCHANGED <<time, config, autoRuns, retained, tick>>

(* The handler of a purge, which asks whether the report is in the trash   *)
(* and has no other active work, and not whether it has expired.           *)
Removes(purge, r) ==
  /\ purge \in removals /\ r \in purge.scope
  /\ InTrash(r) /\ ~LockedRow(r)
  /\ \A other \in removals \ {purge} : r \notin other.scope
  /\ retained' = [retained EXCEPT ![r].place = "gone"]
  /\ UNCHANGED <<time, config, autoRuns, removals, tick>>

RemovalEnds(purge) ==
  /\ removals' = removals \ {purge}
  /\ UNCHANGED <<time, config, autoRuns, retained, tick>>

---------------------------------------------------------------------------
(* Runs.                                                                   *)

IsActive(run) == run.status = "active"
NoneActive == \A i \in DOMAIN autoRuns : ~IsActive(autoRuns[i])
NewRun(plan, trigger) ==
  [day |-> Today, plan |-> plan, trigger |-> trigger, status |-> "active"]

(* reusable_for_daily_wave                                                 *)
Reusable(plan) ==
  {i \in DOMAIN autoRuns : /\ autoRuns[i].status # "ended badly"
                           /\ autoRuns[i].plan = plan /\ autoRuns[i].day = Today}

(* enqueue_daily_autopilot_result, by hand: the page does not reuse what is *)
(* complete, the command line does.  A tick that created a run keeps the   *)
(* advisory lock.                                                          *)
RunNow(plan, reuse) ==
  /\ tick.at # "mark" /\ Len(autoRuns) < MaxRuns
  /\ NoneActive
  /\ reuse => Reusable(plan) = {}
  /\ autoRuns' = Append(autoRuns, NewRun(plan, "manual"))
  /\ UNCHANGED <<time, config, retained, removals, tick>>

RunOver(i) ==
  /\ IsActive(autoRuns[i])
  /\ \E status \in {"succeeded", "ended badly"} :
       autoRuns' = [autoRuns EXCEPT ![i].status = status]
  /\ UNCHANGED <<time, config, retained, removals, tick>>

(* enable and pause wait for the row of the configuration.                 *)
Switch ==
  /\ tick.at = "closed"
  /\ config' = [config EXCEPT !.enabled = ~@]
  /\ UNCHANGED <<time, autoRuns, retained, removals, tick>>

---------------------------------------------------------------------------
(* The tick.                                                               *)

(* due_schedule                                                            *)
DueDay == IF Late /\ config.scheduled # Today THEN Today ELSE Never

(* _sweep_retention: what it will move; the day is looked at again when it *)
(* marks the sweep.                                                        *)
SweepBegins ==
  /\ tick.at = "closed"
  /\ tick' = IF config.swept = Today THEN [NoTick EXCEPT !.at = "due"]
             ELSE [NoTick EXCEPT !.at = "swept", !.sweeps = TRUE,
                                 !.trash = Outlived, !.purge = Expired]
  /\ UNCHANGED <<time, config, autoRuns, retained, removals>>

SweepMarked ==
  /\ tick.at = "swept"
  /\ tick' = [tick EXCEPT !.at = "due", !.swept = Today]
  /\ UNCHANGED <<time, config, autoRuns, retained, removals>>

(* The writes of the tick appear together.                                 *)
Sweeps(t) ==
  /\ retained' = [r \in Reports |->
       IF r \in t.trash THEN [retained[r] EXCEPT !.place = "trash", !.expires = Expires]
       ELSE retained[r]]
  /\ removals' = IF t.purge = {} THEN removals
                 ELSE removals \cup {[scope |-> t.purge, trigger |-> "schedule"]}
Commits(scheduled) ==
  /\ Sweeps(tick)
  /\ config' = [config EXCEPT !.swept = IF tick.sweeps THEN tick.swept ELSE @,
                              !.scheduled = scheduled]
  /\ autoRuns' = autoRuns \o tick.run
  /\ tick' = NoTick
  /\ UNCHANGED time

(* lock_due                                                                *)
NothingIsDue ==
  /\ tick.at = "due"
  /\ config.enabled => DueDay = Never
  /\ Commits(config.scheduled)

FindsDue ==
  /\ tick.at = "due"
  /\ config.enabled /\ DueDay # Never
  /\ tick' = [tick EXCEPT !.at = "enqueue", !.due = DueDay]
  /\ UNCHANGED <<time, config, autoRuns, retained, removals>>

(* _enqueue_daily_autopilot_result_in_transaction                          *)
Enqueues(plan) ==
  /\ tick.at = "enqueue"
  /\ Reusable(plan) = {} => NoneActive /\ Len(autoRuns) < MaxRuns
  /\ tick' = [tick EXCEPT !.at = "mark",
                !.run = IF Reusable(plan) # {} THEN <<>> ELSE <<NewRun(plan, "schedule")>>]
  /\ UNCHANGED <<time, config, autoRuns, retained, removals>>

(* active_daily_autopilot_exists: the next tick tries again.               *)
Defers(plan) ==
  /\ tick.at = "enqueue"
  /\ Reusable(plan) = {} /\ ~NoneActive
  /\ Commits(config.scheduled)

(* mark_scheduled; a wrong one that trusts the day found to be due.        *)
DueAsFound == tick.due
DueStill == DueDay

Marks ==
  /\ tick.at = "mark" /\ DueStill = tick.due
  /\ Commits(tick.due)

(* A worker dies in its tick; daily_automation_schedule_not_due, when Marks *)
(* finds that midnight has passed, ends it as well.                        *)
RollsBack ==
  /\ tick.at # "closed"
  /\ tick' = NoTick
  /\ UNCHANGED <<time, config, autoRuns, retained, removals>>

ScheduleNext ==
  \/ Passing \/ Switch
  \/ SweepBegins \/ SweepMarked \/ NothingIsDue \/ FindsDue \/ Marks \/ RollsBack
  \/ \E plan \in Plans :
       Enqueues(plan) \/ Defers(plan) \/ \E reuse \in BOOLEAN : RunNow(plan, reuse)
  \/ \E i \in DOMAIN autoRuns : RunOver(i)
  \/ \E r \in Reports : Discard(r) \/ TakeBack(r) \/ SetPin(r) \/ PurgeNow(r)
  \/ \E purge \in removals : RemovalEnds(purge) \/ \E r \in purge.scope : Removes(purge, r)

ScheduleSpec == ScheduleInit /\ [][ScheduleNext]_scheduleVars

---------------------------------------------------------------------------
(* The schedule creates at most one run in a day, whichever worker ticks,  *)
(* when midnight passes inside of a tick and however the run ends          *)
(* (docs/superpowers/specs/2026-07-18-daily-automation-console-design.md   *)
(* section 2: the day is made up for once).                                *)
OneScheduledRun ==
  \A i, j \in DOMAIN autoRuns :
    /\ autoRuns[i].trigger = "schedule" /\ autoRuns[j].trigger = "schedule"
    /\ autoRuns[i].day = autoRuns[j].day
    => i = j

(* A purge the schedule asked for never removes a report before its time   *)
(* in the trash is over, although the handler does not look at             *)
(* purge_after: not when the report was restored and trashed again while   *)
(* the purge waited.                                                       *)
OnlyExpired ==
  [][\A purge \in removals, r \in Reports :
       /\ purge.trigger = "schedule" /\ r \in purge.scope
       /\ InTrash(r) /\ retained'[r].place = "gone"
       => retained[r].expires <= time]_scheduleVars
=============================================================================
