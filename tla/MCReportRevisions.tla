------------------------- MODULE MCReportRevisions -------------------------
(* The revisions of the reports of one day, and the schedule and retention *)
(* of several days, in one run.  They share no state: a behaviour is one   *)
(* of a single module, the variables of the other keep their initial       *)
(* values.                                                                 *)
EXTENDS ReportRevisions, DailySchedule

CONSTANTS p1, r1

MCDateOf == [r \in Reports |-> -1]

VARIABLE part   \* the module this behaviour is one of

ReportsInit == part \in {"revisions", "days"} /\ Init /\ ScheduleInit

ReportsNext ==
  \/ part = "revisions" /\ Next /\ UNCHANGED <<part, scheduleVars>>
  \/ part = "days" /\ ScheduleNext /\ UNCHANGED <<part, vars>>

reportsVars == <<part, vars, scheduleVars>>
ReportsSpec == ReportsInit /\ [][ReportsNext]_reportsVars
=============================================================================
