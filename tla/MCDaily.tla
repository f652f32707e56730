------------------------------ MODULE MCDaily ------------------------------
(* The parts around a report in one run: its page, its audio and its       *)
(* purge, what a day says over its revisions; and the row locks of a wave. *)
(* They share no state: a behaviour is one of a single module, the         *)
(* variables of the others keep their initial values.                      *)
EXTENDS ReportPage, ReportAudio, MCReportContent, LeaseLocks

CONSTANTS a1, g1, g2, m1, m2

MCRows == 1 .. 2

VARIABLE part   \* the module this behaviour is one of

DailyInit ==
  /\ part \in {"page", "audio", "content", "locks"}
  /\ PageReportInit /\ AudioInit /\ ContentInit /\ LocksInit

DailyNext ==
  \/ /\ part = "page" /\ PageReportNext
     /\ UNCHANGED <<part, audioVars, contentVars, lockVars>>
  \/ /\ part = "audio" /\ AudioNext
     /\ UNCHANGED <<part, pageState, contentVars, lockVars>>
  \/ /\ part = "content" /\ ContentNext
     /\ UNCHANGED <<part, pageState, audioVars, lockVars>>
  \/ /\ part = "locks" /\ LocksNext
     /\ UNCHANGED <<part, pageState, audioVars, contentVars>>

dailyVars == <<part, pageState, audioVars, contentVars, lockVars>>
DailySpec == DailyInit /\ [][DailyNext]_dailyVars
=============================================================================
