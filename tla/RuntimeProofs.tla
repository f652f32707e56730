---------------------------- MODULE RuntimeProofs ----------------------------
(***************************************************************************)
(* Safety of what runs around a report: the daily schedule and the sweep   *)
(* (DailySchedule), the audio of a report and its purge (ReportAudio), the *)
(* page of a report and what is spoken of it (ReportPage), the order of    *)
(* the row locks of a wave (LeaseLocks), the local server (LocalPostgres), *)
(* the desktop window (DesktopRuntime) and, last, what the reports of one  *)
(* day say (ReportContent).                                                *)
(***************************************************************************)
EXTENDS DailySchedule, ReportPage, ReportAudio, LeaseLocks, LocalPostgres, DesktopRuntime, ReportContent,
        FiniteSetTheorems, FunctionTheorems, SequenceTheorems, WellFoundedInduction, TLAPS

---------------------------------------------------------------------------
(* The daily schedule.                                                     *)

Scheduled(run) == run.trigger = "schedule"

RunRows == [day : Nat, plan : Plans, trigger : {"schedule", "manual"},
            status : {"active", "succeeded", "ended badly"}]
Configs == [enabled : BOOLEAN, scheduled : Nat \cup {Never}, swept : Nat \cup {Never}]

RunTypes ==
  /\ time \in Nat
  /\ config \in Configs
  /\ autoRuns \in Seq(RunRows)
  /\ tick \in [at : {"closed", "swept", "due", "enqueue", "mark"}, due : Nat \cup {Never},
               sweeps : BOOLEAN, trash : SUBSET Reports, purge : SUBSET Reports,
               swept : Nat \cup {Never}, run : Seq(RunRows)]

(* A day is marked once it has its run, and its run is the last of them.   *)
MarkedDays ==
  /\ config.scheduled <= Today
  /\ \A i \in DOMAIN autoRuns :
       Scheduled(autoRuns[i]) => autoRuns[i].day <= config.scheduled
  /\ OneScheduledRun

(* The run that an open tick will add is of the day it found to be due, or *)
(* of the next one, and then it is not marked.                             *)
OpenTick ==
  /\ tick.at \in {"enqueue", "mark"} => tick.due \in 0..Today
  /\ tick.at # "mark" => tick.run = <<>>
  /\ tick.at = "mark" /\ tick.run # <<>> =>
       Len(tick.run) = 1 /\ tick.run[1].day \in tick.due..Today

ScheduleInv == RunTypes /\ MarkedDays /\ OpenTick

LEMMA ScheduleInvInit == ScheduleInit => ScheduleInv
<1> SUFFICES ASSUME ScheduleInit PROVE ScheduleInv
  OBVIOUS
<1>1. Today = 0 BY DEF ScheduleInit, Today
<1> QED BY <1>1 DEF ScheduleInit, ScheduleInv, RunTypes, MarkedDays, OneScheduledRun, OpenTick,
                    NoTick, Never, Configs

(* Time goes on, also in an open tick.                                     *)
LEMMA TodayGrows ==
  ASSUME time \in Nat, time' \in {time, time + 1}
  PROVE  Today \in Nat /\ Today' \in Nat /\ Today <= Today'
<1>1. ASSUME NEW n \in Nat PROVE n \div 2 \in Nat /\ n \div 2 <= (n + 1) \div 2
  OBVIOUS
<1>2. Today \in Nat BY <1>1 DEF Today
<1>3. CASE time' = time BY <1>2, <1>3 DEF Today
<1>4. CASE time' = time + 1
  <2>1. time + 1 \in Nat OBVIOUS
  <2>2. Today' \in Nat BY <1>1, <1>4, <2>1 DEF Today
  <2> QED BY <1>1, <1>2, <1>4, <2>2 DEF Today
<1> QED BY <1>3, <1>4

(* A step that leaves the runs, and the marks of the days, as they are.    *)
LEMMA ScheduleQuiet ==
  ASSUME ScheduleInv, RunTypes', OpenTick', autoRuns' = autoRuns,
         config'.scheduled = config.scheduled, time' \in {time, time + 1}
  PROVE  ScheduleInv'
<1>1. Today \in Nat /\ Today' \in Nat /\ Today <= Today'
  BY TodayGrows DEF ScheduleInv, RunTypes
<1>2. config.scheduled \in Nat \cup {-1} BY DEF ScheduleInv, RunTypes, Never, Configs
<1>3. config'.scheduled <= Today' BY <1>1, <1>2 DEF ScheduleInv, MarkedDays
<1>4. MarkedDays'
  BY <1>3 DEF ScheduleInv, MarkedDays, OneScheduledRun, Scheduled
<1> QED BY <1>4 DEF ScheduleInv

LEMMA NoTickTypes ==
  NoTick \in [at : {"closed", "swept", "due", "enqueue", "mark"}, due : Nat \cup {Never},
              sweeps : BOOLEAN, trash : SUBSET Reports, purge : SUBSET Reports,
              swept : Nat \cup {Never}, run : Seq(RunRows)]
BY DEF NoTick

(* A tick that adds no run marks no day.                                   *)
LEMMA CommitsNothing ==
  ASSUME ScheduleInv, tick.at # "mark", Commits(config.scheduled) PROVE ScheduleInv'
<1>1. tick.run = <<>> BY DEF ScheduleInv, OpenTick
<1>2. autoRuns' = autoRuns
  <2>1. autoRuns \in Seq(RunRows) /\ autoRuns' = autoRuns \o <<>>
    BY <1>1 DEF Commits, ScheduleInv, RunTypes
  <2> QED BY <2>1, ConcatEmptySeq
<1>3. config' \in Configs /\ config'.scheduled = config.scheduled
  BY DEF Commits, ScheduleInv, RunTypes, Configs
<1>4. tick' = NoTick /\ time' = time BY DEF Commits
<1>5. RunTypes' BY <1>2, <1>3, <1>4, NoTickTypes DEF ScheduleInv, RunTypes
<1>6. OpenTick' BY <1>4 DEF OpenTick, NoTick
<1> QED BY <1>2, <1>3, <1>4, <1>5, <1>6, ScheduleQuiet

(* The run of a tick is added on the day it was found to be due: Marks     *)
(* finds that day due still, so it has no run, and no earlier tick had.    *)
LEMMA MarksDay == ASSUME ScheduleInv, Marks PROVE ScheduleInv'
<1>1. /\ RunTypes /\ MarkedDays /\ OpenTick /\ tick.at = "mark" /\ tick' = NoTick /\ time' = time
      /\ autoRuns' = autoRuns \o tick.run /\ DueDay = tick.due
  BY DEF Marks, Commits, ScheduleInv, DueStill
<1>2. Today \in Nat /\ Today' = Today BY <1>1, TodayGrows DEF RunTypes, Today
<1>3. tick.due = Today /\ config.scheduled < Today
  <2>1. tick.due \in 0..Today BY <1>1 DEF OpenTick
  <2>2. tick.due # Never BY <1>2, <2>1 DEF Never
  <2>3. tick.due = Today /\ config.scheduled # Today BY <1>1, <2>2 DEF DueDay
  <2>4. config.scheduled \in Nat \cup {-1} /\ config.scheduled <= Today
    BY <1>1 DEF MarkedDays, RunTypes, Never, Configs
  <2> QED BY <1>2, <2>3, <2>4
<1>4. /\ config' \in Configs
      /\ config'.scheduled = Today
  BY <1>1, <1>2, <1>3 DEF Marks, Commits, RunTypes, Configs
<1>5. /\ autoRuns' \in Seq(RunRows) /\ Len(autoRuns) \in Nat
      /\ DOMAIN autoRuns = 1..Len(autoRuns)
      /\ DOMAIN autoRuns' = 1..(Len(autoRuns) + Len(tick.run))
      /\ \A i \in 1..Len(autoRuns) : autoRuns'[i] = autoRuns[i]
      /\ Len(tick.run) = 1 => autoRuns'[Len(autoRuns) + 1] = tick.run[1]
  <2>1. autoRuns \in Seq(RunRows) /\ tick.run \in Seq(RunRows) BY <1>1 DEF RunTypes
  <2>2. Len(autoRuns) \in Nat /\ Len(tick.run) \in Nat BY <2>1
  <2>3. autoRuns' \in Seq(RunRows) /\ Len(autoRuns') = Len(autoRuns) + Len(tick.run)
    BY <1>1, <2>1, ConcatProperties
  <2>4. \A i \in 1..Len(autoRuns) + Len(tick.run) :
          autoRuns'[i] = IF i <= Len(autoRuns) THEN autoRuns[i] ELSE tick.run[i - Len(autoRuns)]
    BY <1>1, <2>1, ConcatProperties
  <2>5. DOMAIN autoRuns = 1..Len(autoRuns) /\ DOMAIN autoRuns' = 1..Len(autoRuns')
    BY <2>1, <2>3
  <2> QED BY <2>2, <2>3, <2>4, <2>5
<1>6. tick.run = <<>> \/ (Len(tick.run) = 1 /\ tick.run[1].day = Today)
  <2>1. CASE tick.run # <<>>
    <3>1. Len(tick.run) = 1 /\ tick.run[1].day \in Today..Today
      BY <1>1, <1>3, <2>1 DEF OpenTick
    <3> QED BY <1>2, <3>1
  <2> QED BY <2>1
<1>7. \A i \in DOMAIN autoRuns' : i \in DOMAIN autoRuns \/ (i = Len(autoRuns) + 1 /\ Len(tick.run) = 1)
  <2>1. Len(tick.run) = 0 \/ Len(tick.run) = 1 BY <1>6
  <2>2. DOMAIN autoRuns' = 1..(Len(autoRuns) + Len(tick.run)) /\ Len(autoRuns) \in Nat
        /\ DOMAIN autoRuns = 1..Len(autoRuns)
    BY <1>5
  <2>3. CASE Len(tick.run) = 0 BY <2>2, <2>3
  <2>4. CASE Len(tick.run) = 1 BY <2>2, <2>4
  <2> QED BY <2>1, <2>3, <2>4
<1>8. \A i \in 1..Len(autoRuns) : Scheduled(autoRuns[i]) =>
        autoRuns[i].day \in Nat /\ autoRuns[i].day < Today
  <2> SUFFICES ASSUME NEW i \in 1..Len(autoRuns), Scheduled(autoRuns[i])
               PROVE  autoRuns[i].day \in Nat /\ autoRuns[i].day < Today
    OBVIOUS
  <2>1. autoRuns[i].day \in Nat /\ autoRuns[i].day <= config.scheduled
    <3>1. autoRuns \in Seq(RunRows) BY <1>1 DEF RunTypes
    <3>2. autoRuns[i] \in RunRows BY <3>1
    <3> QED BY <1>1, <1>5, <3>2 DEF MarkedDays, RunRows
  <2>2. config.scheduled \in Nat \cup {-1} BY <1>1 DEF RunTypes, Never, Configs
  <2> QED BY <1>2, <1>3, <2>1, <2>2
<1>9. MarkedDays'
  <2>1. \A i \in DOMAIN autoRuns' : Scheduled(autoRuns'[i]) => autoRuns'[i].day <= Today
    <3> SUFFICES ASSUME NEW i \in DOMAIN autoRuns', Scheduled(autoRuns'[i])
                 PROVE  autoRuns'[i].day <= Today
      OBVIOUS
    <3>1. CASE i \in DOMAIN autoRuns BY <1>2, <1>5, <1>8, <3>1
    <3>2. CASE i = Len(autoRuns) + 1 /\ Len(tick.run) = 1
      <4>1. autoRuns'[i].day = Today BY <1>5, <1>6, <3>2
      <4> QED BY <1>2, <4>1
    <3> QED BY <1>7, <3>1, <3>2
  <2>2. OneScheduledRun'
    <3> SUFFICES ASSUME NEW i \in DOMAIN autoRuns', NEW j \in DOMAIN autoRuns',
                        autoRuns'[i].trigger = "schedule", autoRuns'[j].trigger = "schedule",
                        autoRuns'[i].day = autoRuns'[j].day
                 PROVE  i = j
      BY DEF OneScheduledRun
    <3>1. CASE i \in DOMAIN autoRuns /\ j \in DOMAIN autoRuns
      BY <1>1, <1>5, <3>1 DEF MarkedDays, OneScheduledRun
    <3>2. CASE i \notin DOMAIN autoRuns /\ j \notin DOMAIN autoRuns BY <1>7, <3>2
    <3>3. ASSUME NEW h \in DOMAIN autoRuns', h \in DOMAIN autoRuns, Scheduled(autoRuns'[h])
          PROVE  autoRuns'[h].day # Today
      BY <1>2, <1>5, <1>8, <3>3
    <3>4. ASSUME NEW h \in DOMAIN autoRuns', h \notin DOMAIN autoRuns
          PROVE  autoRuns'[h].day = Today
      BY <1>5, <1>6, <1>7, <3>4
    <3>5. CASE i \in DOMAIN autoRuns <=> j \notin DOMAIN autoRuns
      BY <3>3, <3>4, <3>5 DEF Scheduled
    <3> QED BY <3>1, <3>2, <3>5
  <2>3. config'.scheduled <= Today' BY <1>2, <1>4
  <2> QED BY <1>4, <2>1, <2>2, <2>3 DEF MarkedDays, Scheduled
<1>10. RunTypes' BY <1>1, <1>4, <1>5, NoTickTypes DEF RunTypes
<1>11. OpenTick' BY <1>1 DEF OpenTick, NoTick
<1> QED BY <1>9, <1>10, <1>11 DEF ScheduleInv

(* Runs made by hand, and the end of a run.                                *)
LEMMA RunsByHand ==
  ASSUME ScheduleInv,
         \/ \E plan \in Plans, reuse \in BOOLEAN : RunNow(plan, reuse)
         \/ \E i \in DOMAIN autoRuns : RunOver(i)
  PROVE  ScheduleInv'
<1>0. RunTypes /\ MarkedDays /\ OpenTick /\ time' = time /\ config' = config /\ tick' = tick
  BY DEF RunNow, RunOver, ScheduleInv
<1>1. Today \in Nat /\ Today' = Today BY <1>0, TodayGrows DEF RunTypes, Today
<1>2. CASE \E plan \in Plans, reuse \in BOOLEAN : RunNow(plan, reuse)
  <2>1. PICK plan \in Plans, reuse \in BOOLEAN : RunNow(plan, reuse) BY <1>2
  <2>2. NewRun(plan, "manual") \in RunRows
    BY <1>1 DEF NewRun, RunRows
  <2>3. autoRuns' = Append(autoRuns, NewRun(plan, "manual")) BY <2>1 DEF RunNow
  <2>4. /\ autoRuns' \in Seq(RunRows)
        /\ \A i \in DOMAIN autoRuns' :
             \/ i \in DOMAIN autoRuns /\ autoRuns'[i] = autoRuns[i]
             \/ ~Scheduled(autoRuns'[i])
    <3>1. autoRuns \in Seq(RunRows) BY <1>0 DEF RunTypes
    <3>2. NewRun(plan, "manual").trigger = "manual" BY DEF NewRun
    <3> HIDE DEF NewRun
    <3> QED BY <2>2, <2>3, <3>1, <3>2 DEF Scheduled
  <2>5. RunTypes' BY <1>0, <2>4 DEF RunTypes
  <2>6. MarkedDays' BY <1>0, <1>1, <2>4 DEF MarkedDays, OneScheduledRun, Scheduled
  <2>7. OpenTick' BY <1>0, <1>1 DEF OpenTick
  <2> QED BY <2>5, <2>6, <2>7 DEF ScheduleInv
<1>3. CASE \E i \in DOMAIN autoRuns : RunOver(i)
  <2>1. PICK i \in DOMAIN autoRuns : RunOver(i) BY <1>3
  <2>2. PICK s \in {"succeeded", "ended badly"} : autoRuns' = [autoRuns EXCEPT ![i].status = s]
    BY <2>1 DEF RunOver
  <2> DEFINE run == [autoRuns[i] EXCEPT !.status = s]
  <2>a. autoRuns \in Seq(RunRows) /\ autoRuns[i] \in RunRows
    <3>1. autoRuns \in Seq(RunRows) BY <1>0 DEF RunTypes
    <3>2. i \in 1..Len(autoRuns) BY <2>1, <3>1, LenProperties
    <3> QED BY <3>1, <3>2, ElementOfSeq
  <2>b. run \in RunRows /\ run.day = autoRuns[i].day /\ run.trigger = autoRuns[i].trigger
    BY <2>a DEF RunRows
  <2>c. autoRuns' = [autoRuns EXCEPT ![i] = run] BY <2>2
  <2> HIDE DEF run
  <2>3. autoRuns' \in Seq(RunRows) /\ DOMAIN autoRuns' = DOMAIN autoRuns
    <3>1. i \in 1..Len(autoRuns) BY <2>1, <2>a, LenProperties
    <3>2. [autoRuns EXCEPT ![i] = run] \in Seq(RunRows) BY <2>a, <2>b, <3>1, ExceptSeq
    <3> QED BY <2>c, <3>2
  <2>4. \A h \in DOMAIN autoRuns :
          autoRuns'[h].day = autoRuns[h].day /\ autoRuns'[h].trigger = autoRuns[h].trigger
    BY <2>a, <2>b, <2>c
  <2>5. RunTypes' BY <1>0, <2>3 DEF RunTypes
  <2>6. MarkedDays' BY <1>0, <1>1, <2>3, <2>4 DEF MarkedDays, OneScheduledRun, Scheduled
  <2>7. OpenTick' BY <1>0, <1>1 DEF OpenTick
  <2> QED BY <2>5, <2>6, <2>7 DEF ScheduleInv
<1> QED BY <1>2, <1>3

(* The other steps of a tick.                                              *)
LEMMA TickSteps ==
  ASSUME ScheduleInv,
         \/ SweepBegins \/ SweepMarked \/ NothingIsDue \/ FindsDue \/ RollsBack
         \/ \E plan \in Plans : Enqueues(plan) \/ Defers(plan)
  PROVE  ScheduleInv'
<1>0. RunTypes /\ MarkedDays /\ OpenTick /\ tick.at \in {"closed", "swept", "due", "enqueue", "mark"}
  BY DEF ScheduleInv, RunTypes
<1>1. Today \in Nat
  <2>1. time \in Nat BY <1>0 DEF RunTypes
  <2>2. ASSUME NEW n \in Nat PROVE n \div 2 \in Nat OBVIOUS
  <2> QED BY <2>1, <2>2 DEF Today
<1>2. ASSUME UNCHANGED <<time, config, autoRuns>>, OpenTick',
             tick' \in [at : {"closed", "swept", "due", "enqueue", "mark"}, due : Nat \cup {Never},
                        sweeps : BOOLEAN, trash : SUBSET Reports, purge : SUBSET Reports,
                        swept : Nat \cup {Never}, run : Seq(RunRows)]
      PROVE  ScheduleInv'
  <2>1. RunTypes' BY <1>0, <1>2 DEF RunTypes
  <2> QED BY <1>2, <2>1, ScheduleQuiet
<1>3. CASE SweepBegins
  <2>1. Outlived \subseteq Reports /\ Expired \subseteq Reports BY DEF Outlived, Expired
  <2>2. CASE tick' = [NoTick EXCEPT !.at = "due"]
    <3>1. OpenTick' BY <2>2 DEF OpenTick, NoTick
    <3> QED BY <1>2, <1>3, <2>2, <3>1, NoTickTypes DEF SweepBegins
  <2>3. CASE tick' = [NoTick EXCEPT !.at = "swept", !.sweeps = TRUE,
                                    !.trash = Outlived, !.purge = Expired]
    <3>1. OpenTick' BY <2>3 DEF OpenTick, NoTick
    <3> QED BY <1>2, <1>3, <2>1, <2>3, <3>1, NoTickTypes DEF SweepBegins
  <2> QED BY <1>3, <2>2, <2>3 DEF SweepBegins
<1>4. CASE SweepMarked
  <2>1. tick' = [tick EXCEPT !.at = "due", !.swept = Today] BY <1>4 DEF SweepMarked
  <2>2. OpenTick' BY <1>0, <1>4, <2>1 DEF OpenTick, SweepMarked, RunTypes
  <2> QED BY <1>0, <1>1, <1>2, <1>4, <2>1, <2>2 DEF SweepMarked, RunTypes
<1>5. CASE NothingIsDue BY <1>5, CommitsNothing DEF NothingIsDue
<1>6. CASE FindsDue
  <2>1. tick' = [tick EXCEPT !.at = "enqueue", !.due = DueDay] BY <1>6 DEF FindsDue
  <2>2. DueDay = Today BY <1>6 DEF FindsDue, DueDay
  <2>3. Today' = Today BY <1>6 DEF FindsDue, Today
  <2>4. OpenTick' BY <1>0, <1>1, <1>6, <2>1, <2>2, <2>3 DEF OpenTick, FindsDue, RunTypes
  <2> QED BY <1>0, <1>1, <1>2, <1>6, <2>1, <2>2, <2>4 DEF FindsDue, RunTypes
<1>7. CASE RollsBack
  <2>1. OpenTick' BY <1>7 DEF RollsBack, OpenTick, NoTick
  <2> QED BY <1>2, <1>7, <2>1, NoTickTypes DEF RollsBack
<1>8. ASSUME NEW plan \in Plans, Enqueues(plan) PROVE ScheduleInv'
  <2> DEFINE run == IF Reusable(plan) # {} THEN <<>> ELSE <<NewRun(plan, "schedule")>>
  <2>1. tick' = [tick EXCEPT !.at = "mark", !.run = run] /\ tick.at = "enqueue"
    BY <1>8 DEF Enqueues
  <2>2. NewRun(plan, "schedule") \in RunRows /\ NewRun(plan, "schedule").day = Today
    BY <1>1 DEF NewRun, RunRows
  <2>3. run \in Seq(RunRows) /\ (run # <<>> => Len(run) = 1 /\ run[1].day = Today) BY <2>2
  <2>4. Today' = Today /\ tick.due \in 0..Today
    BY <1>0, <1>8 DEF Enqueues, Today, OpenTick
  <2> HIDE DEF run
  <2>5. tick'.at = "mark" /\ tick'.run = run /\ tick'.due = tick.due
    BY <1>0, <2>1 DEF RunTypes
  <2>6. OpenTick' BY <1>1, <2>3, <2>4, <2>5 DEF OpenTick
  <2> QED BY <1>0, <1>2, <1>8, <2>1, <2>3, <2>6 DEF Enqueues, RunTypes
<1>9. ASSUME NEW plan \in Plans, Defers(plan) PROVE ScheduleInv'
  BY <1>9, CommitsNothing DEF Defers
<1> QED BY <1>3, <1>4, <1>5, <1>6, <1>7, <1>8, <1>9

(* The clock, the switch of the schedule and what becomes of the reports.  *)
LEMMA OtherSteps ==
  ASSUME ScheduleInv,
         \/ Passing \/ Switch
         \/ \E r \in Reports : Discard(r) \/ TakeBack(r) \/ SetPin(r) \/ PurgeNow(r)
         \/ \E purge \in removals :
              RemovalEnds(purge) \/ \E r \in purge.scope : Removes(purge, r)
  PROVE  ScheduleInv'
<1>0. RunTypes /\ OpenTick BY DEF ScheduleInv
<1>1. autoRuns' = autoRuns /\ tick' = tick
  BY DEF Passing, Switch, Discard, TakeBack, Placed, SetPin, PurgeNow, RemovalEnds, Removes
<1>2. time' \in {time, time + 1}
  BY DEF Passing, Switch, Discard, TakeBack, Placed, SetPin, PurgeNow, RemovalEnds, Removes
<1>3. config' \in Configs /\ config'.scheduled = config.scheduled
  <2>1. CASE Switch BY <1>0, <2>1 DEF Switch, RunTypes, Configs
  <2>2. CASE config' = config BY <1>0, <2>2 DEF RunTypes
  <2> QED
    BY <2>1, <2>2 DEF Passing, Discard, TakeBack, Placed, SetPin, PurgeNow, RemovalEnds, Removes
<1>4. RunTypes' BY <1>0, <1>1, <1>2, <1>3 DEF RunTypes
<1>5. Today \in Nat /\ Today' \in Nat /\ Today <= Today' BY <1>0, <1>2, TodayGrows DEF RunTypes
<1>6. OpenTick'
  <2>1. tick.at \in {"enqueue", "mark"} => tick.due \in 0..Today' BY <1>0, <1>5 DEF OpenTick
  <2>2. tick.at = "mark" /\ tick.run # <<>> =>
          Len(tick.run) = 1 /\ tick.run[1].day \in tick.due..Today'
    <3> SUFFICES ASSUME tick.at = "mark", tick.run # <<>>
                 PROVE  Len(tick.run) = 1 /\ tick.run[1].day \in tick.due..Today'
      OBVIOUS
    <3>1. tick.due \in Nat /\ Len(tick.run) = 1 /\ tick.run[1].day \in tick.due..Today
      BY <1>0 DEF OpenTick
    <3> QED BY <1>5, <3>1
  <2> QED BY <1>0, <1>1, <2>1, <2>2 DEF OpenTick
<1> QED BY <1>1, <1>2, <1>3, <1>4, <1>6, ScheduleQuiet

LEMMA ScheduleInvNext == ScheduleInv /\ [ScheduleNext]_scheduleVars => ScheduleInv'
<1> SUFFICES ASSUME ScheduleInv, [ScheduleNext]_scheduleVars PROVE ScheduleInv'
  OBVIOUS
<1>1. CASE UNCHANGED scheduleVars
  BY <1>1 DEF scheduleVars, ScheduleInv, RunTypes, MarkedDays, OneScheduledRun, OpenTick, Today,
              Scheduled
<1>2. CASE Marks BY <1>2, MarksDay
<1>3. CASE \/ \E plan \in Plans, reuse \in BOOLEAN : RunNow(plan, reuse)
           \/ \E i \in DOMAIN autoRuns : RunOver(i)
  BY <1>3, RunsByHand
<1>4. CASE \/ SweepBegins \/ SweepMarked \/ NothingIsDue \/ FindsDue \/ RollsBack
           \/ \E plan \in Plans : Enqueues(plan) \/ Defers(plan)
  BY <1>4, TickSteps
<1>5. CASE \/ Passing \/ Switch
           \/ \E r \in Reports : Discard(r) \/ TakeBack(r) \/ SetPin(r) \/ PurgeNow(r)
           \/ \E purge \in removals :
                RemovalEnds(purge) \/ \E r \in purge.scope : Removes(purge, r)
  BY <1>5, OtherSteps
<1> QED BY <1>1, <1>2, <1>3, <1>4, <1>5 DEF ScheduleNext

(* The schedule creates at most one run in a day, for any number of days,  *)
(* runs, plans and reports, whichever worker ticks (DailyAutomationService *)
(* .tick): what a tick adds is of the day it marks.                        *)
THEOREM OneRunPerDay == ScheduleSpec => []OneScheduledRun
<1>1. ScheduleInv => OneScheduledRun BY DEF ScheduleInv, MarkedDays
<1> QED BY <1>1, ScheduleInvInit, ScheduleInvNext, PTL DEF ScheduleSpec

---------------------------------------------------------------------------
(* Reports in the trash.                                                   *)

PlaceTypes ==
  /\ time \in Int
  /\ retained \in [Reports -> [place : {"kept", "trash", "gone"}, expires : Int, pinned : BOOLEAN]]
  /\ tick.trash \subseteq Reports /\ tick.purge \subseteq Reports
  /\ \A purge \in removals : purge.scope \subseteq Reports

(* A report a purge of the schedule is to remove has expired, if it is in  *)
(* the trash; so has one that the open tick will hand to a purge, and it   *)
(* and those the tick will trash are in no purge yet.                      *)
ExpiredOnly ==
  /\ \A purge \in removals, r \in Reports :
       purge.trigger = "schedule" /\ r \in purge.scope /\ InTrash(r) => retained[r].expires <= time
  /\ \A r \in tick.purge : InTrash(r) /\ retained[r].expires <= time
  /\ \A r \in tick.trash : retained[r].place = "kept" /\ ~BeingPurged(r)

TrashInv == PlaceTypes /\ ExpiredOnly

LEMMA TrashInvInit == ScheduleInit => TrashInv
BY DEF ScheduleInit, TrashInv, PlaceTypes, ExpiredOnly, NoTick, Never

(* What a step may do to reports and purges, for those to stay sound.      *)
LEMMA TrashQuiet ==
  ASSUME TrashInv, PlaceTypes', time' \in {time, time + 1}, tick' = tick,
         \A purge \in removals' : purge \in removals \/ purge.trigger # "schedule",
         \A purge \in removals' \ removals : \A r \in purge.scope : r \notin tick.trash,
         \A r \in Reports :
           \/ retained'[r].place = retained[r].place /\ retained'[r].expires = retained[r].expires
           \/ /\ r \notin tick.trash /\ r \notin tick.purge
              /\ retained'[r].place = "trash" => ~BeingPurged(r) /\ removals' = removals
  PROVE  TrashInv'
<1>0. /\ PlaceTypes /\ ExpiredOnly /\ tick.trash \subseteq Reports /\ tick.purge \subseteq Reports
      /\ time <= time' /\ time \in Int /\ time' \in Int
  BY DEF TrashInv, PlaceTypes
<1>1. ASSUME NEW r \in Reports, retained[r].expires <= time PROVE retained[r].expires <= time'
  <2>1. retained[r].expires \in Int BY <1>0 DEF PlaceTypes
  <2> QED BY <1>0, <1>1, <2>1
<1>2. ASSUME NEW purge \in removals', NEW r \in Reports,
             purge.trigger = "schedule", r \in purge.scope, InTrash(r)'
      PROVE  retained'[r].expires <= time'
  <2>1. purge \in removals BY <1>2
  <2>2. BeingPurged(r) BY <1>2, <2>1 DEF BeingPurged
  <2>3. retained'[r].place = retained[r].place /\ retained'[r].expires = retained[r].expires
    BY <1>2, <2>2 DEF InTrash
  <2>4. retained[r].expires <= time BY <1>0, <1>2, <2>1, <2>3 DEF ExpiredOnly, InTrash
  <2> QED BY <1>1, <2>3, <2>4
<1>3. ASSUME NEW r \in tick.purge PROVE InTrash(r)' /\ retained'[r].expires <= time'
  <2>1. r \in Reports /\ InTrash(r) /\ retained[r].expires <= time BY <1>0, <1>3 DEF ExpiredOnly
  <2>2. retained'[r].place = retained[r].place /\ retained'[r].expires = retained[r].expires
    BY <1>3, <2>1
  <2> QED BY <1>1, <2>1, <2>2 DEF InTrash
<1>4. ASSUME NEW r \in tick.trash PROVE retained'[r].place = "kept" /\ ~BeingPurged(r)'
  <2>1. r \in Reports /\ retained[r].place = "kept" /\ ~BeingPurged(r)
    BY <1>0, <1>4 DEF ExpiredOnly
  <2> QED BY <1>4, <2>1 DEF BeingPurged
<1> QED BY <1>2, <1>3, <1>4 DEF TrashInv, ExpiredOnly

(* A tick that commits, or gives up, leaves no report locked.              *)
LEMMA TrashCommits ==
  ASSUME TrashInv, NEW scheduled, Commits(scheduled) PROVE TrashInv'
<1>0. /\ PlaceTypes /\ ExpiredOnly /\ time' = time /\ tick' = NoTick /\ Expires \in Int
  BY ScheduleAssumption DEF Commits, TrashInv, PlaceTypes, Expires
<1>1. /\ retained' = [r \in Reports |->
           IF r \in tick.trash THEN [retained[r] EXCEPT !.place = "trash", !.expires = Expires]
           ELSE retained[r]]
      /\ removals' = IF tick.purge = {} THEN removals
                     ELSE removals \cup {[scope |-> tick.purge, trigger |-> "schedule"]}
  BY DEF Commits, Sweeps
<1>2. \A purge \in removals' : purge \in removals \/ purge.scope = tick.purge
  <2>1. CASE tick.purge = {} BY <1>1, <2>1
  <2>2. CASE tick.purge # {}
    <3>1. removals' = removals \cup {[scope |-> tick.purge, trigger |-> "schedule"]}
      BY <1>1, <2>2
    <3> QED BY <3>1
  <2> QED BY <2>1, <2>2
<1>3. PlaceTypes'
  <2>1. retained' \in [Reports -> [place : {"kept", "trash", "gone"}, expires : Int, pinned : BOOLEAN]]
    BY <1>0, <1>1 DEF PlaceTypes
  <2>2. \A purge \in removals' : purge.scope \subseteq Reports BY <1>0, <1>2 DEF PlaceTypes
  <2> QED BY <1>0, <2>1, <2>2 DEF PlaceTypes, NoTick
<1>4. ASSUME NEW purge \in removals', NEW r \in Reports,
             purge.trigger = "schedule", r \in purge.scope, InTrash(r)'
      PROVE  retained'[r].expires <= time'
  <2>1. CASE r \in tick.purge
    <3>1. r \notin tick.trash BY <1>0, <2>1 DEF ExpiredOnly, InTrash
    <3> QED BY <1>0, <1>1, <2>1, <3>1 DEF ExpiredOnly
  <2>2. CASE r \notin tick.purge
    <3>1. purge \in removals BY <1>2, <1>4, <2>2
    <3>2. r \notin tick.trash BY <1>0, <1>4, <3>1 DEF ExpiredOnly, BeingPurged
    <3>3. retained'[r] = retained[r] BY <1>1, <3>2
    <3> QED BY <1>0, <1>4, <3>1, <3>3 DEF ExpiredOnly, InTrash
  <2> QED BY <2>1, <2>2
<1>5. tick'.trash = {} /\ tick'.purge = {} BY <1>0 DEF NoTick
<1> QED BY <1>3, <1>4, <1>5 DEF TrashInv, ExpiredOnly

(* Whatever a purge of the schedule removes has expired.                   *)
RemovesExpired ==
  \A purge \in removals, r \in Reports :
    /\ purge.trigger = "schedule" /\ r \in purge.scope
    /\ InTrash(r) /\ retained'[r].place = "gone"
    => retained[r].expires <= time

LEMMA TrashInvNext == ScheduleInv /\ TrashInv /\ [ScheduleNext]_scheduleVars => TrashInv'
<1> SUFFICES ASSUME ScheduleInv, TrashInv, [ScheduleNext]_scheduleVars PROVE TrashInv'
  OBVIOUS
<1>0. /\ PlaceTypes /\ ExpiredOnly /\ time \in Int /\ time + 1 \in Int
      /\ tick.trash \subseteq Reports /\ tick.purge \subseteq Reports
  BY DEF TrashInv, PlaceTypes
<1>1. ASSUME UNCHANGED <<retained, removals, tick>>, time' \in {time, time + 1} PROVE TrashInv'
  <2>1. PlaceTypes' BY <1>0, <1>1 DEF PlaceTypes
  <2> QED BY <1>1, <2>1, TrashQuiet
<1>2. CASE UNCHANGED scheduleVars BY <1>1, <1>2 DEF scheduleVars
<1>3. CASE Passing \/ Switch BY <1>1, <1>3 DEF Passing, Switch
<1>4. CASE SweepBegins
  <2>1. Outlived \subseteq Reports /\ Expired \subseteq Reports BY DEF Outlived, Expired
  <2>2. /\ \A r \in Outlived : retained[r].place = "kept" /\ ~BeingPurged(r)
        /\ \A r \in Expired : InTrash(r) /\ retained[r].expires <= time
    BY DEF Outlived, Expired, IsBusy
  <2>3. /\ tick'.trash \subseteq Outlived /\ tick'.purge \subseteq Expired
        /\ UNCHANGED <<time, retained, removals>>
    <3>1. CASE tick' = [NoTick EXCEPT !.at = "due"] BY <1>4, <3>1 DEF NoTick, SweepBegins
    <3>2. CASE tick' = [NoTick EXCEPT !.at = "swept", !.sweeps = TRUE,
                                      !.trash = Outlived, !.purge = Expired]
      BY <1>4, <3>2 DEF NoTick, SweepBegins
    <3> QED BY <1>4, <3>1, <3>2 DEF SweepBegins
  <2>4. PlaceTypes' BY <1>0, <2>1, <2>3 DEF PlaceTypes
  <2>5. ExpiredOnly' BY <1>0, <2>2, <2>3 DEF ExpiredOnly, InTrash, BeingPurged
  <2> QED BY <2>4, <2>5 DEF TrashInv
<1>5. ASSUME UNCHANGED <<time, retained, removals>>, tick'.trash = tick.trash, tick'.purge = tick.purge
      PROVE  TrashInv'
  BY <1>0, <1>5 DEF TrashInv, PlaceTypes, ExpiredOnly, InTrash, BeingPurged
<1>6. CASE SweepMarked \/ FindsDue \/ \E plan \in Plans : Enqueues(plan)
  <2>1. tick \in [at : {"closed", "swept", "due", "enqueue", "mark"}, due : Nat \cup {Never},
                  sweeps : BOOLEAN, trash : SUBSET Reports, purge : SUBSET Reports,
                  swept : Nat \cup {Never}, run : Seq(RunRows)]
    BY DEF ScheduleInv, RunTypes
  <2>2. tick'.trash = tick.trash /\ tick'.purge = tick.purge
    <3>1. CASE SweepMarked BY <2>1, <3>1 DEF SweepMarked
    <3>2. CASE FindsDue BY <2>1, <3>2 DEF FindsDue
    <3>3. ASSUME NEW plan \in Plans, Enqueues(plan)
          PROVE  tick'.trash = tick.trash /\ tick'.purge = tick.purge
      <4> DEFINE run == IF Reusable(plan) # {} THEN <<>> ELSE <<NewRun(plan, "schedule")>>
      <4>1. tick' = [tick EXCEPT !.at = "mark", !.run = run] BY <3>3 DEF Enqueues
      <4> HIDE DEF run
      <4> QED BY <2>1, <4>1
    <3> QED BY <1>6, <3>1, <3>2, <3>3
  <2> QED BY <1>5, <1>6, <2>2 DEF SweepMarked, FindsDue, Enqueues
<1>7. CASE NothingIsDue \/ Marks \/ \E plan \in Plans : Defers(plan)
  BY <1>7, TrashCommits DEF NothingIsDue, Marks, Defers
<1>8. CASE RollsBack
  <2>1. tick'.trash = {} /\ tick'.purge = {} BY <1>8 DEF RollsBack, NoTick
  <2>2. UNCHANGED <<time, retained, removals>> BY <1>8 DEF RollsBack
  <2> QED BY <1>0, <2>1, <2>2 DEF TrashInv, PlaceTypes, ExpiredOnly, InTrash, BeingPurged
<1>9. ASSUME NEW plan \in Plans, NEW reuse \in BOOLEAN, RunNow(plan, reuse) PROVE TrashInv'
  BY <1>1, <1>9 DEF RunNow
<1>10. ASSUME NEW i \in DOMAIN autoRuns, RunOver(i) PROVE TrashInv'
  BY <1>1, <1>10 DEF RunOver
<1>11. ASSUME NEW r \in Reports, NEW place \in {"kept", "trash", "gone"}, NEW expires \in Int,
              retained' = [retained EXCEPT ![r].place = place, ![r].expires = expires],
              UNCHANGED <<time, removals, tick>>, ~LockedRow(r),
              place = "trash" => ~BeingPurged(r)
       PROVE  TrashInv'
  <2>1. /\ retained' \in [Reports -> [place : {"kept", "trash", "gone"}, expires : Int, pinned : BOOLEAN]]
        /\ retained'[r].place = place
        /\ \A s \in Reports : s # r => retained'[s] = retained[s]
    BY <1>0, <1>11 DEF PlaceTypes
  <2>2. PlaceTypes' BY <1>0, <1>11, <2>1 DEF PlaceTypes
  <2> QED BY <1>11, <2>1, <2>2, TrashQuiet DEF LockedRow
<1>12. ASSUME NEW r \in Reports, Discard(r) \/ TakeBack(r) PROVE TrashInv'
  <2>1. Expires \in Int BY <1>0, ScheduleAssumption DEF Expires
  <2>2. Never \in Int BY DEF Never
  <2>3. CASE Discard(r) BY <1>11, <2>1, <2>3 DEF Discard, Placed, IsBusy
  <2>4. CASE TakeBack(r) BY <1>11, <2>2, <2>4 DEF TakeBack, Placed
  <2> QED BY <1>12, <2>3, <2>4
<1>13. ASSUME NEW r \in Reports, SetPin(r) PROVE TrashInv'
  <2>1. /\ retained' \in [Reports -> [place : {"kept", "trash", "gone"}, expires : Int, pinned : BOOLEAN]]
        /\ \A s \in Reports :
             retained'[s].place = retained[s].place /\ retained'[s].expires = retained[s].expires
    BY <1>0, <1>13 DEF SetPin, PlaceTypes
  <2>2. PlaceTypes' BY <1>0, <1>13, <2>1 DEF PlaceTypes, SetPin
  <2> QED BY <1>13, <2>1, <2>2, TrashQuiet DEF SetPin
<1>14. ASSUME NEW r \in Reports, PurgeNow(r) PROVE TrashInv'
  <2>1. UNCHANGED <<time, retained, tick>> /\ ~LockedRow(r)
    BY <1>14 DEF PurgeNow
  <2>2. removals' = removals \cup {[scope |-> {r}, trigger |-> "web"]} BY <1>14 DEF PurgeNow
  <2>3. PlaceTypes' BY <1>0, <2>1, <2>2 DEF PlaceTypes
  <2>4. \A purge \in removals' : purge \in removals \/ purge.trigger # "schedule" BY <2>2
  <2>5. \A purge \in removals' \ removals : \A s \in purge.scope : s \notin tick.trash
    BY <2>1, <2>2 DEF LockedRow
  <2> QED BY <2>1, <2>3, <2>4, <2>5, TrashQuiet
<1>15. ASSUME NEW purge \in removals, RemovalEnds(purge) PROVE TrashInv'
  <2>1. UNCHANGED <<time, retained, tick>> /\ removals' \subseteq removals
    BY <1>15 DEF RemovalEnds
  <2>2. PlaceTypes' BY <1>0, <2>1 DEF PlaceTypes
  <2> QED BY <2>1, <2>2, TrashQuiet
<1>16. ASSUME NEW purge \in removals, NEW r \in purge.scope, Removes(purge, r) PROVE TrashInv'
  <2>1. r \in Reports BY <1>0 DEF PlaceTypes
  <2>2. retained[r].expires \in Int BY <1>0, <2>1 DEF PlaceTypes
  <2>3. retained' = [retained EXCEPT ![r].place = "gone"] BY <1>16 DEF Removes
  <2>4. retained' = [retained EXCEPT ![r].place = "gone", ![r].expires = retained[r].expires]
    BY <1>0, <2>1, <2>3 DEF PlaceTypes
  <2> QED BY <1>11, <1>16, <2>1, <2>2, <2>4 DEF Removes
<1> QED BY <1>2, <1>3, <1>4, <1>6, <1>7, <1>8, <1>9, <1>10, <1>12, <1>13, <1>14, <1>15, <1>16
        DEF ScheduleNext

(* The purge of a report that the schedule asked for removes it only once  *)
(* its time in the trash is over (_sweep_retention and the purge handler,  *)
(* which does not look at purge_after): a report that was taken back is    *)
(* not trashed again while its purge is under way.                         *)
THEOREM ExpiredFirst == ScheduleSpec => OnlyExpired
<1>1. TrashInv /\ [ScheduleNext]_scheduleVars => [RemovesExpired]_scheduleVars
  <2> SUFFICES ASSUME TrashInv, [ScheduleNext]_scheduleVars PROVE RemovesExpired
    OBVIOUS
  <2> SUFFICES ASSUME NEW purge \in removals, NEW r \in Reports, purge.trigger = "schedule",
                      r \in purge.scope, InTrash(r), retained'[r].place = "gone"
               PROVE  retained[r].expires <= time
    BY DEF RemovesExpired
  <2> QED BY DEF TrashInv, ExpiredOnly
<1>2. ScheduleSpec => [][RemovesExpired]_scheduleVars
  BY <1>1, ScheduleInvInit, ScheduleInvNext, TrashInvInit, TrashInvNext, PTL DEF ScheduleSpec
<1> QED BY <1>2, PTL DEF OnlyExpired, RemovesExpired

---------------------------------------------------------------------------
(* The audio of a report.                                                  *)

PurgeJobs == Purges \X Attempts

LEMMA JobKinds ==
  /\ Jobs = Mp3s \cup PurgeJobs /\ Mp3s \cap PurgeJobs = {} /\ Jobs \ Mp3s = PurgeJobs
  /\ \A j \in Jobs : j = <<j[1], j[2]>> /\ j[1] \in Operations /\ j[2] \in Attempts
  /\ \A j \in Mp3s : j[1] \in Audios
  /\ \A j \in PurgeJobs : j[1] \in Purges
BY AudioAssumption DEF Jobs, Mp3s, PurgeJobs, Operations

OperationTypes ==
  /\ status \in [Operations -> {"absent", "queued", "running", "succeeded", "failed", "cancelled"}]
  /\ attempts \in [Operations -> 0..MaxAttempts]
  /\ cancel \in [Operations -> BOOLEAN]

AudioTypes == OperationTypes /\ AudioTypeOK /\ todo \in [Jobs -> Seq(Mp3s)]

Unstarted == {"none", "starting", "reading", "inserting"}
Making == {"speaking", "writing", "written", "publishing", "unlinking", "failing"}

(* The row and the file of an attempt agree with the step of its handler:  *)
(* nothing is there before it inserts the row, the row is running until it *)
(* has written the verdict, and a whole file is that of a row which is     *)
(* running or succeeded, or is queued for the purge.                       *)
Track(f) ==
  /\ handlerAt[f] \in Unstarted \cup Making \cup {"over", "returned"}
  /\ handlerAt[f] \in Unstarted => artifact[f] = "none" /\ file[f] = "none"
  /\ handlerAt[f] \in Making => artifact[f] = "running"
  /\ handlerAt[f] \in {"written", "publishing"} => file[f] = "whole"
  /\ handlerAt[f] \in {"speaking", "writing", "unlinking", "failing"} => file[f] # "whole"
  /\ artifact[f] = "succeeded" => file[f] = "whole"
  /\ file[f] = "whole" => artifact[f] \in {"running", "succeeded"} \/ f \in purgeQueue
  /\ f \in purgeQueue => artifact[f] = "deleted"

(* Once the report is purged none of its rows is left, and none is made.   *)
NoRowsLeft == report = "purged" => \A f \in Mp3s : artifact[f] \in {"none", "deleted"}

Clean == report = "purged" /\ \A f \in Mp3s : file[f] # "whole"

Queued(j, f) == \E i \in 1..Len(todo[j]) : todo[j][i] = f

(* A purge handler that removes files has all of them in its list, and     *)
(* only files of deleted rows; it takes from the queue what is gone.       *)
Cleaning(j) ==
  /\ \A i \in 1..Len(todo[j]) : artifact[todo[j][i]] = "deleted"
  /\ handlerAt[j] \in {"listing", "cleaning", "dequeuing"} => report = "purged"
  /\ handlerAt[j] \in {"cleaning", "dequeuing"} => \A f \in Mp3s : file[f] = "whole" => Queued(j, f)
  /\ handlerAt[j] = "dequeuing" => todo[j] # <<>> /\ file[Head(todo[j])] # "whole"
  /\ outcome[j] = "succeeded" => Clean

SuccessIsClean == \A o \in Purges : status[o] = "succeeded" => Clean
NotYetStarted == \A j \in Jobs : j[2] > attempts[j[1]] => handlerAt[j] = "none"

AudioInv ==
  /\ AudioTypes /\ NoRowsLeft /\ SuccessIsClean /\ NotYetStarted
  /\ \A f \in Mp3s : Track(f)
  /\ \A j \in PurgeJobs : Cleaning(j)

LEMMA AudioInvInit == AudioInit => AudioInv
<1> SUFFICES ASSUME AudioInit PROVE AudioInv
  OBVIOUS
<1>1. OperationTypes BY AudioAssumption DEF AudioInit, Queue!ContractInit, OperationTypes
<1>2. AudioTypeOK BY AudioAssumption DEF AudioInit, AudioTypeOK, Steps, Outcomes
<1>3. todo = [j \in Jobs |-> <<>>] /\ todo \in [Jobs -> Seq(Mp3s)] BY DEF AudioInit
<1>4. NoRowsLeft BY DEF AudioInit, NoRowsLeft
<1>5. SuccessIsClean BY DEF AudioInit, Queue!ContractInit, SuccessIsClean, Operations
<1>6. NotYetStarted BY DEF AudioInit, NotYetStarted
<1>7. ASSUME NEW f \in Mp3s PROVE Track(f)
  <2>1. f \in Jobs BY JobKinds
  <2> QED BY <2>1 DEF AudioInit, Track, Unstarted, Making
<1>8. ASSUME NEW j \in PurgeJobs PROVE Cleaning(j)
  <2>1. j \in Jobs BY JobKinds
  <2>2. todo[j] = <<>> /\ handlerAt[j] = "none" /\ outcome[j] = "none" BY <1>3, <2>1 DEF AudioInit
  <2> QED BY <2>2 DEF Cleaning
<1> QED BY <1>1, <1>2, <1>3, <1>4, <1>5, <1>6, <1>7, <1>8 DEF AudioInv, AudioTypes

(* What an operation may come to without any verdict for a purge.          *)
LEMMA OperationFacts ==
  ASSUME OperationTypes, NEW o \in Operations,
         \/ Queue!Submit(o) \/ Queue!AskCancel(o) \/ Queue!GiveBack(o)
         \/ \E v \in {"succeeded", "failed", "cancelled"} : Queue!Decide(o, v)
  PROVE  /\ OperationTypes' /\ attempts' = attempts
         /\ \A p \in Operations :
              status'[p] = "succeeded" => status[p] = "succeeded" \/ (p = o /\ Queue!Decide(o, "succeeded"))
<1>1. CASE Queue!Submit(o) BY <1>1 DEF Queue!Submit, OperationTypes
<1>2. CASE Queue!AskCancel(o) BY <1>2 DEF Queue!AskCancel, OperationTypes
<1>3. CASE Queue!GiveBack(o) BY <1>3 DEF Queue!GiveBack, OperationTypes
<1>4. ASSUME NEW v \in {"succeeded", "failed", "cancelled"}, Queue!Decide(o, v)
      PROVE  /\ OperationTypes' /\ attempts' = attempts
             /\ \A p \in Operations :
                  status'[p] = "succeeded" =>
                    status[p] = "succeeded" \/ (p = o /\ Queue!Decide(o, "succeeded"))
  <2>1. CASE v = "succeeded" BY <1>4, <2>1 DEF Queue!Decide, OperationTypes
  <2>2. CASE v # "succeeded" BY <1>4, <2>2 DEF Queue!Decide, OperationTypes
  <2> QED BY <2>1, <2>2
<1> QED BY <1>1, <1>2, <1>3, <1>4

(* finish_attempt: it succeeds only if the handler returned success.       *)
LEMMA ConcludeFacts ==
  ASSUME OperationTypes, NEW j \in Jobs, NEW result \in Outcomes, Conclude(j, result)
  PROVE  /\ OperationTypes' /\ attempts' = attempts
         /\ \A p \in Operations :
              status'[p] = "succeeded" => status[p] = "succeeded" \/ (p = j[1] /\ result = "succeeded")
<1>0. j[1] \in Operations /\ j[2] \in Attempts BY JobKinds
<1>1. \/ UNCHANGED operation \/ Queue!Decide(j[1], "cancelled") \/ Queue!GiveBack(j[1])
      \/ Queue!Decide(j[1], "failed") \/ (result = "succeeded" /\ Queue!Decide(j[1], "succeeded"))
  <2>1. CASE ~Current(j) BY <2>1 DEF Conclude
  <2>2. CASE Current(j) /\ cancel[j[1]] BY <2>2 DEF Conclude
  <2>3. CASE Current(j) /\ ~cancel[j[1]] /\ result = "error" /\ j[2] < MaxAttempts
    BY <2>3 DEF Conclude
  <2>4. CASE Current(j) /\ ~cancel[j[1]] /\ (result # "error" \/ j[2] = MaxAttempts)
    <3>1. CASE result = "succeeded" BY <2>4, <3>1 DEF Conclude
    <3>2. CASE result # "succeeded" BY <2>4, <3>2, <1>0 DEF Conclude
    <3> QED BY <3>1, <3>2
  <2> QED BY <1>0, <2>1, <2>2, <2>3, <2>4, AudioAssumption DEF Attempts
<1>2. CASE UNCHANGED operation BY <1>2 DEF operation, OperationTypes
<1>3. CASE Queue!Decide(j[1], "cancelled") \/ Queue!Decide(j[1], "failed")
  BY <1>0, <1>3 DEF Queue!Decide, OperationTypes
<1>4. CASE Queue!GiveBack(j[1]) BY <1>0, <1>4, OperationFacts DEF Queue!Decide, Queue!GiveBack, OperationTypes
<1>5. CASE result = "succeeded" /\ Queue!Decide(j[1], "succeeded")
  BY <1>0, <1>5, OperationFacts
<1> QED BY <1>1, <1>2, <1>3, <1>4, <1>5

(* A step that touches no row, file or list, and no verdict of a purge.    *)
LEMMA AudioQuiet ==
  ASSUME AudioInv, AudioTypes', UNCHANGED <<artifact, purgeQueue, file, todo>>,
         report' = "purged" <=> report = "purged", attempts' = attempts,
         \A o \in Purges : status'[o] = "succeeded" => status[o] = "succeeded" \/ Clean,
         \A j \in PurgeJobs : outcome'[j] = "succeeded" => outcome[j] = "succeeded" \/ Clean,
         \A j \in Jobs : handlerAt[j] = "none" => handlerAt'[j] = "none",
         \A f \in Mp3s : handlerAt'[f] = handlerAt[f] \/ Track(f)',
         \A j \in PurgeJobs :
           handlerAt'[j] = handlerAt[j] \/ handlerAt'[j] \in {"over", "returned", "purging"}
  PROVE  AudioInv'
<1>1. Clean' <=> Clean BY DEF Clean
<1>2. NoRowsLeft' BY DEF AudioInv, NoRowsLeft
<1>3. SuccessIsClean' BY <1>1 DEF AudioInv, SuccessIsClean
<1>4. NotYetStarted' BY DEF AudioInv, NotYetStarted
<1>5. ASSUME NEW f \in Mp3s PROVE Track(f)' BY <1>5 DEF AudioInv, Track
<1>6. ASSUME NEW j \in PurgeJobs PROVE Cleaning(j)'
  BY <1>1, <1>6 DEF AudioInv, Cleaning, Queued
<1> QED BY <1>2, <1>3, <1>4, <1>5, <1>6 DEF AudioInv

(* Requests, and the way of the report to the trash and back.              *)
LEMMA RequestSteps ==
  ASSUME AudioInv,
         \/ \E o \in Audios : EnqueueAudio(o)
         \/ \E o \in Purges : EnqueuePurge(o)
         \/ \E o \in Operations : Retry(o) \/ RequestCancel(o)
         \/ MoveToTrash \/ SweepRead \/ SweepTrash \/ Restore
  PROVE  AudioInv'
<1>0. AudioTypes /\ OperationTypes BY DEF AudioInv, AudioTypes
<1>1. ASSUME AudioTypes', UNCHANGED <<artifact, purgeQueue, file, todo, handlerAt, outcome, attempts>>,
             report' = "purged" <=> report = "purged",
             \A o \in Operations : status'[o] = "succeeded" => status[o] = "succeeded"
      PROVE  AudioInv'
  BY <1>1, AudioQuiet DEF Operations
<1>2. ASSUME NEW o \in Operations, Queue!Submit(o), faults' = faults, copies' \subseteq Purges,
             UNCHANGED <<rows, file, handlerAt, outcome, todo, swept>>
      PROVE  AudioInv'
  <2>1. /\ OperationTypes' /\ attempts' = attempts
        /\ \A p \in Operations : status'[p] = "succeeded" => status[p] = "succeeded"
    BY <1>0, <1>2 DEF Queue!Submit, OperationTypes
  <2>2. AudioTypes' BY <1>0, <1>2, <2>1 DEF AudioTypes, AudioTypeOK, rows
  <2> QED BY <1>1, <1>2, <2>1, <2>2 DEF rows
<1>3. ASSUME NEW o \in Audios, EnqueueAudio(o) PROVE AudioInv'
  BY <1>0, <1>2, <1>3 DEF EnqueueAudio, Operations, handler, AudioTypes, AudioTypeOK
<1>4. ASSUME NEW o \in Purges, EnqueuePurge(o) PROVE AudioInv'
  BY <1>0, <1>2, <1>4 DEF EnqueuePurge, Operations, handler, AudioTypes, AudioTypeOK
<1>5. ASSUME NEW o \in Operations, Retry(o) PROVE AudioInv'
  BY <1>0, <1>2, <1>5 DEF Retry, AudioTypes, AudioTypeOK
<1>6. ASSUME NEW o \in Operations, RequestCancel(o) PROVE AudioInv'
  <2>1. /\ OperationTypes' /\ attempts' = attempts
        /\ \A p \in Operations : status'[p] = "succeeded" => status[p] = "succeeded"
    BY <1>0, <1>6 DEF RequestCancel, Queue!AskCancel, OperationTypes
  <2>2. AudioTypes'
    BY <1>0, <1>6, <2>1, AudioAssumption DEF RequestCancel, AudioTypes, AudioTypeOK, rows, handler
  <2> QED BY <1>1, <1>6, <2>1, <2>2 DEF RequestCancel, rows, handler
<1>7. CASE MoveToTrash \/ SweepRead \/ SweepTrash \/ Restore
  <2>1. /\ UNCHANGED <<operation, faults, artifact, purgeQueue, file, handler>>
        /\ report' = "purged" <=> report = "purged"
        /\ report' \in {"live", "trash", "purged"} /\ swept' \in {"no", "free", "done"}
    BY <1>0, <1>7
       DEF MoveToTrash, SweepRead, SweepTrash, Restore, rows, AudioTypes, AudioTypeOK
  <2>2. AudioTypes'
    BY <1>0, <2>1 DEF AudioTypes, AudioTypeOK, OperationTypes, operation, handler
  <2> QED BY <1>1, <2>1, <2>2 DEF operation, handler
<1> QED BY <1>3, <1>4, <1>5, <1>6, <1>7

(* A handler that starts, stops, or is told to go on.                      *)
LEMMA AttemptSteps ==
  ASSUME AudioInv, NEW j \in Jobs, Start(j) \/ Finish(j) \/ MonitorError(j) \/ Die(j)
  PROVE  AudioInv'
<1>0. AudioTypes /\ OperationTypes /\ AudioTypeOK BY DEF AudioInv, AudioTypes
<1>1. CASE Start(j)
  <2>0. /\ UNCHANGED <<operation, faults, rows, file, todo, copies, swept>>
        /\ handlerAt[j] = "starting"
    BY <1>1 DEF Start
  <2>1. \E s \in {"returned", "reading", "purging"}, r \in Outcomes \ {"succeeded"} :
          /\ handlerAt' = [handlerAt EXCEPT ![j] = s]
          /\ outcome' = outcome \/ outcome' = [outcome EXCEPT ![j] = r]
          /\ s = "reading" => j \in Mp3s
          /\ j \in Mp3s => s # "purging"
    <3>1. CASE Returns(j, "failed") BY <3>1 DEF Returns, Outcomes
    <3>2. CASE Returns(j, "cancelled") BY <3>2 DEF Returns, Outcomes
    <3>3. CASE GoesOn(j, IF j \in Mp3s THEN "reading" ELSE "purging")
      <4>1. CASE j \in Mp3s BY <3>3, <4>1 DEF GoesOn, Outcomes
      <4>2. CASE j \notin Mp3s BY <3>3, <4>2 DEF GoesOn, Outcomes
      <4> QED BY <4>1, <4>2
    <3> QED BY <1>1, <3>1, <3>2, <3>3 DEF Start
  <2>2. PICK s \in {"returned", "reading", "purging"}, r \in Outcomes \ {"succeeded"} :
          /\ handlerAt' = [handlerAt EXCEPT ![j] = s]
          /\ outcome' = outcome \/ outcome' = [outcome EXCEPT ![j] = r]
          /\ s = "reading" => j \in Mp3s
          /\ j \in Mp3s => s # "purging"
    BY <2>1
  <2>3. /\ handlerAt' \in [Jobs -> Steps] /\ outcome' \in [Jobs -> Outcomes]
        /\ handlerAt'[j] = s /\ \A i \in Jobs : i # j => handlerAt'[i] = handlerAt[i]
        /\ \A i \in Jobs : outcome'[i] = "succeeded" => outcome[i] = "succeeded"
    BY <1>0, <2>2 DEF AudioTypeOK, Steps
  <2>4. AudioTypes'
    BY <1>0, <2>0, <2>3 DEF AudioTypes, AudioTypeOK, OperationTypes, operation, rows
  <2>5. \A f \in Mp3s : handlerAt'[f] = handlerAt[f] \/ Track(f)'
    BY <2>0, <2>2, <2>3, JobKinds DEF AudioInv, Track, Unstarted, Making, rows
  <2> QED BY <2>0, <2>2, <2>3, <2>4, <2>5, AudioQuiet, JobKinds DEF operation, rows
<1>2. CASE MonitorError(j)
  <2>0. /\ UNCHANGED <<rows, file, handler, swept>> /\ faults' = faults + 1 /\ faults < MaxFaults
        /\ Conclude(j, "error") /\ "error" \in Outcomes
    BY <1>2 DEF MonitorError, Outcomes
  <2>1. /\ OperationTypes' /\ attempts' = attempts
        /\ \A p \in Operations : status'[p] = "succeeded" => status[p] = "succeeded"
    BY <1>0, <2>0, ConcludeFacts
  <2>2. AudioTypes'
    BY <1>0, <2>0, <2>1, AudioAssumption DEF AudioTypes, AudioTypeOK, rows, handler
  <2> QED BY <2>0, <2>1, <2>2, AudioQuiet DEF rows, handler, Operations
<1>3. CASE Finish(j) \/ Die(j)
  <2>0. /\ UNCHANGED <<rows, file, copies, swept>>
        /\ handlerAt' = [handlerAt EXCEPT ![j] = "over"] /\ handlerAt[j] \notin {"none", "over"}
        /\ outcome' = [outcome EXCEPT ![j] = "none"] /\ faults' \in 0..MaxFaults
    BY <1>0, <1>3, AudioAssumption DEF Finish, Die, HandlerAlive, AudioTypeOK
  <2>1. /\ handlerAt' \in [Jobs -> Steps] /\ outcome' \in [Jobs -> Outcomes]
        /\ handlerAt'[j] = "over" /\ \A i \in Jobs : i # j => handlerAt'[i] = handlerAt[i]
        /\ outcome'[j] = "none" /\ \A i \in Jobs : i # j => outcome'[i] = outcome[i]
    BY <1>0, <2>0 DEF AudioTypeOK, Steps, Outcomes
  <2>2. /\ OperationTypes' /\ attempts' = attempts
        /\ \A p \in Operations : status'[p] = "succeeded" =>
             status[p] = "succeeded" \/ (p = j[1] /\ outcome[j] = "succeeded")
    <3>1. CASE Die(j) BY <1>0, <3>1 DEF Die, operation, OperationTypes
    <3>2. CASE Finish(j)
      <4>1. outcome[j] \in Outcomes /\ Conclude(j, outcome[j])
        BY <1>0, <3>2 DEF Finish, AudioTypeOK
      <4> QED BY ONLY <1>0, <4>1, j \in Jobs, ConcludeFacts
    <3> QED BY <1>3, <3>1, <3>2
  <2>3. /\ todo' \in [Jobs -> Seq(Mp3s)] /\ \A i \in Jobs : i # j => todo'[i] = todo[i]
        /\ todo'[j] \in {<<>>, todo[j]}
    <3>1. CASE Die(j) BY <1>0, <3>1 DEF Die, AudioTypes
    <3>2. CASE Finish(j) BY <1>0, <3>2 DEF Finish, AudioTypes
    <3> QED BY <1>3, <3>1, <3>2
  <2>4. AudioTypes' BY <1>0, <2>0, <2>1, <2>2, <2>3 DEF AudioTypes, AudioTypeOK, rows
  <2>5. Clean' <=> Clean BY <2>0 DEF Clean, rows
  <2>6. NoRowsLeft' BY <2>0 DEF AudioInv, NoRowsLeft, rows
  <2>7. SuccessIsClean'
    <3> SUFFICES ASSUME NEW o \in Purges, status'[o] = "succeeded" PROVE Clean
      BY <2>5 DEF SuccessIsClean
    <3>1. o \in Operations BY DEF Operations
    <3>2. CASE status[o] = "succeeded" BY <3>2 DEF AudioInv, SuccessIsClean
    <3>3. CASE o = j[1] /\ outcome[j] = "succeeded"
      <4>1. j \in PurgeJobs BY <3>3, JobKinds DEF PurgeJobs
      <4> QED BY <3>3, <4>1 DEF AudioInv, Cleaning
    <3> QED BY <2>2, <3>1, <3>2, <3>3
  <2>8. NotYetStarted' BY <2>0, <2>1, <2>2 DEF AudioInv, NotYetStarted
  <2>9. ASSUME NEW f \in Mp3s PROVE Track(f)'
    BY <2>0, <2>1, <2>9, JobKinds DEF AudioInv, Track, Unstarted, Making, rows
  <2>10. ASSUME NEW i \in PurgeJobs PROVE Cleaning(i)'
    <3>1. CASE i # j
      <4>1. i \in Jobs BY JobKinds
      <4>2. todo'[i] = todo[i] /\ handlerAt'[i] = handlerAt[i] /\ outcome'[i] = outcome[i]
        BY <2>1, <2>3, <3>1, <4>1
      <4> QED BY <2>0, <2>5, <4>2 DEF AudioInv, Cleaning, Queued, rows
    <3>2. CASE i = j BY <2>0, <2>1, <2>3, <3>2, JobKinds DEF AudioInv, Cleaning, rows
    <3> QED BY <3>1, <3>2
  <2> QED BY <2>4, <2>6, <2>7, <2>8, <2>9, <2>10 DEF AudioInv
<1> QED BY <1>1, <1>2, <1>3

(* A lease, or the reclaim of one, starts the handler of the next attempt. *)
LEMMA LeaseStep == ASSUME AudioInv, NEW o \in Operations, Lease(o) PROVE AudioInv'
<1>0. AudioTypes /\ OperationTypes /\ AudioTypeOK BY DEF AudioInv, AudioTypes
<1>1. /\ Queue!Begin(o) /\ attempts[o] < MaxAttempts
      /\ UNCHANGED <<rows, file, outcome, todo, copies, swept>>
  BY DEF Lease, Queue!Begin
<1>2. /\ OperationTypes' /\ attempts' = [attempts EXCEPT ![o] = @ + 1]
      /\ \A p \in Operations : status'[p] = "succeeded" => status[p] = "succeeded"
  BY <1>0, <1>1, AudioAssumption DEF Queue!Begin, OperationTypes
<1>3. PICK n \in Attempts : n = attempts[o] + 1 /\ attempts'[o] = n
  BY <1>0, <1>1, <1>2, AudioAssumption DEF OperationTypes, Attempts
<1> DEFINE j == <<o, n>>
<1>4. j \in Jobs /\ j[1] = o /\ j[2] = n /\ handlerAt' = [handlerAt EXCEPT ![j] = "starting"]
  BY <1>3 DEF Jobs, Lease
<1>5. handlerAt[j] = "none"
  BY <1>0, <1>3, <1>4, AudioAssumption DEF AudioInv, NotYetStarted, OperationTypes
<1> HIDE DEF j
<1>6. /\ handlerAt' \in [Jobs -> Steps] /\ handlerAt'[j] = "starting"
      /\ \A i \in Jobs : i # j => handlerAt'[i] = handlerAt[i]
  BY <1>0, <1>4 DEF AudioTypeOK, Steps
<1>7. faults' \in 0..MaxFaults
  BY <1>0, AudioAssumption DEF Lease, AudioTypeOK
<1>8. AudioTypes' BY <1>0, <1>1, <1>2, <1>6, <1>7 DEF AudioTypes, AudioTypeOK, rows
<1>9. Clean' <=> Clean BY <1>1 DEF Clean, rows
<1>10. NoRowsLeft' /\ SuccessIsClean'
  BY <1>1, <1>2, <1>9 DEF AudioInv, NoRowsLeft, SuccessIsClean, rows, Operations
<1>11. NotYetStarted'
  <2> SUFFICES ASSUME NEW i \in Jobs, i[2] > attempts'[i[1]] PROVE handlerAt'[i] = "none"
    BY DEF NotYetStarted
  <2>1. i[1] \in Operations /\ i[2] \in Attempts BY JobKinds
  <2>2. i # j BY <1>3, <1>4 DEF Attempts
  <2>3. i[2] > attempts[i[1]]
    BY <1>0, <1>2, <2>1, AudioAssumption DEF OperationTypes, Attempts
  <2> QED BY <1>6, <2>2, <2>3 DEF AudioInv, NotYetStarted
<1>12. ASSUME NEW f \in Mp3s PROVE Track(f)'
  <2>1. f \in Jobs BY JobKinds
  <2>2. CASE f = j BY <1>1, <1>5, <1>6, <2>2 DEF AudioInv, Track, Unstarted, Making, rows
  <2>3. CASE f # j BY <1>1, <1>6, <2>1, <2>3 DEF AudioInv, Track, rows
  <2> QED BY <2>2, <2>3
<1>13. ASSUME NEW i \in PurgeJobs PROVE Cleaning(i)'
  <2>1. i \in Jobs BY JobKinds
  <2> QED BY <1>1, <1>6, <1>9, <2>1 DEF AudioInv, Cleaning, Queued, rows
<1> QED BY <1>8, <1>10, <1>11, <1>12, <1>13 DEF AudioInv

(* A step of the handler of an attempt at its own row and file.            *)
LEMMA OwnStep ==
  ASSUME AudioInv, NEW j \in Mp3s, NEW s \in Making \cup {"returned", "inserting"},
         handlerAt' = [handlerAt EXCEPT ![j] = s], handlerAt[j] # "none",
         outcome' \in [Jobs -> Outcomes], \A i \in PurgeJobs : outcome'[i] = outcome[i],
         artifact' \in [Mp3s -> {"none", "running", "succeeded", "failed", "deleted"}],
         file' \in [Mp3s -> {"none", "partial", "whole"}],
         \A f \in Mp3s : f # j => artifact'[f] = artifact[f] /\ file'[f] = file[f],
         UNCHANGED <<operation, faults, report, purgeQueue, todo, copies, swept>>,
         Track(j)', artifact[j] = "deleted" => artifact'[j] = "deleted",
         report = "purged" => artifact'[j] = artifact[j] /\ file'[j] # "whole"
  PROVE  AudioInv'
<1>0. /\ AudioTypes /\ AudioTypeOK /\ NoRowsLeft /\ SuccessIsClean /\ NotYetStarted
      /\ \A i \in PurgeJobs : Cleaning(i)
  BY DEF AudioInv, AudioTypes
<1>1. /\ handlerAt' \in [Jobs -> Steps] /\ handlerAt'[j] = s
      /\ \A i \in Jobs : i # j => handlerAt'[i] = handlerAt[i]
  BY <1>0, JobKinds DEF AudioTypeOK, Steps, Making
<1>2. AudioTypes'
  BY <1>0, <1>1 DEF AudioTypes, AudioTypeOK, OperationTypes, operation
<1>3. Clean => Clean' BY DEF Clean
<1>4. NoRowsLeft' BY <1>0 DEF NoRowsLeft
<1>5. SuccessIsClean' BY <1>0, <1>3 DEF SuccessIsClean, operation
<1>6. NotYetStarted'
  <2>1. \A i \in Jobs : handlerAt[i] = "none" => handlerAt'[i] = "none" BY <1>1
  <2> QED BY <1>0, <2>1 DEF NotYetStarted, operation
<1>7. ASSUME NEW f \in Mp3s PROVE Track(f)'
  <2>1. f \in Jobs BY JobKinds
  <2> QED BY <1>1, <2>1 DEF AudioInv, Track
<1>8. ASSUME NEW i \in PurgeJobs PROVE Cleaning(i)'
  <2>1. i \in Jobs /\ i # j BY JobKinds
  <2>2. handlerAt'[i] = handlerAt[i] /\ outcome'[i] = outcome[i] /\ todo'[i] = todo[i]
    BY <1>1, <2>1
  <2>3. todo[i] \in Seq(Mp3s) BY <1>0, <2>1 DEF AudioTypes
  <2>4. \A f \in Mp3s : artifact[f] = "deleted" => artifact'[f] = "deleted" OBVIOUS
  <2>5. \A n \in 1..Len(todo[i]) : todo[i][n] \in Mp3s BY <2>3, ElementOfSeq
  <2>6. report = "purged" => \A f \in Mp3s : file'[f] = "whole" => file[f] = "whole" OBVIOUS
  <2>7. handlerAt[i] = "dequeuing" => Head(todo[i]) \in Mp3s
    BY <1>0, <2>3, HeadTailProperties DEF Cleaning
  <2>8. handlerAt[i] = "dequeuing" => file'[Head(todo[i])] # "whole"
    BY <1>0, <2>6, <2>7 DEF Cleaning
  <2> QED BY <1>0, <1>3, <2>2, <2>4, <2>5, <2>6, <2>8 DEF Cleaning, Queued
<1> QED BY <1>2, <1>4, <1>5, <1>6, <1>7, <1>8 DEF AudioInv

LEMMA AudioSteps == ASSUME AudioInv, NEW j \in Mp3s, AudioStep(j) PROVE AudioInv'
<1>0. /\ AudioTypes /\ AudioTypeOK /\ NoRowsLeft /\ Track(j) /\ j \in Jobs /\ j \notin PurgeJobs
      /\ PurgeJobs \subseteq Jobs
  BY JobKinds DEF AudioInv, AudioTypes
<1>1. ASSUME NEW s \in Making \cup {"returned", "inserting"}, handlerAt[j] # "none",
             GoesOn(j, s) \/ (s = "returned" /\ \E r \in Outcomes : Returns(j, r))
      PROVE  /\ handlerAt' = [handlerAt EXCEPT ![j] = s] /\ handlerAt'[j] = s
             /\ outcome' \in [Jobs -> Outcomes] /\ \A i \in PurgeJobs : outcome'[i] = outcome[i]
  BY <1>0, <1>1 DEF GoesOn, Returns, AudioTypeOK
<1>2. ASSUME NEW result \in Outcomes, FailArtifact(j, result), handlerAt[j] \in Making,
             file[j] # "whole"
      PROVE  AudioInv'
  <2>1. Returns(j, result) /\ artifact[j] = "running" /\ "returned" \in Making \cup {"returned", "inserting"}
    BY <1>0, <1>2 DEF FailArtifact, Track
  <2>2. /\ handlerAt' = [handlerAt EXCEPT ![j] = "returned"] /\ handlerAt'[j] = "returned"
        /\ outcome' \in [Jobs -> Outcomes] /\ \A i \in PurgeJobs : outcome'[i] = outcome[i]
        /\ handlerAt[j] # "none"
    BY <1>1, <1>2, <2>1 DEF Making
  <2>3. artifact' = [artifact EXCEPT ![j] = "failed"] BY <1>2, <2>1 DEF FailArtifact
  <2>4. /\ artifact' \in [Mp3s -> {"none", "running", "succeeded", "failed", "deleted"}]
        /\ artifact'[j] = "failed" /\ file' = file
        /\ file' \in [Mp3s -> {"none", "partial", "whole"}]
        /\ \A f \in Mp3s : f # j => artifact'[f] = artifact[f] /\ file'[f] = file[f]
        /\ UNCHANGED <<operation, faults, report, purgeQueue, todo, copies, swept>>
    BY <1>0, <1>2, <2>3 DEF FailArtifact, AudioTypeOK
  <2>5. Track(j)' BY <1>0, <1>2, <2>1, <2>2, <2>4 DEF Track, Unstarted, Making
  <2>6. report # "purged" BY <1>0, <2>1 DEF NoRowsLeft
  <2> QED BY <2>1, <2>2, <2>4, <2>5, <2>6, OwnStep
<1>3. ASSUME NEW s \in Making, GoesOn(j, s), artifact' \in {artifact, [artifact EXCEPT ![j] = "running"]},
             artifact'[j] = "running", artifact[j] # "deleted", report # "purged",
             file' \in [Mp3s -> {"none", "partial", "whole"}],
             \A f \in Mp3s : f # j => file'[f] = file[f],
             UNCHANGED <<operation, faults, report, purgeQueue, todo, copies, swept>>,
             s \in {"written", "publishing"} => file'[j] = "whole",
             s \notin {"written", "publishing"} => file'[j] # "whole",
             handlerAt[j] # "none"
      PROVE  AudioInv'
  <2>1. /\ handlerAt' = [handlerAt EXCEPT ![j] = s] /\ handlerAt'[j] = s
        /\ outcome' \in [Jobs -> Outcomes] /\ \A i \in PurgeJobs : outcome'[i] = outcome[i]
    BY <1>1, <1>3
  <2>2. /\ artifact' \in [Mp3s -> {"none", "running", "succeeded", "failed", "deleted"}]
        /\ \A f \in Mp3s : f # j => artifact'[f] = artifact[f]
    BY <1>0, <1>3 DEF AudioTypeOK
  <2>3. Track(j)' BY <1>0, <1>3, <2>1, <2>2 DEF Track, Unstarted, Making
  <2> QED BY <1>3, <2>1, <2>2, <2>3, OwnStep
<1>4. CASE InsertArtifact(j)
  <2>1. CASE report # "purged" /\ artifact' = [artifact EXCEPT ![j] = "running"] /\ GoesOn(j, "speaking")
    <3>1. artifact[j] = "none" /\ file[j] = "none" /\ file' = file /\ artifact'[j] = "running"
      BY <1>0, <1>4, <2>1 DEF InsertArtifact, Track, Unstarted, AudioTypeOK
    <3> QED BY <1>0, <1>3, <1>4, <2>1, <3>1 DEF InsertArtifact, Making, AudioTypeOK
  <2>2. CASE report = "purged" /\ Returns(j, "error") /\ UNCHANGED artifact
    <3>1. artifact[j] = "none" /\ file[j] = "none" /\ file' = file
      BY <1>0, <1>4, <2>2 DEF InsertArtifact, Track, Unstarted
    <3>2. "error" \in Outcomes /\ "returned" \in Making \cup {"returned", "inserting"} /\ handlerAt[j] # "none"
      BY <1>4 DEF Outcomes, InsertArtifact
    <3>3. /\ handlerAt' = [handlerAt EXCEPT ![j] = "returned"] /\ handlerAt'[j] = "returned"
          /\ outcome' \in [Jobs -> Outcomes] /\ \A i \in PurgeJobs : outcome'[i] = outcome[i]
      BY <1>1, <2>2, <3>2
    <3>4. UNCHANGED <<operation, faults, report, purgeQueue, file, todo, copies, swept>>
      BY <1>4 DEF InsertArtifact
    <3>5. Track(j)' BY <1>0, <2>2, <3>1, <3>3, <3>4 DEF Track, Unstarted, Making
    <3>6. /\ artifact' \in [Mp3s -> {"none", "running", "succeeded", "failed", "deleted"}]
          /\ file' \in [Mp3s -> {"none", "partial", "whole"}]
      BY <1>0, <2>2, <3>4 DEF AudioTypeOK
    <3> QED BY <2>2, <3>1, <3>2, <3>3, <3>4, <3>5, <3>6, OwnStep
  <2> QED BY <1>4, <2>1, <2>2 DEF InsertArtifact
<1>5. ASSUME handlerAt[j] \in Making
      PROVE  artifact[j] = "running" /\ report # "purged" /\ handlerAt[j] # "none"
  BY <1>0, <1>5 DEF Track, NoRowsLeft, Making
<1>6. CASE Spoken(j)
  <2>1. handlerAt[j] = "speaking" /\ handlerAt[j] \in Making /\ file[j] # "whole"
    BY <1>0, <1>6 DEF Spoken, Track, Making
  <2>2. CASE GoesOn(j, "writing") /\ UNCHANGED <<operation, faults, rows, file, todo, copies, swept>>
    BY <1>0, <1>3, <1>5, <2>1, <2>2 DEF rows, Making, AudioTypeOK
  <2>3. ASSUME NEW r \in {"cancelled", "error", "failed"}, FailArtifact(j, r) PROVE AudioInv'
    BY <1>2, <2>1, <2>3 DEF Outcomes
  <2> QED BY <1>6, <2>2, <2>3 DEF Spoken
<1>7. CASE WriteFile(j)
  <2>1. /\ handlerAt[j] = "writing" /\ handlerAt[j] \in Making /\ file[j] # "whole"
        /\ UNCHANGED <<operation, faults, rows, todo, copies, swept>>
    BY <1>0, <1>7 DEF WriteFile, Track, Making
  <2>2. CASE file[j] # "partial" /\ file' = [file EXCEPT ![j] = "partial"] /\ UNCHANGED <<handlerAt, outcome>>
    <3>1. GoesOn(j, "writing") BY <1>0, <2>1, <2>2 DEF GoesOn, AudioTypeOK
    <3>2. file' \in [Mp3s -> {"none", "partial", "whole"}] /\ file'[j] = "partial"
      BY <1>0, <2>2 DEF AudioTypeOK
    <3> QED BY <1>0, <1>3, <1>5, <2>1, <2>2, <3>1, <3>2 DEF rows, Making, AudioTypeOK
  <2>3. CASE file' = [file EXCEPT ![j] = "whole"] /\ GoesOn(j, "written")
    <3>1. file' \in [Mp3s -> {"none", "partial", "whole"}] /\ file'[j] = "whole"
      BY <1>0, <2>3 DEF AudioTypeOK
    <3> QED BY <1>0, <1>3, <1>5, <2>1, <2>3, <3>1 DEF rows, Making, AudioTypeOK
  <2>4. CASE UNCHANGED file /\ GoesOn(j, "failing")
    BY <1>0, <1>3, <1>5, <2>1, <2>4 DEF rows, Making, AudioTypeOK
  <2> QED BY <1>7, <2>2, <2>3, <2>4 DEF WriteFile, FileOf
<1>8. CASE WriteFailed(j) \/ Unlinked(j)
  BY <1>0, <1>2, <1>8 DEF WriteFailed, Unlinked, Track, Making, Outcomes
<1>9. CASE Written(j)
  <2>1. /\ handlerAt[j] = "written" /\ handlerAt[j] \in Making /\ file[j] = "whole"
        /\ UNCHANGED <<operation, faults, rows, todo, copies, swept>>
    BY <1>0, <1>9 DEF Written, Track, Making
  <2>2. CASE GoesOn(j, "publishing") /\ UNCHANGED file
    BY <1>0, <1>3, <1>5, <2>1, <2>2 DEF rows, Making, AudioTypeOK
  <2>3. CASE GoesOn(j, "unlinking") /\ file' = [file EXCEPT ![j] = "none"]
    <3>1. file' \in [Mp3s -> {"none", "partial", "whole"}] /\ file'[j] = "none"
      BY <1>0, <2>3 DEF AudioTypeOK
    <3> QED BY <1>0, <1>3, <1>5, <2>1, <2>3, <3>1 DEF rows, Making, AudioTypeOK
  <2> QED BY <1>9, <2>2, <2>3 DEF Written, FileOf
<1>10. CASE Publish(j)
  <2>1. /\ handlerAt[j] = "publishing" /\ handlerAt[j] \in Making /\ file[j] = "whole"
        /\ UNCHANGED <<operation, faults, report, purgeQueue, file, todo, copies, swept>>
    BY <1>0, <1>10 DEF Publish, Track, Making
  <2>2. artifact' = [artifact EXCEPT ![j] = "succeeded"] /\ Returns(j, "succeeded")
    BY <1>5, <1>10, <2>1 DEF Publish
  <2>3. /\ handlerAt' = [handlerAt EXCEPT ![j] = "returned"] /\ handlerAt'[j] = "returned"
        /\ outcome' \in [Jobs -> Outcomes] /\ \A i \in PurgeJobs : outcome'[i] = outcome[i]
    BY <1>1, <1>5, <2>1, <2>2 DEF Outcomes
  <2>4. /\ artifact' \in [Mp3s -> {"none", "running", "succeeded", "failed", "deleted"}]
        /\ artifact'[j] = "succeeded" /\ file' \in [Mp3s -> {"none", "partial", "whole"}]
        /\ \A f \in Mp3s : f # j => artifact'[f] = artifact[f]
    BY <1>0, <2>1, <2>2 DEF AudioTypeOK
  <2>5. Track(j)' BY <1>0, <1>5, <2>1, <2>3, <2>4 DEF Track, Unstarted, Making
  <2> QED BY <1>5, <2>1, <2>3, <2>4, <2>5, OwnStep
<1>11. CASE ReadReport(j)
  <2>0. /\ handlerAt[j] = "reading" /\ "failed" \in Outcomes
        /\ UNCHANGED <<operation, faults, rows, file, todo, copies, swept>>
    BY <1>11 DEF ReadReport, Outcomes
  <2>1. PICK s \in {"inserting", "returned"} :
          GoesOn(j, s) \/ (s = "returned" /\ Returns(j, "failed"))
    BY <1>11 DEF ReadReport
  <2>2. /\ handlerAt' = [handlerAt EXCEPT ![j] = s] /\ handlerAt'[j] = s
        /\ outcome' \in [Jobs -> Outcomes] /\ \A i \in PurgeJobs : outcome'[i] = outcome[i]
    BY <1>1, <2>0, <2>1
  <2>3. UNCHANGED <<artifact, operation, faults, report, purgeQueue, file, todo, copies, swept>>
    BY <2>0 DEF rows
  <2>4. artifact[j] = "none" /\ file[j] = "none" BY <1>0, <2>0 DEF Track, Unstarted
  <2>5. Track(j)' BY <1>0, <2>2, <2>3, <2>4 DEF Track, Unstarted, Making
  <2>6. /\ artifact' \in [Mp3s -> {"none", "running", "succeeded", "failed", "deleted"}]
        /\ file' \in [Mp3s -> {"none", "partial", "whole"}]
    BY <1>0, <2>3 DEF AudioTypeOK
  <2> QED BY <2>0, <2>2, <2>3, <2>4, <2>5, <2>6, OwnStep
<1> QED BY <1>4, <1>6, <1>7, <1>8, <1>9, <1>10, <1>11 DEF AudioStep


(* SetToSeq lists a finite set completely, and nothing else.               *)
LEMMA ListOfSet ==
  ASSUME NEW S, IsFiniteSet(S)
  PROVE  /\ SetToSeq(S) \in Seq(S)
         /\ \A x \in S : \E i \in 1..Len(SetToSeq(S)) : SetToSeq(S)[i] = x
<1> DEFINE n == Cardinality(S)
<1>1. n \in Nat /\ Bijection(1..n, S) # {} BY FS_CardinalityType DEF ExistsBijection
<1>2. \E f \in [1..n -> S] : IsInjective(f) BY <1>1, Zenon DEF Bijection, Injection
<1>3. SetToSeq(S) \in [1..n -> S] /\ IsInjective(SetToSeq(S)) BY <1>2, Zenon DEF SetToSeq
<1>4. SetToSeq(S) \in Injection(1..n, S) BY <1>3, Zenon DEF Injection
<1>5. IsFiniteSet(1..n) /\ Cardinality(1..n) = n
  <2>1. 0 \in Int /\ 1 \in Int /\ n \in Int BY <1>1
  <2>2. IsFiniteSet(1..n) /\ Cardinality(1..n) = IF 1 > n THEN 0 ELSE n - 1 + 1
    BY <2>1, FS_Interval
  <2> QED BY <1>1, <2>2
<1>6. SetToSeq(S) \in Surjection(1..n, S) BY <1>4, <1>5, FS_Injection
<1>7. SetToSeq(S) \in Seq(S) /\ DOMAIN SetToSeq(S) = 1..n BY <1>1, <1>3, SeqDef
<1>8. Len(SetToSeq(S)) = n BY <1>1, <1>7
<1> QED BY <1>6, <1>7, <1>8 DEF Surjection

LEMMA FiniteQueue == ASSUME AudioTypeOK PROVE IsFiniteSet(purgeQueue)
<1>1. IsFiniteSet(Attempts)
  <2>1. 1 \in Int /\ MaxAttempts \in Int BY AudioAssumption
  <2> QED BY <2>1, FS_Interval DEF Attempts
<1>2. IsFiniteSet(Mp3s) BY <1>1, AudioAssumption, FS_Product DEF Mp3s
<1> QED BY <1>2, FS_Subset DEF AudioTypeOK

(* A step of a purge handler after the rows are gone: it may remove the    *)
(* file of a deleted row, and take from the queue what is removed.         *)
LEMMA OwnPurgeStep ==
  ASSUME AudioInv, NEW j \in PurgeJobs, NEW s \in Steps,
         handlerAt' = [handlerAt EXCEPT ![j] = s], handlerAt[j] # "none", report = "purged",
         outcome' \in [Jobs -> Outcomes], todo' \in [Jobs -> Seq(Mp3s)],
         \A i \in Jobs : i # j => outcome'[i] = outcome[i] /\ todo'[i] = todo[i],
         UNCHANGED <<operation, faults, report, artifact, copies, swept>>,
         file' \in [Mp3s -> {"none", "partial", "whole"}],
         \A f \in Mp3s : file'[f] = file[f] \/ (artifact[f] = "deleted" /\ file'[f] # "whole"),
         purgeQueue' \subseteq purgeQueue,
         \A f \in purgeQueue \ purgeQueue' : file'[f] # "whole",
         Cleaning(j)'
  PROVE  AudioInv'
<1>0. /\ AudioTypes /\ AudioTypeOK /\ NoRowsLeft /\ SuccessIsClean /\ NotYetStarted
      /\ j \in Jobs /\ j \notin Mp3s /\ Mp3s \subseteq Jobs
  BY JobKinds DEF AudioInv, AudioTypes
<1>1. /\ handlerAt' \in [Jobs -> Steps] /\ handlerAt'[j] = s
      /\ \A i \in Jobs : i # j => handlerAt'[i] = handlerAt[i]
  BY <1>0 DEF AudioTypeOK
<1>2. AudioTypes'
  BY <1>0, <1>1 DEF AudioTypes, AudioTypeOK, OperationTypes, operation
<1>3. Clean => Clean' BY DEF Clean
<1>4. NoRowsLeft' BY <1>0 DEF NoRowsLeft
<1>5. SuccessIsClean' BY <1>0, <1>3 DEF SuccessIsClean, operation
<1>6. NotYetStarted'
  <2>1. \A i \in Jobs : handlerAt[i] = "none" => handlerAt'[i] = "none" BY <1>1
  <2> QED BY <1>0, <2>1 DEF NotYetStarted, operation
<1>7. ASSUME NEW f \in Mp3s PROVE Track(f)'
  <2>1. Track(f) /\ f \in Jobs /\ handlerAt'[f] = handlerAt[f] BY <1>0, <1>1, <1>7 DEF AudioInv
  <2>2. /\ UNCHANGED <<report, artifact>> /\ (f \in purgeQueue' => f \in purgeQueue)
        /\ (f \in purgeQueue /\ f \notin purgeQueue' => file'[f] # "whole")
    OBVIOUS
  <2>3. CASE file'[f] = file[f] BY <2>1, <2>2, <2>3 DEF Track
  <2>4. CASE artifact[f] = "deleted" /\ file'[f] # "whole"
    BY <2>1, <2>2, <2>4 DEF Track, Unstarted, Making
  <2> QED BY <2>3, <2>4
<1>8. ASSUME NEW i \in PurgeJobs, i # j PROVE Cleaning(i)'
  <2>1. i \in Jobs /\ Cleaning(i) BY JobKinds DEF AudioInv
  <2>2. handlerAt'[i] = handlerAt[i] /\ outcome'[i] = outcome[i] /\ todo'[i] = todo[i]
    BY <1>1, <1>8, <2>1
  <2>3. todo[i] \in Seq(Mp3s) BY <1>0, <2>1 DEF AudioTypes
  <2>4. handlerAt[i] = "dequeuing" => Head(todo[i]) \in Mp3s
    BY <2>1, <2>3, HeadTailProperties DEF Cleaning
  <2>5. \A f \in Mp3s : file'[f] = "whole" => file[f] = "whole" OBVIOUS
  <2>6. handlerAt[i] = "dequeuing" => file'[Head(todo[i])] # "whole"
    BY <2>1, <2>4, <2>5 DEF Cleaning
  <2>7. \A f \in Mp3s : Queued(i, f)' <=> Queued(i, f)
    BY <2>2 DEF Queued
  <2>8. \A k \in 1..Len(todo[i]) : artifact[todo[i][k]] = "deleted"
    BY <2>1 DEF Cleaning
  <2>9. \A k \in 1..Len(todo'[i]) : artifact'[todo'[i][k]] = "deleted"
    BY <2>2, <2>8
  <2>10. handlerAt[i] \in {"cleaning", "dequeuing"} => \A f \in Mp3s : file'[f] = "whole" => Queued(i, f)'
    BY <2>1, <2>5, <2>7 DEF Cleaning
  <2>11. outcome[i] = "succeeded" => Clean'
    BY <1>3, <2>1 DEF Cleaning
  <2> QED BY <2>1, <2>2, <2>6, <2>9, <2>10, <2>11 DEF Cleaning
<1> QED BY <1>2, <1>4, <1>5, <1>6, <1>7, <1>8 DEF AudioInv

(* _purge_member deletes the rows only while nothing works on the report.  *)
LEMMA PurgeRowsStep == ASSUME AudioInv, NEW j \in PurgeJobs, PurgeRows(j) PROVE AudioInv'
<1>0. /\ AudioTypes /\ AudioTypeOK /\ NoRowsLeft /\ SuccessIsClean /\ NotYetStarted
      /\ j \in Jobs /\ j \notin Mp3s /\ Mp3s \subseteq Jobs /\ PurgeJobs \subseteq Jobs
      /\ handlerAt[j] = "purging" /\ UNCHANGED <<operation, faults, file, todo, copies, swept>>
  BY JobKinds DEF AudioInv, AudioTypes, PurgeRows
<1>1. CASE /\ report = "trash" /\ ~HasActiveWork(j[1]) /\ report' = "purged"
           /\ purgeQueue' = purgeQueue \cup {FileOf(f) : f \in {a \in Mp3s : artifact[a] = "succeeded"}}
           /\ artifact' = [f \in Mp3s |-> IF artifact[f] = "none" THEN "none" ELSE "deleted"]
           /\ GoesOn(j, "listing")
  <2>1. \A f \in Mp3s : artifact[f] # "running" BY <1>1 DEF HasActiveWork, Busy
  <2>2. /\ handlerAt' \in [Jobs -> Steps] /\ handlerAt'[j] = "listing" /\ outcome' = outcome
        /\ \A i \in Jobs : i # j => handlerAt'[i] = handlerAt[i]
    BY <1>0, <1>1 DEF GoesOn, AudioTypeOK, Steps
  <2>3. \A f \in Mp3s : f \in purgeQueue' <=> f \in purgeQueue \/ artifact[f] = "succeeded"
    BY <1>1 DEF FileOf
  <2>4. purgeQueue' \subseteq Mp3s BY <1>0, <1>1 DEF FileOf, AudioTypeOK
  <2>5. /\ artifact' \in [Mp3s -> {"none", "running", "succeeded", "failed", "deleted"}]
        /\ \A f \in Mp3s : artifact[f] = "none" => artifact'[f] = "none"
        /\ \A f \in Mp3s : artifact[f] # "none" => artifact'[f] = "deleted"
    BY <1>1
  <2>6. AudioTypes'
    BY <1>0, <1>1, <2>2, <2>4, <2>5 DEF AudioTypes, AudioTypeOK, OperationTypes, operation
  <2>7. NoRowsLeft' BY <2>5 DEF NoRowsLeft
  <2>8. ~Clean BY <1>1 DEF Clean
  <2>9. SuccessIsClean' BY <1>0, <2>8 DEF SuccessIsClean, operation
  <2>10. NotYetStarted' BY <1>0, <2>2 DEF NotYetStarted, operation
  <2>11. ASSUME NEW f \in Mp3s PROVE Track(f)'
    <3>1. Track(f) /\ f \in Jobs /\ handlerAt'[f] = handlerAt[f] /\ file'[f] = file[f]
      BY <1>0, <2>2 DEF AudioInv
    <3>2. artifact[f] # "running" /\ handlerAt[f] \notin Making BY <2>1, <3>1 DEF Track
    <3>3. file[f] = "whole" => f \in purgeQueue' BY <2>3, <3>1, <3>2 DEF Track
    <3>4. f \in purgeQueue' => artifact'[f] = "deleted" BY <2>3, <2>5, <3>1 DEF Track
    <3>5. artifact'[f] # "succeeded" BY <2>5
    <3>6. artifact[f] = "none" => artifact'[f] = "none" BY <2>5
    <3> QED BY <3>1, <3>2, <3>3, <3>4, <3>5, <3>6 DEF Track, Making
  <2>12. ASSUME NEW i \in PurgeJobs PROVE Cleaning(i)'
    <3>1. i \in Jobs /\ Cleaning(i) /\ todo[i] \in Seq(Mp3s) BY <1>0 DEF AudioInv, AudioTypes
    <3>2. \A n \in 1..Len(todo[i]) : todo[i][n] \in Mp3s /\ artifact[todo[i][n]] = "deleted"
      BY <3>1, ElementOfSeq DEF Cleaning
    <3>3. handlerAt'[i] \notin {"cleaning", "dequeuing"} BY <1>1, <2>2, <3>1 DEF Cleaning
    <3>4. outcome'[i] # "succeeded" BY <2>2, <2>8, <3>1 DEF Cleaning
    <3>5. \A n \in 1..Len(todo[i]) : artifact'[todo[i][n]] = "deleted" BY <2>5, <3>2
    <3> QED BY <1>0, <1>1, <3>3, <3>4, <3>5 DEF Cleaning
  <2> QED BY <2>6, <2>7, <2>9, <2>10, <2>11, <2>12 DEF AudioInv
<1>2. CASE report = "purged" /\ AudioIsPending /\ GoesOn(j, "listing") /\ UNCHANGED rows
  <2>1. /\ handlerAt' = [handlerAt EXCEPT ![j] = "listing"] /\ outcome' = outcome
        /\ report' = report /\ artifact' = artifact /\ purgeQueue' = purgeQueue
    BY <1>2 DEF GoesOn, rows
  <2>2. handlerAt'[j] = "listing" BY <1>0, <2>1 DEF AudioTypeOK
  <2>3. Cleaning(j) BY DEF AudioInv
  <2>4. Cleaning(j)' BY <1>0, <1>2, <2>1, <2>2, <2>3 DEF Cleaning, Clean
  <2>5. /\ file' \in [Mp3s -> {"none", "partial", "whole"}] /\ todo' \in [Jobs -> Seq(Mp3s)]
        /\ outcome' \in [Jobs -> Outcomes] /\ "listing" \in Steps
    BY <1>0, <2>1 DEF AudioTypes, AudioTypeOK, Steps
  <2> QED BY <1>0, <1>2, <2>1, <2>4, <2>5, OwnPurgeStep
<1>3. ASSUME NEW r \in Outcomes, Returns(j, r), UNCHANGED rows, r = "succeeded" => Clean
      PROVE  AudioInv'
  <2>1. /\ handlerAt' \in [Jobs -> Steps] /\ handlerAt'[j] = "returned"
        /\ outcome' \in [Jobs -> Outcomes] /\ outcome'[j] = r
        /\ \A i \in Jobs : i # j => handlerAt'[i] = handlerAt[i] /\ outcome'[i] = outcome[i]
    BY <1>0, <1>3 DEF Returns, AudioTypeOK, Steps
  <2>2. AudioTypes'
    BY <1>0, <1>3, <2>1 DEF AudioTypes, AudioTypeOK, OperationTypes, operation, rows
  <2>3. /\ UNCHANGED <<artifact, purgeQueue, file, todo>> /\ report' = report /\ attempts' = attempts
        /\ status' = status
    BY <1>0, <1>3 DEF rows, operation
  <2>4. \A i \in PurgeJobs : outcome'[i] = "succeeded" => outcome[i] = "succeeded" \/ Clean
    BY <1>0, <1>3, <2>1
  <2>5. \A f \in Mp3s : handlerAt'[f] = handlerAt[f] BY <1>0, <2>1
  <2>6. \A i \in PurgeJobs : handlerAt'[i] = handlerAt[i] \/ handlerAt'[i] = "returned"
    BY <1>0, <2>1
  <2>7. \A i \in Jobs : handlerAt[i] = "none" => handlerAt'[i] = "none" BY <1>0, <2>1
  <2> QED BY <2>2, <2>3, <2>4, <2>5, <2>6, <2>7, AudioQuiet
<1>4. CASE report = "purged" /\ ~AudioIsPending /\ Returns(j, "succeeded") /\ UNCHANGED rows
  <2>1. \A f \in Mp3s : file[f] # "whole"
    BY <1>0, <1>4 DEF AudioIsPending, AudioInv, Track, NoRowsLeft
  <2> QED BY <1>3, <1>4, <2>1 DEF Clean, Outcomes
<1>5. CASE (Returns(j, "failed") \/ Returns(j, "error")) /\ UNCHANGED rows
  BY <1>3, <1>5 DEF Outcomes
<1> QED BY <1>1, <1>2, <1>4, <1>5 DEF PurgeRows

LEMMA PurgeSteps == ASSUME AudioInv, NEW j \in PurgeJobs, PurgeStep(j) PROVE AudioInv'
<1>0. /\ AudioTypes /\ AudioTypeOK /\ NoRowsLeft /\ j \in Jobs /\ Cleaning(j)
      /\ todo \in [Jobs -> Seq(Mp3s)] /\ todo[j] \in Seq(Mp3s)
      /\ \A f \in Mp3s : Track(f)
  BY JobKinds DEF AudioInv, AudioTypes
<1>1. /\ file \in [Mp3s -> {"none", "partial", "whole"}] /\ outcome \in [Jobs -> Outcomes]
      /\ handlerAt \in [Jobs -> Steps] /\ {"returned", "cleaning", "dequeuing"} \subseteq Steps
  BY <1>0 DEF AudioTypeOK, Steps
<1>2. ASSUME NEW s, GoesOn(j, s)
      PROVE  handlerAt' = [handlerAt EXCEPT ![j] = s] /\ handlerAt'[j] = s /\ outcome' = outcome
  BY <1>0, <1>1, <1>2 DEF GoesOn
<1>3. ASSUME NEW r \in Outcomes, Returns(j, r)
      PROVE  /\ handlerAt' = [handlerAt EXCEPT ![j] = "returned"] /\ handlerAt'[j] = "returned"
             /\ outcome' \in [Jobs -> Outcomes] /\ outcome'[j] = r
             /\ \A i \in Jobs : i # j => outcome'[i] = outcome[i]
  BY <1>0, <1>1, <1>3 DEF Returns
<1>4. CASE PurgeRows(j) BY <1>4, PurgeRowsStep
<1>5. CASE ListFiles(j)
  <2>1. /\ handlerAt[j] = "listing" /\ report = "purged"
        /\ todo' = [todo EXCEPT ![j] = SetToSeq(purgeQueue)]
        /\ UNCHANGED <<operation, faults, rows, file, copies, swept>>
    BY <1>0, <1>5 DEF ListFiles, Cleaning
  <2>2. handlerAt' = [handlerAt EXCEPT ![j] = "cleaning"] /\ handlerAt'[j] = "cleaning" /\ outcome' = outcome
    BY <1>2, <1>5 DEF ListFiles
  <2> DEFINE list == SetToSeq(purgeQueue)
  <2>3. list \in Seq(purgeQueue) /\ \A x \in purgeQueue : \E i \in 1..Len(list) : list[i] = x
    BY <1>0, FiniteQueue, ListOfSet
  <2>4. purgeQueue \subseteq Mp3s BY <1>0 DEF AudioTypeOK
  <2>5. list \in Seq(Mp3s) /\ \A i \in 1..Len(list) : list[i] \in purgeQueue
    BY <2>3, <2>4, SeqMonotonic, ElementOfSeq
  <2> HIDE DEF list
  <2>6. /\ todo' \in [Jobs -> Seq(Mp3s)] /\ todo'[j] = list
        /\ \A i \in Jobs : i # j => todo'[i] = todo[i]
    BY <1>0, <2>1, <2>5 DEF list
  <2>7. \A f \in Mp3s : file[f] = "whole" => f \in purgeQueue
    BY <1>0, <2>1 DEF Track, NoRowsLeft
  <2>8. \A i \in 1..Len(list) : artifact[list[i]] = "deleted"
    BY <1>0, <2>4, <2>5 DEF Track
  <2>9. UNCHANGED <<operation, faults, report, artifact, purgeQueue, file, copies, swept>>
    BY <2>1 DEF rows
  <2>10. \A f \in Mp3s : file'[f] = "whole" => Queued(j, f)'
    BY <2>3, <2>6, <2>7, <2>9 DEF Queued
  <2>11. outcome'[j] = "succeeded" => Clean' BY <1>0, <2>2, <2>9 DEF Cleaning, Clean
  <2>12. Cleaning(j)' BY <2>1, <2>2, <2>6, <2>8, <2>9, <2>10, <2>11 DEF Cleaning
  <2>13. "cleaning" \in Steps /\ handlerAt[j] # "none" BY <1>1, <2>1
  <2> QED BY <1>1, <2>1, <2>2, <2>6, <2>9, <2>12, <2>13, OwnPurgeStep
<1>6. CASE UnlinkFile(j)
  <2>1. /\ handlerAt[j] = "cleaning" /\ report = "purged" /\ todo[j] # <<>>
        /\ UNCHANGED <<operation, faults, report, artifact, purgeQueue, copies, swept>>
    BY <1>0, <1>6 DEF UnlinkFile, Cleaning, rows
  <2>2. CASE file' = [file EXCEPT ![Head(todo[j])] = "none"] /\ GoesOn(j, "dequeuing") /\ UNCHANGED todo
    <3> DEFINE f == Head(todo[j])
    <3>1. f \in Mp3s /\ 1 \in 1..Len(todo[j]) /\ f = todo[j][1]
      BY <1>0, <2>1, HeadTailProperties, EmptySeq, LenProperties
    <3>2. artifact[f] = "deleted" BY <1>0, <3>1 DEF Cleaning
    <3> HIDE DEF f
    <3>3. /\ file' \in [Mp3s -> {"none", "partial", "whole"}] /\ file'[f] = "none"
          /\ \A g \in Mp3s : g # f => file'[g] = file[g]
      BY <1>1, <2>2, <3>1 DEF f
    <3>4. handlerAt' = [handlerAt EXCEPT ![j] = "dequeuing"] /\ handlerAt'[j] = "dequeuing" /\ outcome' = outcome
      BY <1>2, <2>2
    <3>5. \A g \in Mp3s : file'[g] = "whole" => file[g] = "whole" BY <3>3
    <3>6. outcome'[j] = "succeeded" => Clean' BY <1>0, <2>1, <3>4, <3>5 DEF Cleaning, Clean
    <3>7. todo' = todo /\ f = Head(todo[j]) BY <2>2 DEF f
    <3>8. Cleaning(j)'
      <4>1. \A g \in Mp3s : file'[g] = "whole" => Queued(j, g)'
        BY <1>0, <2>1, <3>5, <3>7 DEF Cleaning, Queued
      <4>2. \A i \in 1..Len(todo'[j]) : artifact'[todo'[j][i]] = "deleted"
        BY <1>0, <2>1, <3>7 DEF Cleaning
      <4>3. todo'[j] # <<>> /\ file'[Head(todo'[j])] # "whole" BY <2>1, <3>3, <3>7
      <4> QED BY <2>1, <3>4, <3>6, <4>1, <4>2, <4>3 DEF Cleaning
    <3>9. "dequeuing" \in Steps /\ handlerAt[j] # "none" BY <1>1, <2>1
    <3>10. \A g \in Mp3s : file'[g] = file[g] \/ (artifact[g] = "deleted" /\ file'[g] # "whole")
      BY <3>2, <3>3
    <3> QED BY <1>0, <1>1, <2>1, <3>3, <3>4, <3>7, <3>8, <3>9, <3>10, OwnPurgeStep
  <2>3. CASE Returns(j, "error") /\ UNCHANGED file /\ todo' = [todo EXCEPT ![j] = <<>>]
    <3>1. /\ handlerAt' = [handlerAt EXCEPT ![j] = "returned"] /\ handlerAt'[j] = "returned"
          /\ outcome' \in [Jobs -> Outcomes] /\ outcome'[j] = "error"
          /\ \A i \in Jobs : i # j => outcome'[i] = outcome[i]
      BY <1>3, <2>3 DEF Outcomes
    <3>2. /\ todo' \in [Jobs -> Seq(Mp3s)] /\ todo'[j] = <<>>
          /\ \A i \in Jobs : i # j => todo'[i] = todo[i]
      BY <1>0, <2>3
    <3>3. Cleaning(j)' BY <3>1, <3>2 DEF Cleaning
    <3>4. "returned" \in Steps /\ handlerAt[j] # "none" BY <1>1, <2>1
    <3> QED BY <1>1, <2>1, <2>3, <3>1, <3>2, <3>3, <3>4, OwnPurgeStep
  <2> QED BY <1>6, <2>2, <2>3 DEF UnlinkFile
<1>7. CASE DequeueFile(j)
  <2>1. /\ handlerAt[j] = "dequeuing" /\ report = "purged" /\ todo[j] # <<>>
        /\ file[Head(todo[j])] # "whole" /\ file' = file
        /\ purgeQueue' = purgeQueue \ {Head(todo[j])} /\ todo' = [todo EXCEPT ![j] = Tail(todo[j])]
        /\ UNCHANGED <<operation, faults, report, artifact, copies, swept>>
    BY <1>0, <1>7 DEF DequeueFile, Cleaning
  <2>2. handlerAt' = [handlerAt EXCEPT ![j] = "cleaning"] /\ handlerAt'[j] = "cleaning" /\ outcome' = outcome
    BY <1>2, <1>7 DEF DequeueFile
  <2>3. /\ Tail(todo[j]) \in Seq(Mp3s) /\ Len(todo[j]) \in Nat /\ Len(todo[j]) # 0
        /\ Len(Tail(todo[j])) = Len(todo[j]) - 1 /\ Head(todo[j]) = todo[j][1]
        /\ \A i \in 1..Len(Tail(todo[j])) : Tail(todo[j])[i] = todo[j][i + 1]
    BY <1>0, <2>1, HeadTailProperties, EmptySeq, LenProperties
  <2>4. /\ todo' \in [Jobs -> Seq(Mp3s)] /\ todo'[j] = Tail(todo[j])
        /\ \A i \in Jobs : i # j => todo'[i] = todo[i]
    BY <1>0, <2>1, <2>3
  <2>5. \A i \in 1..Len(Tail(todo[j])) : artifact[Tail(todo[j])[i]] = "deleted"
    <3> SUFFICES ASSUME NEW i \in 1..Len(Tail(todo[j])) PROVE artifact[Tail(todo[j])[i]] = "deleted"
      OBVIOUS
    <3>1. i + 1 \in 1..Len(todo[j]) BY <2>3
    <3> QED BY <1>0, <2>3, <3>1 DEF Cleaning
  <2>6. ASSUME NEW g \in Mp3s, file[g] = "whole"
        PROVE  \E i \in 1..Len(Tail(todo[j])) : Tail(todo[j])[i] = g
    <3>1. PICK n \in 1..Len(todo[j]) : todo[j][n] = g BY <1>0, <2>1, <2>6 DEF Cleaning, Queued
    <3>2. n # 1 BY <2>1, <2>3, <2>6, <3>1
    <3>3. n - 1 \in 1..Len(Tail(todo[j])) /\ (n - 1) + 1 = n BY <2>3, <3>1, <3>2
    <3>4. Tail(todo[j])[n - 1] = todo[j][n] BY <2>3, <3>3
    <3> QED BY <3>1, <3>3, <3>4
  <2>7. outcome'[j] = "succeeded" => Clean' BY <1>0, <2>1, <2>2 DEF Cleaning, Clean
  <2>8. Cleaning(j)' BY <2>1, <2>2, <2>4, <2>5, <2>6, <2>7 DEF Cleaning, Queued
  <2>9. "cleaning" \in Steps /\ handlerAt[j] # "none" BY <1>1, <2>1
  <2>10. \A f \in purgeQueue \ purgeQueue' : file'[f] # "whole" BY <2>1
  <2> QED BY <1>1, <2>1, <2>2, <2>4, <2>8, <2>9, <2>10, OwnPurgeStep
<1>8. CASE Cleaned(j)
  <2>1. /\ handlerAt[j] = "cleaning" /\ todo[j] = <<>> /\ report = "purged"
        /\ UNCHANGED <<operation, faults, report, artifact, purgeQueue, file, todo, copies, swept>>
    BY <1>0, <1>8 DEF Cleaned, Cleaning, rows
  <2>2. /\ handlerAt' = [handlerAt EXCEPT ![j] = "returned"] /\ handlerAt'[j] = "returned"
        /\ outcome' \in [Jobs -> Outcomes] /\ outcome'[j] = "succeeded"
        /\ \A i \in Jobs : i # j => outcome'[i] = outcome[i]
    BY <1>3, <1>8 DEF Cleaned, Outcomes
  <2>3. Len(todo[j]) = 0 BY <2>1
  <2>4. Clean' BY <1>0, <2>1, <2>3 DEF Cleaning, Queued, Clean
  <2>5. Cleaning(j)' BY <2>1, <2>2, <2>3, <2>4 DEF Cleaning
  <2>6. "returned" \in Steps /\ handlerAt[j] # "none" BY <1>1, <2>1
  <2> QED BY <1>0, <1>1, <2>1, <2>2, <2>5, <2>6, OwnPurgeStep
<1> QED BY <1>4, <1>5, <1>6, <1>7, <1>8 DEF PurgeStep

LEMMA AudioInvNext == AudioInv /\ [AudioNext]_audioVars => AudioInv'
<1> SUFFICES ASSUME AudioInv, [AudioNext]_audioVars PROVE AudioInv'
  OBVIOUS
<1>1. CASE UNCHANGED audioVars
  <2>1. UNCHANGED <<operation, faults, rows, file, handler, swept, status, attempts, cancel,
                    report, artifact, purgeQueue, handlerAt, outcome, todo, copies>>
    BY <1>1 DEF audioVars, operation, rows, handler
  <2>2. AudioTypes' BY <2>1 DEF AudioInv, AudioTypes, AudioTypeOK, OperationTypes
  <2> QED BY <2>1, <2>2, AudioQuiet DEF AudioInv
<1>2. CASE \/ \E o \in Audios : EnqueueAudio(o)
           \/ \E o \in Purges : EnqueuePurge(o)
           \/ \E o \in Operations : Retry(o) \/ RequestCancel(o)
           \/ MoveToTrash \/ SweepRead \/ SweepTrash \/ Restore
  BY <1>2, RequestSteps
<1>3. CASE \E o \in Operations : Lease(o) BY <1>3, LeaseStep
<1>4. CASE \E j \in Jobs : Start(j) \/ Finish(j) \/ MonitorError(j) \/ Die(j)
  BY <1>4, AttemptSteps
<1>5. CASE \E j \in Mp3s : AudioStep(j) BY <1>5, AudioSteps
<1>6. CASE \E j \in Jobs \ Mp3s : PurgeStep(j) BY <1>6, JobKinds, PurgeSteps
<1> QED BY <1>1, <1>2, <1>3, <1>4, <1>5, <1>6 DEF AudioNext

(* Every row that offers audio has its whole file, and a purge reported as *)
(* done has left neither row nor whole file (DailyReportAudioHandler and   *)
(* _purge_member), for any number of operations, attempts and faults.      *)
THEOREM FilesAreTracked == AudioSpec => []FilesFollowRows
<1>1. AudioInv => FilesFollowRows
  BY JobKinds DEF AudioInv, AudioTypes, FilesFollowRows, PublishedIsOnDisk, PurgedIsGone,
     SuccessIsClean, Clean, Track, FileOf
<1> QED BY <1>1, AudioInvInit, AudioInvNext, PTL DEF AudioSpec

(* Nothing makes audio of a report that is purged: the purge refuses while *)
(* an artifact runs, and an insert finds no report (audio_runtime.py).     *)
THEOREM NothingSpeaksOfPurged == AudioSpec => []NoAudioOfPurgedReport
<1>1. AudioInv => NoAudioOfPurgedReport
  <2> SUFFICES ASSUME AudioInv, report = "purged", NEW j \in Mp3s
               PROVE  handlerAt[j] \in {"none", "over", "returned", "starting", "reading", "inserting"}
    BY DEF NoAudioOfPurgedReport
  <2>1. Track(j) /\ artifact[j] # "running" BY DEF AudioInv, NoRowsLeft
  <2> QED BY <2>1 DEF Track, Unstarted
<1> QED BY <1>1, AudioInvInit, AudioInvNext, PTL DEF AudioSpec

---------------------------------------------------------------------------
(* The page of a report and its audio.                                     *)

(* A finite set whose elements have different places has an order, and     *)
(* every such order lists all of it.                                       *)
Rising(s, place) == \A i, j \in DOMAIN s : i < j => place[s[i]] < place[s[j]]
LEMMA RisingOrder ==
  ASSUME NEW ids, IsFiniteSet(ids), NEW place, \A x \in ids : place[x] \in Nat,
         \A x, y \in ids : place[x] = place[y] => x = y
  PROVE  /\ Cardinality(ids) \in Nat
         /\ \E s \in [1 .. Cardinality(ids) -> ids] : Rising(s, place)
         /\ \A s \in [1 .. Cardinality(ids) -> ids] : Rising(s, place) => ToSet(s) = ids
<1> DEFINE n == Cardinality(ids)
           Below(x) == {y \in ids : place[y] < place[x]}
           rank == [x \in ids |-> Cardinality(Below(x)) + 1]
<1>1. n \in Nat /\ IsFiniteSet(1..n) /\ Cardinality(1..n) = n
  BY FS_CardinalityType, FS_Interval
<1>2. ASSUME NEW x \in ids
      PROVE  /\ IsFiniteSet(Below(x)) /\ Cardinality(Below(x)) \in Nat
             /\ IsFiniteSet(Below(x) \cup {x})
             /\ Cardinality(Below(x) \cup {x}) = rank[x]
  <2>1. IsFiniteSet(Below(x)) /\ x \notin Below(x)
    BY FS_Subset
  <2> QED BY <2>1, FS_AddElement, FS_CardinalityType
<1>3. rank \in [ids -> 1..n]
  <2> SUFFICES ASSUME NEW x \in ids PROVE rank[x] \in 1..n
    OBVIOUS
  <2>1. (Below(x) \cup {x}) \in SUBSET ids
    OBVIOUS
  <2>2. Cardinality(Below(x) \cup {x}) <= n
    BY <2>1, FS_Subset
  <2>3. PICK c \in Nat : c = Cardinality(Below(x)) /\ rank[x] = c + 1
    BY <1>2
  <2>4. Cardinality(Below(x) \cup {x}) = c + 1
    BY <1>2, <2>3
  <2> HIDE DEF rank, Below
  <2> QED BY <1>1, <2>2, <2>3, <2>4
<1>4. \A x, y \in ids : place[x] < place[y] => rank[x] < rank[y]
  <2> SUFFICES ASSUME NEW x \in ids, NEW y \in ids, place[x] < place[y] PROVE rank[x] < rank[y]
    OBVIOUS
  <2>1. (Below(x) \cup {x}) \in SUBSET Below(y)
    <3>1. \A z \in ids : place[z] < place[x] => place[z] < place[y]
      <4>1. place[x] \in Nat /\ place[y] \in Nat /\ \A z \in ids : place[z] \in Nat
        OBVIOUS
      <4> QED BY <4>1
    <3> QED BY <3>1
  <2>2. Cardinality(Below(x) \cup {x}) <= Cardinality(Below(y))
    BY <1>2, <2>1, FS_Subset
  <2>3. rank[y] = Cardinality(Below(y)) + 1
    OBVIOUS
  <2>4. rank[x] \in Nat /\ Cardinality(Below(y)) \in Nat /\ rank[x] <= Cardinality(Below(y))
    <3>1. Cardinality(Below(x) \cup {x}) = rank[x] /\ Cardinality(Below(y)) \in Nat
      BY <1>2
    <3>2. rank[x] \in 1..n
      BY <1>3
    <3> HIDE DEF rank, Below
    <3> QED BY <1>1, <2>2, <3>1, <3>2
  <2> QED BY <2>3, <2>4
<1> HIDE DEF rank
<1>5. \A k \in 1..n : \E x \in ids : rank[x] = k
  <2>1. \A x, y \in ids : rank[x] = rank[y] => x = y
    <3> SUFFICES ASSUME NEW x \in ids, NEW y \in ids, rank[x] = rank[y] PROVE x = y
      OBVIOUS
    <3>1. place[x] \in Nat /\ place[y] \in Nat /\ rank[x] \in Nat
      BY <1>1, <1>3
    <3>2. ~(place[x] < place[y]) /\ ~(place[y] < place[x])
      BY <1>4, <3>1
    <3> QED BY <3>1, <3>2
  <2>2. rank \in Injection(ids, 1..n)
    BY <1>3, <2>1, Fun_IsInj
  <2>3. rank \in Surjection(ids, 1..n)
    BY <1>1, <2>2, FS_Injection
  <2> QED BY <2>3, Fun_SurjectionProperties
<1>6. \E s \in [1..n -> ids] : Rising(s, place)
  <2> DEFINE s == [k \in 1..n |-> CHOOSE x \in ids : rank[x] = k]
  <2>1. \A k \in 1..n : s[k] \in ids /\ rank[s[k]] = k
    BY <1>5
  <2>2. s \in [1..n -> ids] /\ DOMAIN s = 1..n
    BY <2>1
  <2> HIDE DEF s
  <2>3. ASSUME NEW i \in 1..n, NEW j \in 1..n, i < j PROVE place[s[i]] < place[s[j]]
    <3>1. PICK x \in ids, y \in ids : x = s[i] /\ y = s[j] /\ rank[x] = i /\ rank[y] = j
      BY <2>1
    <3>2. place[x] \in Nat /\ place[y] \in Nat /\ i \in Nat /\ j \in Nat
      OBVIOUS
    <3>3. ~(place[y] < place[x]) /\ x # y
      BY <1>4, <2>3, <3>1, <3>2
    <3> QED BY <3>1, <3>2, <3>3
  <2> QED BY <2>2, <2>3 DEF Rising
<1>7. ASSUME NEW s \in [1..n -> ids], Rising(s, place) PROVE ToSet(s) = ids
  <2>1. ASSUME NEW i \in 1..n, NEW j \in 1..n, s[i] = s[j] PROVE i = j
    <3>1. /\ DOMAIN s = 1..n /\ s[i] \in ids /\ place[s[i]] \in Nat /\ i \in Nat /\ j \in Nat
          /\ \A x \in Nat : ~(x < x)
      OBVIOUS
    <3>2. ~(i < j) /\ ~(j < i)
      BY <1>7, <2>1, <3>1 DEF Rising
    <3> QED BY <3>1, <3>2
  <2>2. s \in Injection(1..n, ids)
    BY <2>1, Fun_IsInj
  <2>3. s \in Surjection(1..n, ids)
    BY <1>1, <2>2, FS_Injection
  <2>4. \A x \in ids : \E i \in 1..n : s[i] = x
    BY <2>3 DEF Surjection
  <2>5. DOMAIN s = 1..n /\ \A i \in 1..n : s[i] \in ids
    OBVIOUS
  <2> QED BY <2>4, <2>5 DEF ToSet
<1> QED BY <1>1, <1>6, <1>7

LEMMA InOrderIs ==
  ASSUME NEW ids, IsFiniteSet(ids), NEW place, \A x \in ids : place[x] \in Nat,
         \A x, y \in ids : place[x] = place[y] => x = y
  PROVE  /\ Cardinality(ids) \in Nat
         /\ InOrder(ids, place) \in [1 .. Cardinality(ids) -> ids]
         /\ ToSet(InOrder(ids, place)) = ids
         /\ \A i, j \in 1 .. Cardinality(ids) : i < j => place[InOrder(ids, place)[i]] < place[InOrder(ids, place)[j]]
<1>1. PICK n : n = Cardinality(ids)
  OBVIOUS
<1>2. /\ n \in Nat /\ \E s \in [1 .. n -> ids] : Rising(s, place)
      /\ \A s \in [1 .. n -> ids] : Rising(s, place) => ToSet(s) = ids
  BY <1>1, RisingOrder
<1>3. PICK s \in [1 .. n -> ids] : s = InOrder(ids, place) /\ Rising(s, place)
  BY <1>1, <1>2 DEF InOrder, Rising
<1>4. DOMAIN s = 1 .. n
  OBVIOUS
<1> QED BY <1>1, <1>2, <1>3, <1>4 DEF Rising

(* So have numbers, by themselves.                                         *)
LEMMA InPosition ==
  ASSUME NEW ids \in SUBSET Nat, IsFiniteSet(ids), NEW place, \A x \in ids : place[x] = x
  PROVE  /\ Cardinality(ids) \in Nat
         /\ InOrder(ids, place) \in [1 .. Cardinality(ids) -> ids]
         /\ ToSet(InOrder(ids, place)) = ids
         /\ \A i, j \in 1 .. Cardinality(ids) : i < j => InOrder(ids, place)[i] < InOrder(ids, place)[j]
<1>1. (\A x \in ids : place[x] \in Nat) /\ \A x, y \in ids : place[x] = place[y] => x = y
  OBVIOUS
<1>2. /\ Cardinality(ids) \in Nat
      /\ InOrder(ids, place) \in [1 .. Cardinality(ids) -> ids]
      /\ ToSet(InOrder(ids, place)) = ids
      /\ \A i, j \in 1 .. Cardinality(ids) :
           i < j => place[InOrder(ids, place)[i]] < place[InOrder(ids, place)[j]]
  BY <1>1, InOrderIs
<1>3. PICK n, s : n = Cardinality(ids) /\ s = InOrder(ids, place)
  OBVIOUS
<1>4. /\ s \in [1..n -> ids]
      /\ \A i, j \in 1..n : i < j => place[s[i]] < place[s[j]]
  BY <1>2, <1>3
<1>5. \A i \in 1..n : s[i] \in ids /\ place[s[i]] = s[i]
  BY <1>4
<1>6. \A i, j \in 1..n : i < j => s[i] < s[j]
  BY <1>4, <1>5
<1> QED BY <1>2, <1>3, <1>6

(* Sets that have nothing in common.                                       *)
LEMMA DisjointUnion ==
  ASSUME NEW S, NEW T, IsFiniteSet(S), IsFiniteSet(T), S \cap T = {}
  PROVE  /\ IsFiniteSet(S \cup T) /\ Cardinality(S \cup T) = Cardinality(S) + Cardinality(T)
         /\ Cardinality(S) \in Nat /\ Cardinality(T) \in Nat
<1>1. IsFiniteSet(S \cup T) /\ Cardinality(S \cup T) = Cardinality(S) + Cardinality(T) - Cardinality(S \cap T)
  BY FS_Union
<1>2. Cardinality(S) \in Nat /\ Cardinality(T) \in Nat /\ Cardinality({}) = 0
  BY FS_CardinalityType, FS_EmptySet
<1>3. Cardinality(S \cap T) = 0
  BY <1>2
<1> QED BY <1>1, <1>2, <1>3

(* What two of them, one after the other, have.                            *)
LEMMA ToSetOfTwo ==
  ASSUME NEW S, NEW s \in Seq(S), NEW t \in Seq(S)
  PROVE  /\ s \o t \in Seq(S) /\ ToSet(s \o t) = ToSet(s) \cup ToSet(t)
         /\ Len(s \o t) = Len(s) + Len(t)
<1>1. /\ s \o t \in Seq(S) /\ Range(s \o t) = Range(s) \cup Range(t)
      /\ Len(s \o t) = Len(s) + Len(t)
  BY ConcatProperties, RangeConcatenation
<1>2. \A q \in Seq(S) : ToSet(q) = Range(q)
  BY DEF ToSet, Range
<1> QED BY <1>1, <1>2

(* What a row of the overview, an item and an audio are like.              *)
PageRows == [tier : Tiers, rank : Rows, whole : BOOLEAN, review : RowReviews]
PageItems == [row : Rows, included : BOOLEAN, review : RowReviews]
Renderings == {"none", "queued", "spoken", "review_incomplete", "no_included_items",
             "projection_mismatch", "text_corrupted"}

PageTypes ==
  /\ pageStatus \in {"none", "draft", "archived"} /\ package \in BOOLEAN
  /\ \E shown \in {{}, Rows} : overview \in [shown -> PageRows]
  /\ \A i, j \in DOMAIN overview : overview[i].rank = overview[j].rank => i = j
  /\ decision \in Seq(PageItems)
  /\ audio \in [Renditions -> Renderings]

(* The overview speaks of what the page lists.                             *)
LEMMA SpeechIsListed ==
  ASSUME PageTypes
  PROVE  /\ SpokenIsListed
         /\ Under("confirmed") \cup Under("hotspot") \cup Under("signal") = Listed
<1>1. PICK shown \in {{}, Rows} : overview \in [shown -> PageRows]
  BY DEF PageTypes
<1>2. shown \in SUBSET Nat /\ IsFiniteSet(shown) /\ DOMAIN overview = shown
  BY <1>1, RowsAssumption, FS_EmptySet
<1>3. /\ Listed \in SUBSET shown /\ Listed = {i \in shown : KeptBy(overview[i].review)}
      /\ \A i \in shown : overview[i].tier \in Tiers /\ overview[i].review \in RowReviews
  BY <1>1, <1>2 DEF Listed, PageRows
<1>4. \A i \in Listed : /\ ScriptSection(overview[i]) = Heading(overview[i])
                        /\ Heading(overview[i]) \in {"confirmed", "hotspot", "signal"}
  BY <1>3 DEF ScriptSection, Heading, Tiers
<1>5. \A h : {i \in Listed : ScriptSection(overview[i]) = h} = Under(h)
  BY <1>4 DEF Under
<1>6. Under("confirmed") \cup Under("hotspot") \cup Under("signal") = Listed
  BY <1>4 DEF Under
(* A part of the script.                                                   *)
<1>7. ASSUME NEW h
      PROVE  LET part == InOrder(Under(h), Ranking)
             IN  /\ part \in Seq(shown) /\ ToSet(part) = Under(h)
                 /\ Len(part) = Cardinality(Under(h))
                 /\ IsFiniteSet(Under(h)) /\ Cardinality(Under(h)) \in Nat
  <2>1. Under(h) \in SUBSET shown /\ IsFiniteSet(Under(h))
    <3>1. Under(h) \in SUBSET shown
      BY <1>3 DEF Under
    <3> QED BY <1>2, <3>1, FS_Subset
  <2>2. PICK place : place = Ranking
    OBVIOUS
  <2>3. \A x \in Under(h) : place[x] \in Nat
    <3>1. \A x \in shown : overview[x].rank \in Rows
      BY <1>1 DEF PageRows
    <3> QED BY <1>2, <2>1, <2>2, <3>1, RowsAssumption DEF Ranking
  <2>4. \A x, y \in Under(h) : place[x] = place[y] => x = y
    BY <1>2, <2>1, <2>2 DEF PageTypes, Ranking
  <2>5. PICK n, s : /\ n \in Nat /\ n = Cardinality(Under(h)) /\ s = InOrder(Under(h), place)
                   /\ s \in [1..n -> Under(h)] /\ ToSet(s) = Under(h)
    BY <2>1, <2>3, <2>4, InOrderIs
  <2>6. s \in [1..n -> shown]
    BY <2>1, <2>5
  <2>7. s \in Seq(shown) /\ Len(s) = n
    BY <2>5, <2>6
  <2> QED BY <2>1, <2>2, <2>5, <2>7
<1>8. OverviewScript = InOrder(Under("confirmed"), Ranking) \o InOrder(Under("hotspot"), Ranking)
                         \o InOrder(Under("signal"), Ranking)
  BY <1>5 DEF OverviewScript
<1>9. ToSet(OverviewScript) = Listed /\ Len(OverviewScript) = Cardinality(Listed)
  <2>1. PICK a, b, c, A, B, C :
          /\ a = InOrder(Under("confirmed"), Ranking) /\ A = Under("confirmed")
          /\ b = InOrder(Under("hotspot"), Ranking) /\ B = Under("hotspot")
          /\ c = InOrder(Under("signal"), Ranking) /\ C = Under("signal")
    OBVIOUS
  <2>2. /\ a \in Seq(shown) /\ ToSet(a) = A /\ Len(a) = Cardinality(A)
        /\ b \in Seq(shown) /\ ToSet(b) = B /\ Len(b) = Cardinality(B)
        /\ c \in Seq(shown) /\ ToSet(c) = C /\ Len(c) = Cardinality(C)
        /\ IsFiniteSet(A) /\ IsFiniteSet(B) /\ IsFiniteSet(C)
        /\ Cardinality(A) \in Nat /\ Cardinality(B) \in Nat /\ Cardinality(C) \in Nat
    BY <1>7, <2>1
  <2>3. PICK d \in Seq(shown) : d = a \o b /\ ToSet(d) = A \cup B /\ Len(d) = Len(a) + Len(b)
    <3>1. /\ a \o b \in Seq(shown) /\ ToSet(a \o b) = ToSet(a) \cup ToSet(b)
          /\ Len(a \o b) = Len(a) + Len(b)
      BY <2>2, ToSetOfTwo
    <3> QED BY <2>2, <3>1
  <2>4. ToSet(d \o c) = (A \cup B) \cup C /\ Len(d \o c) = Len(d) + Len(c)
    <3>1. ToSet(d \o c) = ToSet(d) \cup ToSet(c) /\ Len(d \o c) = Len(d) + Len(c)
      BY <2>2, ToSetOfTwo
    <3> QED BY <2>2, <2>3, <3>1
  <2>5. A \cap B = {} /\ (A \cup B) \cap C = {}
    BY <2>1 DEF Under
  <2>6. PICK u : u = A \cup B
    OBVIOUS
  <2>7. IsFiniteSet(u) /\ Cardinality(u) = Cardinality(A) + Cardinality(B)
    BY <2>2, <2>5, <2>6, DisjointUnion
  <2>8. Cardinality(u \cup C) = Cardinality(u) + Cardinality(C)
    <3>1. u \cap C = {}
      BY <2>5, <2>6
    <3> QED BY <2>2, <2>7, <3>1, DisjointUnion
  <2>9. Listed = u \cup C
    BY <1>6, <2>1, <2>6
  <2>10. OverviewScript = d \o c
    BY <1>8, <2>1, <2>3
  <2> QED BY <2>2, <2>3, <2>4, <2>6, <2>7, <2>8, <2>9, <2>10
<1>10. Counts.total = Counts.included + Counts.rejected + Counts.unreviewed
  <2> DEFINE rejected == {i \in shown : overview[i].review = "exclude"}
             unreviewed == {i \in shown : overview[i].review = "none"}
  <2>1. /\ shown = (Listed \cup rejected) \cup unreviewed
        /\ Listed \cap rejected = {} /\ (Listed \cup rejected) \cap unreviewed = {}
    BY <1>3 DEF KeptBy, RowReviews
  <2>2. /\ Listed \in SUBSET shown /\ rejected \in SUBSET shown /\ unreviewed \in SUBSET shown
    BY <1>3
  <2> HIDE DEF rejected, unreviewed
  <2>3. IsFiniteSet(Listed) /\ IsFiniteSet(rejected) /\ IsFiniteSet(unreviewed)
    BY <1>2, <2>2, FS_Subset
  <2>5. /\ IsFiniteSet(Listed \cup rejected)
        /\ Cardinality(Listed \cup rejected) = Cardinality(Listed) + Cardinality(rejected)
        /\ Cardinality(Listed) \in Nat /\ Cardinality(rejected) \in Nat
    BY <2>1, <2>3, DisjointUnion
  <2>6. Cardinality(shown) = Cardinality(Listed \cup rejected) + Cardinality(unreviewed)
    <3>1. PICK u : u = Listed \cup rejected
      OBVIOUS
    <3>2. IsFiniteSet(u) /\ u \cap unreviewed = {} /\ shown = u \cup unreviewed
      BY <2>1, <2>5, <3>1
    <3>3. Cardinality(shown) = Cardinality(u) + Cardinality(unreviewed)
      BY <2>3, <3>2, DisjointUnion
    <3> QED BY <3>1, <3>3
  <2>7. /\ Counts.total = Cardinality(shown) /\ Counts.included = Cardinality(Listed)
        /\ Counts.rejected = Cardinality(rejected) /\ Counts.unreviewed = Cardinality(unreviewed)
    BY <1>2 DEF Counts, rejected, unreviewed
  <2> QED BY <2>5, <2>6, <2>7
<1> QED BY <1>6, <1>8, <1>9, <1>10 DEF SpokenIsListed

(* What an archived report was checked for stays true of it, and what is   *)
(* queued was checked.                                                     *)
Checked ==
  /\ pageStatus = "none" => overview = <<>> /\ decision = <<>>
  /\ pageStatus # "archived" => ~package /\ \A r \in Renditions : audio[r] = "none"
  /\ pageStatus = "archived" => TextIntegrity
  /\ audio["overview"] # "none" => MayBeSpoken
  /\ package => \A i \in DOMAIN decision : decision[i].review # "none"
PageInv == PageTypes /\ Checked /\ AcceptedIsSpoken

(* What the handler makes of an overview that may be spoken.               *)
LEMMA OverviewIsSpoken ==
  ASSUME PageTypes, TextIntegrity, MayBeSpoken
  PROVE  \/ OverviewOutcome = "spoken"
         \/ OverviewOutcome = "text_corrupted" /\ \E i \in Listed : ~overview[i].whole
<1>1. /\ Ready.total # 0 /\ Ready.reviewed = Ready.total /\ Ready.included # 0
  <2>1. MayBeSpoken => Ready.total # 0 /\ Ready.included # 0
    BY DEF MayBeSpoken
  <2> QED BY <2>1 DEF MayBeSpoken
<1>2. Cardinality(Listed) = Ready.included
  BY DEF Ready, Listed
<1>3. /\ Under("confirmed") \cup Under("hotspot") \cup Under("signal") = Listed
      /\ ToSet(OverviewScript) = Listed
  BY SpeechIsListed DEF SpokenIsListed
<1>4. \A i \in Listed : ~RowWhole(i) => ~overview[i].whole
  BY DEF RowWhole, Listed, TextIntegrity, CorruptedReviews, CorruptedRows
<1> QED BY <1>1, <1>2, <1>3, <1>4 DEF OverviewOutcome

(* What it makes of a decision edition that was reviewed.                  *)
LEMMA DecisionIsSpoken ==
  ASSUME PageTypes, \A i \in DOMAIN decision : decision[i].review # "none"
  PROVE  DecisionOutcome = "spoken"
<1>1. Len(decision) \in Nat /\ DOMAIN decision = 1 .. Len(decision)
  BY DEF PageTypes
<1> DEFINE In(s) == {i \in DOMAIN decision : decision[i].included /\ Section(decision[i]) = s}
<1>2. ASSUME NEW s PROVE InOrder(In(s), Position(DOMAIN decision)) \in Seq(DOMAIN decision)
  <2>1. In(s) \in SUBSET Nat /\ IsFiniteSet(In(s)) /\ In(s) \in SUBSET DOMAIN decision
    <3>1. In(s) \in SUBSET (1 .. Len(decision)) /\ IsFiniteSet(1 .. Len(decision))
      BY <1>1, FS_Interval
    <3> QED BY <1>1, <3>1, FS_Subset
  <2>p. PICK place : place = Position(DOMAIN decision)
    OBVIOUS
  <2>f. \A x \in In(s) : place[x] = x
    BY <2>1, <2>p DEF Position
  <2>2. PICK n, q : n \in Nat /\ q = InOrder(In(s), place) /\ q \in [1..n -> In(s)]
    BY <2>1, <2>f, InPosition
  <2>3. q \in [1..n -> DOMAIN decision]
    BY <2>1, <2>2
  <2>4. q \in Seq(DOMAIN decision)
    BY <2>2, <2>3
  <2> QED BY <2>2, <2>4, <2>p
<1>3. DecisionScript = InOrder(In("confirmed"), Position(DOMAIN decision))
                         \o InOrder(In("emerging"), Position(DOMAIN decision))
  BY DEF DecisionScript
<1> HIDE DEF In
<1>4. DecisionScript \in Seq(DOMAIN decision)
  BY <1>2, <1>3, ConcatProperties
<1>5. \A i \in ToSet(DecisionScript) : i \in DOMAIN decision
  BY <1>4 DEF ToSet
<1> QED BY <1>5 DEF DecisionOutcome, ItemWhole
(* One step of the page, of its editor or of its handler.                  *)
LEMMA DraftedKeeps == ASSUME PageInv, Drafted PROVE PageInv'
<1>1. PICK shown \in {{}, Rows}, inherited \in RowReviews, chosen \in SUBSET Rows :
        /\ overview' \in [shown -> [tier : Tiers, rank : Rows, whole : BOOLEAN, review : {"none", inherited}]]
        /\ \A i, j \in shown : overview'[i].rank = overview'[j].rank => i = j
        /\ decision' = [i \in DOMAIN InOrder(chosen, Position(chosen)) |->
                          Chosen(InOrder(chosen, Position(chosen))[i], inherited)]
  BY DEF Drafted
<1>2. overview' \in [shown -> PageRows]
  BY <1>1 DEF PageRows, RowReviews
<1>3. decision' \in Seq(PageItems)
  <2>1. chosen \in SUBSET Nat /\ IsFiniteSet(chosen)
    BY RowsAssumption, FS_Subset
  <2>p. PICK place : place = Position(chosen)
    OBVIOUS
  <2>f. \A x \in chosen : place[x] = x
    BY <2>p DEF Position
  <2>2. PICK n, q : n \in Nat /\ q = InOrder(chosen, place) /\ q \in [1..n -> chosen]
    BY <2>1, <2>f, InPosition
  <2>3. decision' = [i \in 1..n |-> Chosen(q[i], inherited)]
    BY <1>1, <2>2, <2>p
  <2>4. \A i \in 1..n : Chosen(q[i], inherited) \in PageItems
    BY <2>2 DEF Chosen, PageItems
  <2>5. decision' \in [1..n -> PageItems]
    BY <2>3, <2>4
  <2> QED BY <2>2, <2>5
<1>4. pageStatus' = "draft" /\ UNCHANGED <<package, audio>> /\ pageStatus = "none"
  BY DEF Drafted
<1>5. PageTypes'
  <2>1. \A i, j \in DOMAIN overview' : overview'[i].rank = overview'[j].rank => i = j
    BY <1>1, <1>2
  <2> QED BY <1>2, <1>3, <1>4, <2>1 DEF PageInv, PageTypes
<1>6. ~package /\ \A r \in Renditions : audio[r] = "none"
  BY <1>4 DEF PageInv, Checked
<1>7. Checked' /\ AcceptedIsSpoken'
  BY <1>4, <1>6 DEF Checked, AcceptedIsSpoken, Renditions
<1> QED BY <1>5, <1>7 DEF PageInv

(* An edit of a draft, which has no audio yet.                             *)
LEMMA EditKeeps ==
  ASSUME PageInv, Edited,
         \E shown \in {{}, Rows} : overview' \in [shown -> PageRows], decision' \in Seq(PageItems),
         \A i, j \in DOMAIN overview' : overview'[i].rank = overview'[j].rank => i = j
  PROVE  PageInv'
<1>1. pageStatus = "draft" /\ UNCHANGED <<pageStatus, package, audio>>
  BY DEF Edited
<1>2. PageTypes'
  BY <1>1 DEF PageInv, PageTypes
<1>3. ~package /\ \A r \in Renditions : audio[r] = "none"
  BY <1>1 DEF PageInv, Checked
<1>4. Checked' /\ AcceptedIsSpoken'
  BY <1>1, <1>3 DEF Checked, AcceptedIsSpoken, Renditions
<1> QED BY <1>2, <1>4 DEF PageInv

(* move_item: there is a next one of the section.                          *)
LEMMA MoveDownKeeps ==
  ASSUME PageInv, NEW i \in DOMAIN decision, MoveDown(i)
  PROVE  PageInv'
<1> DEFINE below == {k \in i + 1 .. Len(decision) : Section(decision[k]) = Section(decision[i])}
           j == CHOOSE k \in below : \A m \in below : k <= m
<1>1. /\ Edited /\ below # {} /\ UNCHANGED overview
      /\ decision' = [decision EXCEPT ![i] = decision[j], ![j] = decision[i]]
  BY DEF MoveDown
<1>2. PICK d \in Seq(PageItems) : d = decision
  BY DEF PageInv, PageTypes
<1>3. Len(d) \in Nat /\ DOMAIN d = 1 .. Len(d) /\ i \in 1 .. Len(d)
  BY <1>2
<1>4. below \in SUBSET (1 .. Len(d)) /\ IsFiniteSet(below) /\ below \in SUBSET Nat
  <2>1. below \in SUBSET (1 .. Len(d)) /\ IsFiniteSet(1 .. Len(d))
    BY <1>2, <1>3, FS_Interval
  <2> QED BY <2>1, FS_Subset
<1> HIDE DEF below
<1>5. \E k \in below : \A m \in below : k <= m
  <2>1. PICK n, q : /\ n \in Nat /\ q \in [1..n -> below] /\ ToSet(q) = below
                     /\ \A a, b \in 1..n : a < b => q[a] < q[b]
    <3>1. PICK place : place = Position(below)
      OBVIOUS
    <3>2. \A x \in below : place[x] = x
      BY <3>1 DEF Position
    <3>3. PICK n, q : n = Cardinality(below) /\ q = InOrder(below, place)
      OBVIOUS
    <3> QED BY <1>4, <3>2, <3>3, InPosition
  <2>2. \A m \in below : \E a \in 1..n : m = q[a]
    BY <2>1 DEF ToSet
  <2>3. 1 \in 1..n /\ q[1] \in below
    <3>1. n # 0
      BY <1>1, <2>2
    <3>2. 1 \in 1..n
      BY <2>1, <3>1
    <3> QED BY <2>1, <3>2
  <2>4. ASSUME NEW m \in below PROVE q[1] <= m
    <3>1. PICK a \in 1..n : m = q[a]
      BY <2>2
    <3>2. a = 1 \/ 1 < a
      OBVIOUS
    <3>3. q[1] = m \/ q[1] < m
      BY <2>1, <2>3, <3>1, <3>2
    <3>4. q[1] \in Nat /\ m \in Nat
      BY <1>4, <2>3
    <3> QED BY <3>3, <3>4
  <2> QED BY <2>3, <2>4
<1>6. j \in below
  BY <1>5
<1> HIDE DEF j
<1>7. j \in 1 .. Len(d)
  BY <1>4, <1>6
<1>8. d[i] \in PageItems /\ d[j] \in PageItems
  BY <1>3, <1>7
<1>9. PICK e \in Seq(PageItems) : e = [d EXCEPT ![i] = d[j]] /\ Len(e) = Len(d)
  <2>1. PICK x \in PageItems : x = d[j]
    BY <1>8
  <2>2. [d EXCEPT ![i] = x] \in Seq(PageItems) /\ Len([d EXCEPT ![i] = x]) = Len(d)
    BY <1>3, ExceptSeq
  <2> QED BY <2>1, <2>2
<1>10. [e EXCEPT ![j] = d[i]] \in Seq(PageItems)
  BY <1>7, <1>8, <1>9, ExceptSeq
<1>11. decision' \in Seq(PageItems)
  BY <1>1, <1>2, <1>9, <1>10
<1>12. /\ \E shown \in {{}, Rows} : overview' \in [shown -> PageRows]
       /\ \A k, m \in DOMAIN overview' : overview'[k].rank = overview'[m].rank => k = m
  BY <1>1 DEF PageInv, PageTypes
<1> QED BY <1>1, <1>11, <1>12, EditKeeps

(* The reviews of rows and items.                                          *)
LEMMA ReviewKeeps ==
  ASSUME PageInv,
         \/ \E i \in DOMAIN overview, review \in EditorReviews : ReviewOverview(i, review)
         \/ \E i \in DOMAIN decision :
              Include(i) \/ \E review \in EditorReviews : ReviewDecision(i, review)
  PROVE  PageInv'
<1>1. PICK shown \in {{}, Rows} : overview \in [shown -> PageRows]
  BY DEF PageInv, PageTypes
<1>r. \A i, j \in DOMAIN overview : overview[i].rank = overview[j].rank => i = j
  BY DEF PageInv, PageTypes
<1>2. EditorReviews \subseteq RowReviews
  BY DEF EditorReviews, RowReviews
<1>3. CASE \E i \in DOMAIN overview, review \in EditorReviews : ReviewOverview(i, review)
  <2>1. PICK i \in shown, review \in EditorReviews : ReviewOverview(i, review)
    BY <1>1, <1>3
  <2>2. Edited /\ overview' = [overview EXCEPT ![i].review = review] /\ UNCHANGED decision
    BY <2>1 DEF ReviewOverview
  <2>3. overview' \in [shown -> PageRows]
    BY <1>1, <1>2, <2>2 DEF PageRows
  <2>4. decision' \in Seq(PageItems)
    BY <2>2 DEF PageInv, PageTypes
  <2>5. \A k \in shown : overview'[k].rank = overview[k].rank
    BY <1>1, <2>2 DEF PageRows
  <2>6. \A k, j \in DOMAIN overview' : overview'[k].rank = overview'[j].rank => k = j
    BY <1>1, <1>r, <2>3, <2>5
  <2> QED BY <2>2, <2>3, <2>4, <2>6, EditKeeps
<1>4. CASE \E i \in DOMAIN decision : Include(i) \/ \E review \in EditorReviews : ReviewDecision(i, review)
  <2>1. PICK d \in Seq(PageItems) : d = decision
    BY DEF PageInv, PageTypes
  <2>2. PICK i \in 1 .. Len(d) : Include(i) \/ \E review \in EditorReviews : ReviewDecision(i, review)
    BY <1>4, <2>1
  <2>3. d[i] \in PageItems
    OBVIOUS
  <2>4. \E x \in PageItems : decision' = [d EXCEPT ![i] = x]
    <3>1. CASE Include(i)
      <4>1. decision' = [d EXCEPT ![i] = [d[i] EXCEPT !.included = ~d[i].included]]
        BY <2>1, <3>1 DEF Include
      <4>2. [d[i] EXCEPT !.included = ~d[i].included] \in PageItems
        BY <2>3 DEF PageItems
      <4> QED BY <4>1, <4>2
    <3>2. CASE \E review \in EditorReviews : ReviewDecision(i, review)
      <4>1. PICK review \in EditorReviews : ReviewDecision(i, review)
        BY <3>2
      <4>2. decision' = [d EXCEPT ![i] = [d[i] EXCEPT !.review = review, !.included = KeptBy(review)]]
        <5>1. decision' = [d EXCEPT ![i].review = review, ![i].included = KeptBy(review)]
          BY <2>1, <4>1 DEF ReviewDecision
        <5> QED BY <5>1, <2>3 DEF PageItems
      <4>3. [d[i] EXCEPT !.review = review, !.included = KeptBy(review)] \in PageItems
        <5>1. PICK x \in PageItems, kept \in BOOLEAN, v \in RowReviews :
                x = d[i] /\ kept = KeptBy(review) /\ v = review
          <6>1. KeptBy(review) \in BOOLEAN
            BY DEF KeptBy
          <6> QED BY <1>2, <2>3, <6>1
        <5>2. [x EXCEPT !.review = v] \in PageItems
          BY DEF PageItems
        <5>3. PICK y \in PageItems : y = [x EXCEPT !.review = v]
          BY <5>2
        <5>4. [y EXCEPT !.included = kept] \in PageItems
          BY DEF PageItems
        <5>5. [x EXCEPT !.review = v, !.included = kept] = [y EXCEPT !.included = kept]
          BY <5>3
        <5> QED BY <5>1, <5>4, <5>5
      <4> QED BY <4>2, <4>3
    <3> QED BY <2>2, <3>1, <3>2
  <2>5. decision' \in Seq(PageItems)
    BY <2>4, ExceptSeq
  <2>6. Edited /\ UNCHANGED overview
    BY <2>2 DEF Include, ReviewDecision
  <2> QED BY <1>1, <1>r, <2>5, <2>6, EditKeeps
<1> QED BY <1>3, <1>4

(* It is archived after it was checked.                                    *)
LEMMA ArchiveKeeps ==
  ASSUME PageInv, ArchivePackage \/ ArchiveWithDecision
  PROVE  PageInv'
<1>1. /\ pageStatus = "draft" /\ pageStatus' = "archived" /\ TextIntegrity
      /\ overview' = overview /\ decision' = decision
  BY DEF ArchivePackage, ArchiveWithDecision, PackageReady
<1>2. ~package /\ \A r \in Renditions : audio[r] = "none"
  BY <1>1 DEF PageInv, Checked
<1>3. (TextIntegrity <=> TextIntegrity') /\ (MayBeSpoken <=> MayBeSpoken')
  BY <1>1 DEF TextIntegrity, CorruptedReviews, CorruptedRows, CorruptedItems, MayBeSpoken, Ready
<1>4. audio \in [Renditions -> Renderings]
  BY DEF PageInv, PageTypes
<1>5. CASE ArchivePackage
  <2>1. package' = TRUE /\ audio' = [r \in Renditions |-> "queued"] /\ MayBeSpoken
        /\ \A i \in DOMAIN decision : decision[i].review # "none"
    BY <1>5 DEF ArchivePackage, PackageReady
  <2>2. PageTypes'
    BY <1>1, <2>1 DEF PageInv, PageTypes, Renderings
  <2>3. Checked' /\ AcceptedIsSpoken'
    BY <1>1, <1>3, <2>1 DEF Checked, AcceptedIsSpoken, Renditions
  <2> QED BY <2>2, <2>3 DEF PageInv
<1>6. CASE ArchiveWithDecision
  <2>1. package' = package /\ audio' = [audio EXCEPT !["decision"] = "queued"]
    BY <1>6 DEF ArchiveWithDecision
  <2>2. PageTypes'
    BY <1>1, <1>4, <2>1 DEF PageInv, PageTypes, Renderings
  <2>3. Checked' /\ AcceptedIsSpoken'
    BY <1>1, <1>2, <1>3, <1>4, <2>1 DEF Checked, AcceptedIsSpoken, Renditions
  <2> QED BY <2>2, <2>3 DEF PageInv
<1> QED BY <1>5, <1>6

(* A rendition of an archived report is enqueued, or made.                 *)
LEMMA AudioKeeps ==
  ASSUME PageInv, NEW r \in Renditions, Enqueue(r) \/ Speak(r)
  PROVE  PageInv'
<1>1. /\ pageStatus = "archived" /\ pageStatus' = "archived"
      /\ overview' = overview /\ decision' = decision /\ package' = package
  BY DEF Enqueue, Speak
<1>2. /\ TextIntegrity <=> TextIntegrity'
      /\ MayBeSpoken <=> MayBeSpoken'
      /\ Listed' = Listed
  BY <1>1 DEF TextIntegrity, CorruptedReviews, CorruptedRows, CorruptedItems, MayBeSpoken, Ready, Listed
<1>3. /\ audio \in [Renditions -> Renderings] /\ TextIntegrity
      /\ audio["overview"] # "none" => MayBeSpoken
  BY <1>1 DEF PageInv, PageTypes, Checked
<1>4. PICK x \in Renderings :
        /\ audio' = [audio EXCEPT ![r] = x]
        /\ r = "overview" => /\ MayBeSpoken
                             /\ \/ x \in {"queued", "spoken"}
                                \/ x = "text_corrupted" /\ \E i \in Listed : ~overview[i].whole
        /\ r = "decision" /\ package => x \in {"queued", "spoken"}
  <2>1. CASE Enqueue(r)
    BY <2>1 DEF Enqueue, Renderings
  <2>2. CASE Speak(r) /\ r = "overview"
    <3>1. MayBeSpoken
      BY <1>3, <2>2 DEF Speak, Active
    <3>2. audio' = [audio EXCEPT ![r] = OverviewOutcome]
      BY <2>2 DEF Speak
    <3>3. \/ OverviewOutcome = "spoken"
          \/ OverviewOutcome = "text_corrupted" /\ \E i \in Listed : ~overview[i].whole
      BY <1>3, <3>1, OverviewIsSpoken DEF PageInv
    <3> QED BY <2>2, <3>1, <3>2, <3>3 DEF Renderings
  <2>3. CASE Speak(r) /\ r = "decision"
    <3>1. audio' = [audio EXCEPT ![r] = DecisionOutcome]
      BY <2>3 DEF Speak
    <3>2. DecisionOutcome \in {"spoken", "text_corrupted"}
      BY DEF DecisionOutcome
    <3>3. package => DecisionOutcome = "spoken"
      BY DecisionIsSpoken DEF PageInv, Checked
    <3> QED BY <2>3, <3>1, <3>2, <3>3 DEF Renderings
  <2> QED BY <2>1, <2>2, <2>3 DEF Renditions
<1>5. PageTypes'
  BY <1>1, <1>3, <1>4 DEF PageInv, PageTypes
<1>6. Checked'
  <2>1. audio'["overview"] # "none" => MayBeSpoken
    BY <1>3, <1>4 DEF Renditions
  <2> QED BY <1>1, <1>2, <1>3, <2>1 DEF PageInv, Checked
<1>7. AcceptedIsSpoken'
  <2>1. \/ audio'["overview"] \in {"none", "queued", "spoken"}
        \/ audio'["overview"] = "text_corrupted" /\ \E i \in Listed : ~overview[i].whole
    BY <1>3, <1>4 DEF PageInv, AcceptedIsSpoken, Renditions
  <2>2. package => audio'["decision"] \in {"queued", "spoken"}
    BY <1>3, <1>4 DEF PageInv, AcceptedIsSpoken, Renditions
  <2> QED BY <1>1, <1>2, <2>1, <2>2 DEF AcceptedIsSpoken
<1> QED BY <1>5, <1>6, <1>7 DEF PageInv

(* PageInv holds of every state.                                           *)
LEMMA PageInvariance == PageReportSpec => []PageInv
<1>1. PageReportInit => PageInv
  <2> SUFFICES ASSUME PageReportInit PROVE PageInv
    OBVIOUS
  <2>1. overview \in [{} -> PageRows] /\ decision \in Seq(PageItems)
    BY DEF PageReportInit
  <2>2. PageTypes
    BY <2>1 DEF PageReportInit, PageTypes, Renderings
  <2>3. Checked /\ AcceptedIsSpoken
    BY DEF PageReportInit, Checked, AcceptedIsSpoken, Renditions
  <2> QED BY <2>2, <2>3 DEF PageInv
<1>2. PageInv /\ [PageReportNext]_pageState => PageInv'
  <2> SUFFICES ASSUME PageInv, [PageReportNext]_pageState PROVE PageInv'
    OBVIOUS
  <2>1. CASE Drafted
    BY <2>1, DraftedKeeps
  <2>2. CASE ArchivePackage \/ ArchiveWithDecision
    BY <2>2, ArchiveKeeps
  <2>3. CASE \E i \in DOMAIN decision : MoveDown(i)
    BY <2>3, MoveDownKeeps
  <2>4. CASE \/ \E i \in DOMAIN overview, review \in EditorReviews : ReviewOverview(i, review)
             \/ \E i \in DOMAIN decision :
                  Include(i) \/ \E review \in EditorReviews : ReviewDecision(i, review)
    BY <2>4, ReviewKeeps
  <2>5. CASE \E r \in Renditions : Enqueue(r) \/ Speak(r)
    BY <2>5, AudioKeeps
  <2>6. CASE UNCHANGED pageState
    BY <2>6 DEF pageState, PageInv, PageTypes, Checked, TextIntegrity, CorruptedReviews, CorruptedRows,
                CorruptedItems, MayBeSpoken, Ready, AcceptedIsSpoken, Listed
  <2> QED BY <2>1, <2>2, <2>3, <2>4, <2>5, <2>6 DEF PageReportNext
<1> QED BY <1>1, <1>2, PTL DEF PageReportSpec

(* The audios of a report are those its page promises (PageIsSpoken), for  *)
(* any number of rows.                                                     *)
THEOREM PageSpoken == PageReportSpec => []PageIsSpoken
<1>1. PageInv => PageIsSpoken
  BY SpeechIsListed DEF PageInv, PageIsSpoken
<1> QED BY <1>1, PageInvariance, PTL

---------------------------------------------------------------------------
(* Row locks.                                                              *)

(* The order of the tables that the transactions keep to.                  *)
Rank(row) ==
  CASE row[1] = "high_value_wave_member" -> 1 [] row[1] = "operation_attempt" -> 2
    [] row[1] = "operation_run" -> 3 [] row[1] = "worker" -> 4

RankAscends(t) ==
  /\ Len(t) \in Nat
  /\ \A i \in 1..Len(t) : Rank(t[i].row) \in 1..4
  /\ \A i, j \in 1..Len(t) : i < j => Rank(t[i].row) < Rank(t[j].row)

(* Of a transaction that is open, that it is one of its process.           *)
LockInv ==
  /\ DOMAIN txn = Processes /\ held \in [Processes -> Nat]
  /\ \A p \in Processes : txn[p] \in Transactions(p) \cup {<<>>}

LEMMA RowRanks ==
  /\ \A m : Rank(Member(m)) = 1
  /\ \A a : Rank(Attempt(a)) = 2 /\ Rank(Worker(a)) = 4
  /\ Rank(Operation) = 3
BY DEF Rank, Member, Attempt, Worker, Operation

LEMMA AscendingLists ==
  ASSUME NEW x, NEW y, NEW z, Rank(x.row) \in 1..4, Rank(y.row) \in 1..4, Rank(z.row) \in 1..4
  PROVE  /\ RankAscends(<<>>) /\ RankAscends(<<x>>)
         /\ Rank(x.row) < Rank(y.row) => RankAscends(<<x, y>>)
         /\ Rank(x.row) < Rank(y.row) /\ Rank(y.row) < Rank(z.row) =>
              RankAscends(Append(<<x, y>>, z))
<1>1. RankAscends(<<>>) /\ RankAscends(<<x>>) BY DEF RankAscends
<1>2. ASSUME Rank(x.row) < Rank(y.row) PROVE RankAscends(<<x, y>>) BY <1>2 DEF RankAscends
<1>3. ASSUME Rank(x.row) < Rank(y.row), Rank(y.row) < Rank(z.row)
      PROVE  RankAscends(Append(<<x, y>>, z))
  <2> DEFINE t == Append(<<x, y>>, z)
  <2>1. <<x, y>> \in Seq({x, y, z}) /\ Len(<<x, y>>) = 2 /\ <<x, y>>[1] = x /\ <<x, y>>[2] = y
    OBVIOUS
  <2>2. Len(t) = 3 /\ t[1] = x /\ t[2] = y /\ t[3] = z
    BY <2>1, AppendProperties
  <2> HIDE DEF t
  <2>3. RankAscends(t)
    <3>1. \A i \in 1..3 : i = 1 \/ i = 2 \/ i = 3 OBVIOUS
    <3> QED BY <1>3, <2>2, <3>1 DEF RankAscends
  <2> QED BY <2>3 DEF t
<1> QED BY <1>1, <1>2, <1>3

LEMMA TransactionsAscend ==
  ASSUME NEW p \in Processes, NEW t \in Transactions(p), p # "worker2" \/ t # Reclaim
  PROVE  RankAscends(t)
<1>1. \A row, mode : Lock(row, mode).row = row BY DEF Lock
<1> DEFINE a == AttemptOf(p)
<1>2. CASE p \in {"monitor1", "monitor2"}
  <2>1. t = Append(<<Lock(Attempt(a), "update"), Lock(Operation, "update")>>,
                   Lock(Worker(a), "no_key_update"))
    BY <1>2 DEF Transactions, Maintain, LeaseRows
  <2> DEFINE x == Lock(Attempt(a), "update")
             y == Lock(Operation, "update")
             z == Lock(Worker(a), "no_key_update")
  <2>2. Rank(x.row) = 2 /\ Rank(y.row) = 3 /\ Rank(z.row) = 4 BY <1>1, RowRanks
  <2>3. t = Append(<<x, y>>, z) BY <2>1
  <2> HIDE DEF x, y, z
  <2>4. RankAscends(Append(<<x, y>>, z))
    <3>1. /\ Rank(x.row) \in 1..4 /\ Rank(y.row) \in 1..4 /\ Rank(z.row) \in 1..4
          /\ Rank(x.row) < Rank(y.row) /\ Rank(y.row) < Rank(z.row)
      BY ONLY <2>2
    <3> QED BY ONLY <3>1, AscendingLists
  <2> QED BY <2>3, <2>4
<1>3. CASE p \in {"handler1", "handler2"}
  <2>1. PICK m \in Members : t \in {ClaimMember(a, m), FinishMember(m), ClaimAndFinish(a, m)}
    BY <1>3 DEF Transactions
  <2> DEFINE x == Lock(Member(m), "update")
             y == Lock(Attempt(a), "key_share")
             z == Lock(Operation, "no_key_update")
  <2>2. t \in {<<x, y>>, <<x, z>>, Append(<<x, y>>, z)}
    BY <2>1 DEF ClaimMember, FinishMember, ClaimAndFinish
  <2>3. Rank(x.row) = 1 /\ Rank(y.row) = 2 /\ Rank(z.row) = 3 BY <1>1, RowRanks
  <2> HIDE DEF x, y, z
  <2>4. /\ Rank(x.row) \in 1..4 /\ Rank(y.row) \in 1..4 /\ Rank(z.row) \in 1..4
        /\ Rank(x.row) < Rank(y.row) /\ Rank(y.row) < Rank(z.row) /\ Rank(x.row) < Rank(z.row)
    BY ONLY <2>3
  <2>5. RankAscends(<<x, y>>) /\ RankAscends(<<x, z>>) /\ RankAscends(Append(<<x, y>>, z))
    BY ONLY <2>4, AscendingLists
  <2> QED BY <2>2, <2>5
<1>4. CASE p \in {"worker1", "worker2", "web"}
  <2>1. \E row, mode : t = <<Lock(row, mode)>> /\ Rank(row) \in 1..4
    BY <1>4, RowRanks DEF Transactions, Heartbeat, CancelLocks
  <2>2. PICK row, mode : t = <<Lock(row, mode)>> /\ Rank(row) \in 1..4 BY <2>1
  <2> DEFINE x == Lock(row, mode)
  <2>3. Rank(x.row) \in 1..4 BY <1>1, <2>2
  <2> HIDE DEF x
  <2>4. RankAscends(<<x>>) BY <2>3, AscendingLists
  <2> QED BY <2>2, <2>4 DEF x
<1> QED BY <1>2, <1>3, <1>4 DEF Processes

LEMMA LockInvNext == LockInv /\ [LocksNext]_lockVars => LockInv'
<1> SUFFICES ASSUME LockInv, [LocksNext]_lockVars PROVE LockInv'
  OBVIOUS
<1>1. CASE UNCHANGED lockVars BY <1>1 DEF lockVars, LockInv
<1>2. ASSUME NEW p \in Processes, Close(p) PROVE LockInv' BY <1>2 DEF Close, LockInv
<1>3. ASSUME NEW p \in Processes, Acquire(p) PROVE LockInv' BY <1>3 DEF Acquire, LockInv
<1>4. ASSUME NEW p \in Processes, NEW t \in Transactions(p), Begin(p, t) PROVE LockInv'
  BY <1>4 DEF Begin, LockInv
<1> QED BY <1>1, <1>2, <1>3, <1>4 DEF LocksNext, Commit, GiveUp

(* A circle in which every transaction keeps to the order of the tables    *)
(* cannot be: each of them waits for a row of a later table than the one   *)
(* before it in the circle.                                                *)
LEMMA NoAscendingCircle ==
  ASSUME LockInv, NEW circle \in SUBSET Processes, WaitInCircle(circle),
         "worker2" \notin circle \/ txn["worker2"] # Reclaim
  PROVE  FALSE
<1> DEFINE Need(p) == Rank(txn[p][held[p] + 1].row)
<1>1. ASSUME NEW p \in circle PROVE RankAscends(txn[p]) /\ held[p] + 1 \in 1..Len(txn[p])
  <2>1. p \in Processes /\ held[p] \in Nat /\ held[p] < Len(txn[p])
    BY <1>1 DEF WaitInCircle, Waits, Wants, LockInv
  <2>2. txn[p] \in Transactions(p) BY <1>1, <2>1 DEF WaitInCircle, Waits, Wants, Open, LockInv
  <2>3. RankAscends(txn[p]) BY <1>1, <2>1, <2>2, TransactionsAscend
  <2> QED BY <2>1, <2>3 DEF RankAscends
<1>2. ASSUME NEW p \in circle PROVE Need(p) \in 1..4 /\ \E q \in circle : Need(p) < Need(q)
  <2>1. PICK q \in circle : q \in Blockers(p) BY <1>2 DEF WaitInCircle
  <2>2. PICK i \in 1..held[q] : Conflict(txn[p][held[p] + 1], txn[q][i]) BY <2>1 DEF Blockers
  <2>3. Rank(txn[q][i].row) = Need(p) BY <2>2 DEF Conflict
  <2>4. held[q] \in Nat BY DEF LockInv
  <2>5. i \in 1..Len(txn[q]) /\ held[q] + 1 \in 1..Len(txn[q]) /\ i < held[q] + 1
    BY <1>1, <2>4 DEF RankAscends
  <2>6. Rank(txn[q][i].row) < Need(q) BY <1>1, <2>5 DEF RankAscends
  <2>7. Need(p) \in 1..4 BY <1>1, <1>2 DEF RankAscends
  <2> QED BY <2>3, <2>6, <2>7
<1> HIDE DEF Need
<1>3. \A p \in circle : Need(p) # 4 BY <1>2
<1>4. \A p \in circle : Need(p) # 3 BY <1>2, <1>3
<1>5. \A p \in circle : Need(p) # 2 BY <1>2, <1>3, <1>4
<1>6. \A p \in circle : Need(p) # 1 BY <1>2, <1>3, <1>4, <1>5
<1> QED BY <1>2, <1>3, <1>4, <1>5, <1>6 DEF WaitInCircle

LEMMA ReclaimLocks ==
  /\ Len(Reclaim) = 4
  /\ Reclaim[1] = Lock(Operation, "update") /\ Reclaim[2] = Lock(Attempt(1), "no_key_update")
  /\ Reclaim[3] = Lock(Worker(1), "no_key_update") /\ Reclaim[4] = Lock(Worker(2), "no_key_update")
BY DEF Reclaim

(* Who holds the row of an attempt against a reclaim is its lease monitor. *)
LEMMA HoldsAttempt ==
  ASSUME NEW q \in Processes, q # "worker2", NEW t \in Transactions(q), NEW i \in 1..Len(t),
         Conflict(Lock(Attempt(1), "no_key_update"), t[i])
  PROVE  q = "monitor1"
<1>1. t[i].row = Attempt(1) /\ t[i].mode \in {"update", "no_key_update"} BY DEF Conflict, Lock
<1>2. \A row, mode : Lock(row, mode).row = row /\ Lock(row, mode).mode = mode BY DEF Lock
<1>3. Attempt(1) # Attempt(2) /\ \A m : Attempt(1) # Member(m) BY DEF Attempt, Member
<1>4. Attempt(1) # Operation /\ \A a : Attempt(1) # Worker(a) BY DEF Attempt, Operation, Worker
<1>5. CASE q = "monitor2"
  <2> DEFINE x == Lock(Attempt(2), "update")
             y == Lock(Operation, "update")
             z == Lock(Worker(2), "no_key_update")
  <2>1. t = Append(<<x, y>>, z) BY <1>5 DEF Transactions, Maintain, LeaseRows, AttemptOf
  <2>2. x.row # Attempt(1) /\ y.row # Attempt(1) /\ z.row # Attempt(1) BY <1>2, <1>3, <1>4
  <2> HIDE DEF x, y, z
  <2>3. t[i] \in {x, y, z} BY <2>1
  <2> QED BY <1>1, <2>2, <2>3
<1>6. CASE q \in {"handler1", "handler2"}
  <2> DEFINE a == AttemptOf(q)
  <2>1. PICK m \in Members : t \in {ClaimMember(a, m), FinishMember(m), ClaimAndFinish(a, m)}
    BY <1>6 DEF Transactions
  <2> DEFINE x == Lock(Member(m), "update")
             y == Lock(Attempt(a), "key_share")
             z == Lock(Operation, "no_key_update")
  <2>2. t \in {<<x, y>>, <<x, z>>, Append(<<x, y>>, z)}
    BY <2>1 DEF ClaimMember, FinishMember, ClaimAndFinish
  <2>3. x.row # Attempt(1) /\ y.mode \notin {"update", "no_key_update"} /\ z.row # Attempt(1)
    BY <1>2, <1>3, <1>4
  <2> HIDE DEF x, y, z
  <2>4. t[i] \in {x, y, z} BY <2>2
  <2> QED BY <1>1, <2>3, <2>4
<1>7. CASE q \in {"worker1", "web"}
  <2>1. t \in {<<Lock(Worker(1), "no_key_update")>>, <<Lock(Operation, "update")>>}
    BY <1>7 DEF Transactions, Heartbeat, CancelLocks
  <2>2. t[i] \in {Lock(Worker(1), "no_key_update"), Lock(Operation, "update")} BY <2>1
  <2> QED BY <1>1, <1>2, <1>4, <2>2
<1> QED BY <1>5, <1>6, <1>7 DEF Processes

(* Transactions on a wave wait for each other in a circle only around a    *)
(* reclaim and the maintenance of the attempt that it takes over           *)
(* (operations/repository.py), for any number of members: the claims and   *)
(* verdicts of members, the heartbeats, a cancellation and the maintenance *)
(* of both attempts keep to one order.                                     *)
THEOREM OneCircle == LocksSpec => []OnlyReclaimsDeadlock
<1>1. LocksInit => LockInv BY DEF LocksInit, LockInv
<1>2. LockInv => OnlyReclaimsDeadlock
  <2> SUFFICES ASSUME LockInv, NEW circle \in SUBSET Processes, WaitInCircle(circle)
               PROVE  /\ "monitor1" \in circle /\ "worker2" \in circle
                      /\ txn["worker2"] = Reclaim /\ held["worker2"] = 1
    BY DEF OnlyReclaimsDeadlock
  <2>1. "worker2" \in circle /\ txn["worker2"] = Reclaim BY NoAscendingCircle
  <2>2. held["worker2"] \in 1..3
    <3>1. Wants("worker2") /\ held["worker2"] # 0 BY <2>1 DEF WaitInCircle, Waits
    <3>2. held["worker2"] \in Nat BY DEF LockInv, Processes
    <3> QED BY <2>1, <3>1, <3>2, ReclaimLocks DEF Wants
  <2>3. PICK q \in circle : q \in Blockers("worker2") BY <2>1 DEF WaitInCircle
  <2>4. q \in Processes /\ q # "worker2" BY <2>3 DEF Blockers
  <2>5. PICK i \in 1..held[q] : Conflict(Reclaim[held["worker2"] + 1], txn[q][i])
    BY <2>1, <2>3 DEF Blockers
  <2>6. /\ held[q] \in Nat /\ held[q] < Len(txn[q]) /\ txn[q] \in Transactions(q)
    BY <2>4 DEF WaitInCircle, Waits, Wants, Open, LockInv
  <2>7. RankAscends(txn[q]) BY <2>4, <2>6, TransactionsAscend
  <2>8. i \in 1..Len(txn[q]) /\ Rank(txn[q][i].row) < 4
    <3>1. i \in 1..Len(txn[q]) /\ held[q] + 1 \in 1..Len(txn[q]) /\ i < held[q] + 1
      BY <2>6, <2>7 DEF RankAscends
    <3> QED BY <2>7, <3>1 DEF RankAscends
  <2>9. held["worker2"] = 1
    <3>1. \A row, mode : Lock(row, mode).row = row BY DEF Lock
    <3>2. ASSUME held["worker2"] \in {2, 3} PROVE Rank(Reclaim[held["worker2"] + 1].row) = 4
      BY <3>1, <3>2, ReclaimLocks, RowRanks
    <3> QED BY <2>2, <2>5, <2>8, <3>2 DEF Conflict
  <2>10. q = "monitor1"
    <3>1. Conflict(Lock(Attempt(1), "no_key_update"), txn[q][i]) BY <2>5, <2>9, ReclaimLocks
    <3> QED BY <2>4, <2>6, <2>8, <3>1, HoldsAttempt
  <2> QED BY <2>1, <2>9, <2>10
<1> QED BY <1>1, <1>2, LockInvNext, PTL DEF LocksSpec

---------------------------------------------------------------------------
(* The local PostgreSQL server.                                            *)

(* A command has a port, and what it has found or done of the cluster so   *)
(* far stays true under it: nobody serves from a data directory that is    *)
(* being made or moved, an address is replaced only when there is one, and *)
(* the database is there before its address is written.                    *)
CommandOK ==
  /\ setting \in Ports \cup {NoPort}
  /\ command = "none" <=> step = "none"
  /\ step # "none" => port \in Ports
  /\ step \in {"initdb", "configure", "conf"} => serving = NoPort
  /\ step \in {"initdb", "configure"} => url = NoPort
  /\ step \in {"conf", "env"} => url # NoPort
  /\ step = "env" => conf = port
  /\ step = "url" => created /\ conf = port /\ cluster = "ready"

(* Only a whole cluster has a server, at the port of its configuration.    *)
ServerOK ==
  /\ serving \in {NoPort, conf}
  /\ serving # NoPort => cluster = "ready"

PostgresInv == CommandOK /\ ServerOK /\ UrlIsUsable

(* Nothing is there, and nothing is written of it.                         *)
LEMMA PostgresInitially == PostgresInit => PostgresInv
  BY DEF PostgresInit, PostgresInv, CommandOK, ServerOK, UrlIsUsable

(* A call takes its port from the environment, from .env or by default.    *)
LEMMA CallKeeps ==
  ASSUME PostgresInv, NEW c \in {"init", "repair", "start", "stop"}, Call(c)
  PROVE  PostgresInv'
<1>1. port' \in Ports
  BY PortsAssumption DEF PostgresInv, CommandOK, Call, Resolved
<1> QED
  BY <1>1 DEF PostgresInv, CommandOK, ServerOK, UrlIsUsable, Call, disk, env

(* What a command finds decides its first step.                            *)
LEMMA CheckKeeps ==
  ASSUME PostgresInv, Check \/ Stop
  PROVE  PostgresInv'
<1> USE PortsAssumption DEF PostgresInv, CommandOK, ServerOK, UrlIsUsable, Over, Goes, disk, env
<1>1. CASE Stop
  BY <1>1 DEF Stop
<1>2. CASE Check
  <2> UNCHANGED <<cluster, conf, created, serving, url, setting, taken, halfway>>
    BY <1>2 DEF Check
  <2>1. CASE command = "init" /\ CheckInit
    BY <1>2, <2>1 DEF Check, CheckInit, Initialized
  <2>2. CASE command = "repair" /\ CheckRepair
    BY <1>2, <2>2 DEF Check, CheckRepair, Initialized, Moving, HasDatabaseUrl, ClusterRunning
  <2>3. CASE command = "start" /\ CheckStart
    BY <1>2, <2>3 DEF Check, CheckStart
  <2> QED
    BY <1>2, <2>1, <2>2, <2>3 DEF Check
<1> QED
  BY <1>1, <1>2

(* The steps that change the cluster, its server or the database.          *)
LEMMA ServerStepsKeep ==
  ASSUME PostgresInv, InitDb \/ Configure \/ StartProcess \/ LookForDatabase \/ CreateDb
  PROVE  PostgresInv'
<1> USE PortsAssumption DEF PostgresInv, CommandOK, ServerOK, UrlIsUsable, Goes, env
<1>1. CASE InitDb
  BY <1>1 DEF InitDb
<1>2. CASE Configure
  BY <1>2 DEF Configure
<1>3. CASE StartProcess
  BY <1>3 DEF StartProcess, disk
<1>4. CASE LookForDatabase
  BY <1>4 DEF LookForDatabase, Answering, disk
<1>5. CASE CreateDb
  BY <1>5 DEF CreateDb, Answering
<1> QED
  BY <1>1, <1>2, <1>3, <1>4, <1>5

(* The steps that write the address, and the change of a port, which may   *)
(* be cut between its two files.                                           *)
LEMMA AddressStepsKeep ==
  ASSUME PostgresInv, WriteUrl \/ WriteClusterPort \/ WriteMovedUrl
  PROVE  PostgresInv'
<1> USE PortsAssumption DEF PostgresInv, CommandOK, ServerOK, UrlIsUsable, Goes, Over
<1>1. CASE WriteUrl
  BY <1>1 DEF WriteUrl, WritesUrl, disk
<1>2. CASE WriteClusterPort
  BY <1>2 DEF WriteClusterPort, env
<1>3. CASE WriteMovedUrl
  BY <1>3 DEF WriteMovedUrl, disk
<1> QED
  BY <1>1, <1>2, <1>3

(* Failures, a kill at any step, and what others do meanwhile.             *)
LEMMA FaultsKeep ==
  ASSUME PostgresInv, StepFails \/ Kill \/ ServerEnds \/ OthersMove \/ LoseEnv
  PROVE  PostgresInv'
<1> USE PortsAssumption DEF PostgresInv, CommandOK, ServerOK, UrlIsUsable, Over
<1>1. CASE StepFails
  BY <1>1 DEF StepFails, disk, env
<1>2. CASE Kill
  BY <1>2 DEF Kill, env
<1>3. CASE ServerEnds
  BY <1>3 DEF ServerEnds, disk, env, manager
<1>4. CASE OthersMove
  BY <1>4 DEF OthersMove, disk, env, manager
<1>5. CASE LoseEnv
  BY <1>5 DEF LoseEnv, disk, manager
<1> QED
  BY <1>1, <1>2, <1>3, <1>4, <1>5

(* The address in .env is that of a cluster that is whole and has its      *)
(* database, whichever step of "newsradar db" failed or was killed, for    *)
(* any set of ports.                                                       *)
THEOREM UsableUrl == PostgresSpec => []UrlIsUsable
<1>1. PostgresInv /\ [PostgresNext]_postgresVars => PostgresInv'
  <2> SUFFICES ASSUME PostgresInv, [PostgresNext]_postgresVars PROVE PostgresInv'
    OBVIOUS
  <2>1. CASE UNCHANGED postgresVars
    BY <2>1 DEF postgresVars, disk, env, manager, PostgresInv, CommandOK, ServerOK, UrlIsUsable
  <2> QED
    BY <2>1, CallKeeps, CheckKeeps, ServerStepsKeep, AddressStepsKeep, FaultsKeep DEF PostgresNext
<1>2. PostgresInv => UrlIsUsable
  BY DEF PostgresInv
<1> QED
  BY PostgresInitially, <1>1, <1>2, PTL DEF PostgresSpec

---------------------------------------------------------------------------
(* The desktop window and its processes.                                   *)

USE DesktopAssumption

Excused(w) == w \in crashed \cup unsure
Known(id) == id # Nobody => id.born <= born
Serves(p) == Running(p) /\ table[p].role = "serve" /\ table[p].window = window

(* Times of creation grow: who has a number of the past, and is dead, will *)
(* not come back under another process.                                    *)
Aged ==
  /\ \A p \in Pids : Running(p) => table[p].born <= born /\ Known(table[p].parent)
  /\ Known(owned) /\ Known(identity) /\ \A id \in targets : Known(id)

(* Processes of a window are its supervisor and the children of one; a     *)
(* parent that is alive is a supervisor of the same window.                *)
Family(p) ==
  Running(p) =>
    /\ table[p].window <= window
    /\ table[p].window > 0 =>
         /\ table[p].branded /\ table[p].role \in {"serve", "web", "worker"}
         /\ table[p].role # "serve" => table[p].parent # Nobody
    /\ table[p].parent # Nobody /\ Alive(table[p].parent) =>
         /\ table[table[p].parent.pid].role = "serve"
         /\ table[table[p].parent.pid].window = table[p].window

Controlled ==
  /\ at = "off" => owned = Nobody
  /\ at # "off" => window > 0
  /\ at = "tree" => phase = "tree"
  /\ at = "scan" => phase # "tree"
  /\ at \in {"tree", "confirm", "health"} => owned # Nobody
  /\ at = "spawn" => ~Alive(owned)

(* The only supervisor of the window is the process it owns, and it knows  *)
(* its identity.                                                           *)
Owned ==
  /\ identity # Nobody /\ Matches(identity) => table[identity.pid].window = window
  /\ ~Excused(window) => identity = owned
  /\ ~Excused(window) /\ window > 0 => \A p \in Pids : Serves(p) => owned = IdentityOf(p)

(* The clean-up of the tree ends with the supervisor dead or a failure;    *)
(* that of the orphans, after it, with every process of the window dead or *)
(* a failure.                                                              *)
Rooted ==
  at = "stop" /\ phase = "tree" /\ ~failed /\ ~Excused(window) =>
    \A p \in Pids : Serves(p) => IdentityOf(p) \in targets
Releasing == at \in {"scan", "stop"} /\ phase = "release" /\ ~failed /\ ~Excused(window)
Gone ==
  Releasing =>
    /\ \A p \in Pids : ~Serves(p)
    /\ at = "stop" =>
         \A p \in Pids : Running(p) /\ table[p].window = window => IdentityOf(p) \in targets

(* What is being stopped is of the window, or an orphan.                   *)
Rightful ==
  at = "stop" => \A p \in Pids : Running(p) /\ IdentityOf(p) \in targets =>
    IF phase = "tree" THEN table[p].window = window ELSE Orphan(p)

DesktopInv ==
  /\ DesktopTypeOK /\ Aged /\ \A p \in Pids : Family(p)
  /\ Controlled /\ Owned /\ Rooted /\ Gone /\ Rightful /\ NothingEscapes

(* Before the first window nothing runs.                                   *)
LEMMA DesktopInitially == DesktopInit => DesktopInv
<1> SUFFICES ASSUME DesktopInit PROVE DesktopInv
  OBVIOUS
<1>0. table \in [Pids -> Process \cup {Nobody}]
  BY DEF DesktopInit
<1>a. born \in 0..MaxBorn /\ window \in 0..MaxWindows
  BY DEF DesktopInit
<1>b. /\ quitting \in BOOLEAN /\ cleaned \in BOOLEAN /\ failed \in BOOLEAN
      /\ targets \subseteq Identity
  BY DEF DesktopInit
<1>1. DesktopTypeOK
  BY <1>0, <1>a, <1>b DEF DesktopInit, DesktopTypeOK
<1>2. \A p \in Pids : ~Running(p)
  BY DEF DesktopInit, Running
<1> QED
  BY <1>1, <1>2 DEF DesktopInit, DesktopInv, Aged, Known, Family, Controlled, Owned, Serves, Rooted,
     Gone, Releasing, Rightful, NothingEscapes, Matches

---------------------------------------------------------------------------
(* What a step does to the processes.                                      *)

Survives(p) ==
  /\ Running(p) /\ table'[p] # Nobody
  /\ table'[p].born = table[p].born /\ table'[p].role = table[p].role
  /\ table'[p].branded = table[p].branded /\ table'[p].parent = table[p].parent
  /\ table'[p].window = table[p].window

Appears(p) ==
  /\ Idle(p) /\ table'[p] # Nobody
  /\ born' = born + 1 /\ table'[p].born = born + 1
Alone(p) == Appears(p) /\ table'[p].parent = Nobody /\ table'[p].window = 0
IsSpawned(p) ==
  /\ Appears(p) /\ table'[p].role = "serve" /\ table'[p].branded
  /\ table'[p].parent = Nobody /\ table'[p].window = window
ChildOf(p, s) ==
  /\ Appears(p) /\ Running(s) /\ table[s].role = "serve" /\ Survives(s)
  /\ table'[p].role \in {"web", "worker"} /\ table'[p].branded = table[s].branded
  /\ table'[p].parent = IdentityOf(s) /\ table'[p].window = table[s].window

Changes ==
  /\ born \in Nat /\ born' \in {born, born + 1}
  /\ \A p \in Pids : table'[p] # Nobody =>
       Survives(p) \/ Alone(p) \/ IsSpawned(p) \/ \E s \in Pids : ChildOf(p, s)

(* What is known of the row of a process that runs.                        *)
LEMMA RowType ==
  ASSUME DesktopTypeOK, NEW p \in Pids, Running(p)
  PROVE  /\ table[p] \in Process /\ table[p].born \in 1..MaxBorn
         /\ table[p].parent \in Identity \cup {Nobody} /\ table[p].window \in 0..MaxWindows
         /\ table[p].branded \in BOOLEAN /\ table[p].kids \in 0..2
         /\ IdentityOf(p) \in Identity
<1>1. table[p] \in Process
  BY DEF DesktopTypeOK, Running
<1>2. table[p].born \in 1..MaxBorn
  BY <1>1 DEF Process
<1> QED
  BY <1>1, <1>2 DEF Process, IdentityOf, Identity

(* The children of a process are told by identities.                       *)
LEMMA ChildrenType ==
  ASSUME DesktopTypeOK, NEW id PROVE Children(id) \subseteq Identity
  BY RowType DEF Children

(* Who survives a step in which nothing is born.                           *)
LEMMA SameRow ==
  ASSUME NEW p \in Pids, Running(p), table'[p] = table[p] PROVE Survives(p)
  BY DEF Survives, Running

(* Taking processes out leaves the rows of all others as they are.         *)
LEMMA KillsOnly ==
  ASSUME DesktopTypeOK, NEW ids, table' = Without(ids), UNCHANGED born
  PROVE  /\ table' \in [Pids -> Process \cup {Nobody}] /\ Changes
         /\ \A p \in Pids : table'[p] # Nobody => table'[p] = table[p] /\ IdentityOf(p) \notin ids
<1>1. \A p \in Pids : table'[p] = IF Running(p) /\ IdentityOf(p) \in ids THEN Nobody ELSE table[p]
  BY DEF Without
<1>2. table' \in [Pids -> Process \cup {Nobody}]
  BY DEF Without, DesktopTypeOK
<1>3. \A p \in Pids : table'[p] # Nobody => table'[p] = table[p] /\ IdentityOf(p) \notin ids /\ Running(p)
  BY <1>1 DEF Running
<1>4. \A p \in Pids : table'[p] # Nobody => Survives(p)
  BY <1>3, SameRow
<1>5. born \in Nat
  BY DEF DesktopTypeOK
<1> QED
  BY <1>2, <1>3, <1>4, <1>5 DEF Changes

(* A step that touches no process is one of the steps that Changes allows. *)
LEMMA Unmoved ==
  ASSUME DesktopTypeOK, UNCHANGED <<table, born>>
  PROVE  /\ table' \in [Pids -> Process \cup {Nobody}] /\ Changes
<1>1. \A p \in Pids : table'[p] # Nobody => Survives(p)
  BY SameRow DEF Running
<1> QED
  BY <1>1 DEF Changes, DesktopTypeOK

(* The row of a new process, and the others as they were.                  *)
LEMMA CreatedRow ==
  ASSUME DesktopTypeOK, NEW p \in Pids, MayCreate(p), born' = born + 1,
         NEW role \in {"serve", "web", "worker", "other"}, NEW branded \in BOOLEAN,
         NEW parent \in Identity \cup {Nobody}, NEW w \in 0..MaxWindows
  PROVE  LET new == Created(p, role, branded, parent, w) IN
         /\ new \in [Pids -> Process \cup {Nobody}] /\ new[p] # Nobody
         /\ new[p].born = born + 1 /\ new[p].role = role /\ new[p].branded = branded
         /\ new[p].parent = parent /\ new[p].window = w
         /\ \A q \in Pids \ {p} : new[q] = table[q]
<1> DEFINE row == [role |-> role, branded |-> branded, born |-> born + 1, parent |-> parent,
                   up |-> FALSE, kids |-> 0, window |-> w]
<1>1. born + 1 \in 1..MaxBorn
  BY DEF DesktopTypeOK, MayCreate
<1>2. row \in Process
  BY <1>1 DEF Process
<1>3. row # Nobody
  BY <1>2
<1>4. Created(p, role, branded, parent, w) = [table EXCEPT ![p] = row]
  BY DEF Created
<1>5. row.born = born + 1 /\ row.role = role /\ row.branded = branded /\ row.parent = parent
      /\ row.window = w
  OBVIOUS
<1> HIDE DEF row
<1>6. table \in [Pids -> Process \cup {Nobody}]
  BY DEF DesktopTypeOK
<1> QED
  BY <1>2, <1>3, <1>4, <1>5, <1>6

(* A supervisor starts its web process or its worker.                      *)
LEMMA ServeStartsChanges ==
  ASSUME DesktopTypeOK, NEW p \in Pids, ServeStarts(p)
  PROVE  /\ table' \in [Pids -> Process \cup {Nobody}] /\ born' \in 0..MaxBorn
         /\ Changes /\ \A q \in Pids : ~IsSpawned(q)
<1> DEFINE role == IF table[p].kids = 0 THEN "web" ELSE "worker"
<1>1. PICK q \in Pids :
        /\ MayCreate(q)
        /\ table' = [Created(q, role, table[p].branded, IdentityOf(p), table[p].window)
                       EXCEPT ![p].kids = @ + 1]
  BY DEF ServeStarts
<1> DEFINE new == Created(q, role, table[p].branded, IdentityOf(p), table[p].window)
<1>2. Running(p) /\ table[p].role = "serve" /\ table[p].kids < 2 /\ born' = born + 1
  BY DEF ServeStarts
<1>3. Idle(q) /\ born < MaxBorn /\ q # p
  BY <1>1, <1>2 DEF MayCreate, Idle, Running
<1>4. /\ table[p] \in Process /\ table[p].branded \in BOOLEAN
      /\ table[p].window \in 0..MaxWindows /\ IdentityOf(p) \in Identity /\ table[p].kids \in 0..2
  BY <1>2, RowType
<1>5. role \in {"web", "worker"}
  OBVIOUS
<1> HIDE DEF role
<1>6. /\ new \in [Pids -> Process \cup {Nobody}] /\ new[q] # Nobody
      /\ new[q].born = born + 1 /\ new[q].role = role /\ new[q].branded = table[p].branded
      /\ new[q].parent = IdentityOf(p) /\ new[q].window = table[p].window
      /\ \A r \in Pids \ {q} : new[r] = table[r]
  BY <1>1, <1>2, <1>4, <1>5, CreatedRow
<1>7. table' = [new EXCEPT ![p].kids = @ + 1]
  BY <1>1
<1> HIDE DEF new
<1>8. new[p] = table[p]
  BY <1>3, <1>6
<1>9. table' = [new EXCEPT ![p] = [table[p] EXCEPT !.kids = @ + 1]]
  BY <1>6, <1>7, <1>8
<1> DEFINE mine == [table[p] EXCEPT !.kids = @ + 1]
<1>10. /\ mine \in Process /\ mine.born = table[p].born /\ mine.role = table[p].role
       /\ mine.branded = table[p].branded /\ mine.parent = table[p].parent
       /\ mine.window = table[p].window
  BY <1>2, <1>4 DEF Process
<1> HIDE DEF mine
<1>11. /\ table'[p] = mine /\ table'[q] = new[q]
       /\ \A r \in Pids \ {p, q} : table'[r] = table[r]
  BY <1>3, <1>6, <1>9 DEF mine
<1>12. table' \in [Pids -> Process \cup {Nobody}]
  BY <1>6, <1>9, <1>10 DEF mine
<1>13. mine # Nobody
  BY <1>10
<1>14. Survives(p)
  BY <1>2, <1>10, <1>11, <1>13 DEF Survives
<1>15. ChildOf(q, p)
  BY <1>2, <1>3, <1>5, <1>6, <1>11, <1>14 DEF ChildOf, Appears
<1>16. \A r \in Pids \ {p, q} : table'[r] # Nobody => Survives(r)
  BY <1>11, SameRow DEF Running
<1>17. born \in 0..MaxBorn
  BY DEF DesktopTypeOK
<1>18. Changes
  BY <1>2, <1>14, <1>15, <1>16, <1>17 DEF Changes
<1>19. \A r \in Pids : ~IsSpawned(r)
  BY <1>5, <1>6, <1>11, <1>14, <1>16 DEF IsSpawned, Appears, Survives, Running, Idle
<1> QED
  BY <1>2, <1>3, <1>12, <1>17, <1>18, <1>19

(* A supervisor ends with its children, or a process by itself.            *)
LEMMA ServeStopsChanges ==
  ASSUME DesktopTypeOK, NEW p \in Pids, ServeStops(p) \/ Exits(p)
  PROVE  /\ table' \in [Pids -> Process \cup {Nobody}] /\ born' \in 0..MaxBorn
         /\ Changes /\ \A q \in Pids : ~IsSpawned(q)
<1>1. PICK ids : table' = Without(ids) /\ UNCHANGED born
  BY DEF ServeStops, Exits
<1>2. /\ table' \in [Pids -> Process \cup {Nobody}] /\ Changes
      /\ \A q \in Pids : table'[q] # Nobody => table'[q] = table[q] /\ IdentityOf(q) \notin ids
  BY <1>1, KillsOnly
<1> QED
  BY <1>1, <1>2 DEF IsSpawned, Appears, Idle, DesktopTypeOK

(* A web process binds the port or ends.                                   *)
LEMMA WebStartsChanges ==
  ASSUME DesktopTypeOK, NEW p \in Pids, WebStarts(p)
  PROVE  /\ table' \in [Pids -> Process \cup {Nobody}] /\ born' \in 0..MaxBorn
         /\ Changes /\ \A q \in Pids : ~IsSpawned(q)
<1>1. CASE PortAnswers
  <2>1. table' = Without({IdentityOf(p)}) /\ UNCHANGED born
    BY <1>1 DEF WebStarts
  <2>2. /\ table' \in [Pids -> Process \cup {Nobody}] /\ Changes
        /\ \A q \in Pids : table'[q] # Nobody => table'[q] = table[q] /\ IdentityOf(q) \notin {IdentityOf(p)}
    BY <2>1, KillsOnly
  <2> QED
    BY <2>1, <2>2 DEF IsSpawned, Appears, Idle, DesktopTypeOK
<1>2. CASE ~PortAnswers
  <2>1. Running(p) /\ table' = [table EXCEPT ![p].up = TRUE] /\ UNCHANGED born
    BY <1>2 DEF WebStarts
  <2>2. table[p] \in Process /\ table \in [Pids -> Process \cup {Nobody}] /\ born \in 0..MaxBorn
    BY <2>1, RowType DEF DesktopTypeOK
  <2> DEFINE mine == [table[p] EXCEPT !.up = TRUE]
  <2>3. /\ mine \in Process /\ mine.born = table[p].born /\ mine.role = table[p].role
        /\ mine.branded = table[p].branded /\ mine.parent = table[p].parent
        /\ mine.window = table[p].window
    BY <2>2 DEF Process
  <2>4. table' = [table EXCEPT ![p] = mine]
    BY <2>1, <2>2
  <2> HIDE DEF mine
  <2>5. table'[p] = mine /\ \A q \in Pids \ {p} : table'[q] = table[q]
    BY <2>2, <2>4
  <2>6. table' \in [Pids -> Process \cup {Nobody}]
    BY <2>2, <2>3, <2>4
  <2>7. mine # Nobody
    BY <2>3
  <2>8. Survives(p)
    BY <2>1, <2>3, <2>5, <2>7 DEF Survives
  <2>9. \A q \in Pids \ {p} : table'[q] # Nobody => Survives(q)
    BY <2>5, SameRow DEF Running
  <2> QED
    BY <2>1, <2>2, <2>6, <2>8, <2>9 DEF Changes, IsSpawned, Appears
<1> QED
  BY <1>1, <1>2

(* A process that no window has started.                                   *)
LEMMA OthersStartChanges ==
  ASSUME DesktopTypeOK, NEW p \in Pids, OthersStart(p)
  PROVE  /\ table' \in [Pids -> Process \cup {Nobody}] /\ born' \in 0..MaxBorn
         /\ Changes /\ \A q \in Pids : ~IsSpawned(q)
<1>1. PICK role \in {"other", "serve"} : table' = Created(p, role, FALSE, Nobody, 0)
  BY DEF OthersStart
<1>2. Idle(p) /\ born < MaxBorn /\ born' = born + 1 /\ MayCreate(p) /\ born \in 0..MaxBorn
  BY DEF OthersStart, MayCreate, DesktopTypeOK
<1>3. /\ table' \in [Pids -> Process \cup {Nobody}] /\ table'[p] # Nobody
      /\ table'[p].born = born + 1 /\ table'[p].role = role /\ table'[p].branded = FALSE
      /\ table'[p].parent = Nobody /\ table'[p].window = 0
      /\ \A q \in Pids \ {p} : table'[q] = table[q]
  <2>1. role \in {"serve", "web", "worker", "other"}
        /\ Nobody \in Identity \cup {Nobody} /\ 0 \in 0..MaxWindows
    OBVIOUS
  <2>2. PICK b \in BOOLEAN : b = FALSE
    OBVIOUS
  <2>3. table' = Created(p, role, b, Nobody, 0)
    BY <1>1, <2>2, Zenon
  <2>4. /\ table' \in [Pids -> Process \cup {Nobody}] /\ table'[p] # Nobody
        /\ table'[p].born = born + 1 /\ table'[p].role = role /\ table'[p].branded = b
        /\ table'[p].parent = Nobody /\ table'[p].window = 0
        /\ \A q \in Pids \ {p} : table'[q] = table[q]
    BY <1>2, <2>1, <2>3, CreatedRow
  <2> QED
    BY <2>2, <2>4
<1>4. Alone(p)
  BY <1>2, <1>3 DEF Alone, Appears
<1>5. \A q \in Pids \ {p} : table'[q] # Nobody => Survives(q)
  BY <1>3, SameRow DEF Running
<1> QED
  BY <1>2, <1>3, <1>4, <1>5 DEF Changes, IsSpawned, Appears, Survives, Idle, Running

(* The one process a window starts is the one it owns from then on.        *)
LEMMA SpawnChanges ==
  ASSUME DesktopTypeOK, Spawn
  PROVE  /\ table' \in [Pids -> Process \cup {Nobody}] /\ born' \in 0..MaxBorn
         /\ Changes /\ owned' \in Identity /\ owned'.born = born' /\ born' = born + 1
         /\ \A q \in Pids : IsSpawned(q) <=> q = owned'.pid
<1>1. PICK p \in Pids :
        /\ MayCreate(p) /\ table' = Created(p, "serve", TRUE, Nobody, window)
        /\ owned' = [pid |-> p, born |-> born + 1]
  BY DEF Spawn
<1>2. /\ MayCreate(p) /\ Idle(p) /\ born < MaxBorn /\ born' = born + 1 /\ born \in 0..MaxBorn
      /\ window \in 0..MaxWindows
  BY <1>1 DEF Spawn, MayCreate, DesktopTypeOK
<1>3. /\ table' \in [Pids -> Process \cup {Nobody}] /\ table'[p] # Nobody
      /\ table'[p].born = born + 1 /\ table'[p].role = "serve" /\ table'[p].branded = TRUE
      /\ table'[p].parent = Nobody /\ table'[p].window = window
      /\ \A q \in Pids \ {p} : table'[q] = table[q]
  <2>1. Nobody \in Identity \cup {Nobody}
    OBVIOUS
  <2>2. PICK b \in BOOLEAN, r \in {"serve", "web", "worker", "other"} : b = TRUE /\ r = "serve"
    OBVIOUS
  <2>3. table' = Created(p, r, b, Nobody, window)
    BY <1>1, <2>2, Zenon
  <2>4. /\ table' \in [Pids -> Process \cup {Nobody}] /\ table'[p] # Nobody
        /\ table'[p].born = born + 1 /\ table'[p].role = r /\ table'[p].branded = b
        /\ table'[p].parent = Nobody /\ table'[p].window = window
        /\ \A q \in Pids \ {p} : table'[q] = table[q]
    BY <1>2, <2>1, <2>3, CreatedRow
  <2> QED
    BY <2>2, <2>4
<1>4. IsSpawned(p)
  BY <1>2, <1>3 DEF IsSpawned, Appears
<1>5. \A q \in Pids \ {p} : table'[q] # Nobody => Survives(q)
  BY <1>3, SameRow DEF Running
<1>6. owned' \in Identity /\ owned'.born = born' /\ owned'.pid = p
  BY <1>1, <1>2 DEF Identity
<1>7. \A q \in Pids \ {p} : ~IsSpawned(q)
  BY <1>5 DEF IsSpawned, Appears, Survives, Running, Idle
<1> QED
  BY <1>2, <1>3, <1>4, <1>5, <1>6, <1>7 DEF Changes

---------------------------------------------------------------------------
(* The processes keep their relations.                                     *)

(* Who is alive after a step, and has a number of the past, was before.    *)
LEMMA AliveBefore ==
  ASSUME DesktopTypeOK, Changes, NEW id \in Identity, id.born <= born, Alive(id)'
  PROVE  Alive(id) /\ Survives(id.pid)
<1>1. id.pid \in Pids /\ id.born \in Nat /\ born \in Nat
  BY DEF Identity, DesktopTypeOK
<1>2. table'[id.pid] # Nobody /\ table'[id.pid].born = id.born /\ id # Nobody
  BY DEF Alive, Running
<1>3. ~Appears(id.pid)
  BY <1>1, <1>2 DEF Appears
<1>4. Survives(id.pid)
  BY <1>1, <1>2, <1>3 DEF Changes, Alone, IsSpawned, ChildOf
<1> QED
  BY <1>2, <1>4 DEF Survives, Alive

(* An orphan stays one: its parent does not come back.                     *)
LEMMA OrphansStay ==
  ASSUME DesktopTypeOK, Aged, Changes, NEW p \in Pids, Orphan(p), Survives(p)
  PROVE  Orphan(p)'
<1>1. Running(p) /\ Internal(p) /\ Internal(p)'
  BY DEF Orphan, Internal, Survives, Running
<1>2. table'[p].parent = table[p].parent
  BY DEF Survives
<1>3. CASE table[p].parent = Nobody
  BY <1>1, <1>2, <1>3 DEF Orphan, Alive
<1>4. CASE table[p].parent # Nobody
  <2>1. PICK id \in Identity : id = table[p].parent
    BY <1>1, <1>4, RowType
  <2>2. id.born <= born
    BY <1>1, <1>4, <2>1 DEF Aged, Known
  <2>3. ~Alive(id)
    BY <2>1 DEF Orphan
  <2>4. ~Alive(id)'
    BY <2>2, <2>3, AliveBefore
  <2> QED
    BY <1>1, <1>2, <2>1, <2>4 DEF Orphan
<1> QED
  BY <1>3, <1>4

(* Times of creation are of the past after every step.                     *)
LEMMA RowsAge ==
  ASSUME DesktopTypeOK, Aged, Changes, NEW p \in Pids, Running(p)'
  PROVE  table'[p].born <= born' /\ Known(table[p].parent)'
<1>1. born \in Nat /\ born' \in Nat /\ born <= born'
  BY DEF Changes
<1>2. table'[p] # Nobody
  BY DEF Running
<1>3. CASE Survives(p)
  <2>1. Running(p) /\ table[p].born \in Nat /\ table[p].parent \in Identity \cup {Nobody}
    BY <1>3, RowType DEF Survives
  <2>2. table[p].born <= born /\ Known(table[p].parent)
    BY <2>1 DEF Aged
  <2>3. table[p].parent # Nobody => table[p].parent.born \in Nat
    BY <2>1 DEF Identity
  <2> QED
    BY <1>1, <1>3, <2>1, <2>2, <2>3 DEF Survives, Known
<1>4. CASE Alone(p) \/ IsSpawned(p)
  BY <1>1, <1>4 DEF Alone, IsSpawned, Appears, Known
<1>5. ASSUME NEW s \in Pids, ChildOf(p, s) PROVE table'[p].born <= born' /\ Known(table[p].parent)'
  <2>1. table[s].born <= born /\ table[s].born \in Nat
    BY <1>5, RowType DEF ChildOf, Aged
  <2>2. table'[p].parent = IdentityOf(s) /\ IdentityOf(s).born = table[s].born
    BY <1>5 DEF ChildOf, IdentityOf
  <2> QED
    BY <1>1, <1>5, <2>1, <2>2 DEF ChildOf, Appears, Known
<1> QED
  BY <1>2, <1>3, <1>4, <1>5 DEF Changes

(* Parents and children stay of one window.                                *)
LEMMA FamiliesStay ==
  ASSUME DesktopTypeOK, Aged, \A p \in Pids : Family(p), Changes,
         window' \in Nat, window <= window', NEW p \in Pids
  PROVE  Family(p)'
<1> SUFFICES ASSUME Running(p)' PROVE Family(p)'
  BY DEF Family
<1>1. table'[p] # Nobody /\ window \in Nat
  BY DEF Running, DesktopTypeOK
<1>2. CASE Survives(p)
  <2>1. Running(p) /\ table[p].window \in Nat /\ table[p].parent \in Identity \cup {Nobody}
    BY <1>2, RowType DEF Survives
  <2>2. Family(p)
    OBVIOUS
  <2>3. /\ table'[p].window = table[p].window /\ table'[p].parent = table[p].parent
        /\ table'[p].role = table[p].role /\ table'[p].branded = table[p].branded
    BY <1>2 DEF Survives
  <2>4. table'[p].window <= window'
    BY <1>1, <2>1, <2>2, <2>3 DEF Family
  <2>5. ASSUME table'[p].parent # Nobody, Alive(table[p].parent)'
        PROVE  /\ table'[table'[p].parent.pid].role = "serve"
               /\ table'[table'[p].parent.pid].window = table'[p].window
    <3>1. PICK id \in Identity : id = table[p].parent
      BY <2>1, <2>3, <2>5
    <3>2. id.born <= born /\ id # Nobody
      BY <2>1, <2>3, <2>5, <3>1 DEF Aged, Known
    <3>3. Alive(id)'
      BY <2>3, <2>5, <3>1
    <3>4. Alive(id) /\ Survives(id.pid)
      BY <3>2, <3>3, AliveBefore
    <3>5. table[id.pid].role = "serve" /\ table[id.pid].window = table[p].window
      BY <2>1, <2>2, <3>1, <3>2, <3>4 DEF Family
    <3> QED
      BY <2>3, <3>1, <3>4, <3>5 DEF Survives
  <2> QED
    BY <2>1, <2>2, <2>3, <2>4, <2>5 DEF Family
<1>3. CASE Alone(p)
  BY <1>1, <1>3 DEF Alone, Family
<1>4. CASE IsSpawned(p)
  BY <1>1, <1>4 DEF IsSpawned, Family
<1>5. ASSUME NEW s \in Pids, ChildOf(p, s) PROVE Family(p)'
  <2>1. Family(s) /\ Running(s) /\ Survives(s) /\ table[s].role = "serve"
    BY <1>5 DEF ChildOf
  <2>2. table[s].window <= window /\ table[s].window \in Nat /\ IdentityOf(s) \in Identity
    BY <2>1, RowType DEF Family
  <2>3. /\ table'[p].parent = IdentityOf(s) /\ table'[p].window = table[s].window
        /\ table'[p].branded = table[s].branded /\ table'[p].role \in {"web", "worker"}
    BY <1>5 DEF ChildOf
  <2>4. IdentityOf(s).pid = s /\ IdentityOf(s) # Nobody
    BY <2>2 DEF IdentityOf
  <2>5. table'[s].role = "serve" /\ table'[s].window = table[s].window
    BY <2>1 DEF Survives
  <2> QED
    BY <1>1, <2>1, <2>2, <2>3, <2>4, <2>5 DEF Family
<1> QED
  BY <1>1, <1>2, <1>3, <1>4, <1>5 DEF Changes

(* Both together, for what the window remembers as well.                   *)
LEMMA TableKeeps ==
  ASSUME DesktopInv, Changes, window' \in Nat, window <= window',
         Known(owned)', Known(identity)', \A id \in targets' : Known(id)'
  PROVE  Aged' /\ \A p \in Pids : Family(p)'
<1>1. DesktopTypeOK /\ Aged /\ \A p \in Pids : Family(p)
  BY DEF DesktopInv
<1>2. \A p \in Pids : Running(p)' => table'[p].born <= born' /\ Known(table[p].parent)'
  BY <1>1, RowsAge
<1>3. \A p \in Pids : Family(p)'
  BY <1>1, FamiliesStay
<1> QED
  BY <1>2, <1>3 DEF Aged

(* An identity of the past stays one.                                      *)
LEMMA KnownStays ==
  ASSUME Changes, NEW id \in Identity \cup {Nobody}, Known(id)
  PROVE  Known(id)'
<1>1. id # Nobody => id.born \in Nat
  BY DEF Identity
<1> QED
  BY <1>1 DEF Known, Changes

(* Supervisors of the window are not born but where it spawns one.         *)
LEMMA ServesBefore ==
  ASSUME DesktopTypeOK, Changes, NEW p \in Pids, ~IsSpawned(p), window > 0, window' = window, Serves(p)'
  PROVE  Serves(p) /\ Survives(p) /\ IdentityOf(p)' = IdentityOf(p)
<1>1. /\ table'[p] # Nobody /\ table'[p].role = "serve" /\ table'[p].window = window
      /\ window \in Nat
  BY DEF Serves, Running, DesktopTypeOK
<1>2. Survives(p)
  BY <1>1 DEF Changes, Alone, ChildOf
<1> QED
  BY <1>1, <1>2 DEF Survives, Serves, IdentityOf

(* What the system does, and what the clean-up stops, keeps the invariant  *)
(* as long as every target that is given up without having died is counted *)
(* as a failure.                                                           *)
LEMMA ProcessesKeep ==
  ASSUME DesktopInv, DesktopTypeOK', Changes, \A q \in Pids : ~IsSpawned(q),
         UNCHANGED <<window, at, phase, owned, identity, crashed, unsure>>,
         targets' \subseteq targets, failed => failed',
         ~failed' => \A p \in Pids : Running(p)' /\ IdentityOf(p)' \in targets => IdentityOf(p)' \in targets'
  PROVE  DesktopInv'
<1>1. /\ DesktopTypeOK /\ Aged /\ \A p \in Pids : Family(p)
      /\ Controlled /\ Owned /\ Rooted /\ Gone /\ Rightful /\ NothingEscapes
  BY DEF DesktopInv
<1>2. /\ owned \in Identity \cup {Nobody} /\ identity \in Identity \cup {Nobody}
      /\ targets \subseteq Identity /\ born \in Nat /\ window \in Nat
  BY <1>1 DEF DesktopTypeOK
<1>3. Known(owned) /\ Known(identity) /\ \A id \in targets : Known(id)
  BY <1>1 DEF Aged
<1>4. Aged' /\ \A p \in Pids : Family(p)'
  <2>1. Known(owned)' /\ Known(identity)'
    BY <1>2, <1>3 DEF Changes, Known, Identity
  <2>2. \A id \in targets : Known(id)'
    BY <1>2, <1>3, KnownStays
  <2> QED
    BY <1>2, <2>1, <2>2, TableKeeps
<1>5. \A id \in Identity : id.born <= born /\ Alive(id)' => Alive(id) /\ Survives(id.pid)
  BY <1>1, AliveBefore
<1>6. \A p \in Pids : window > 0 /\ Serves(p)' =>
        Serves(p) /\ Survives(p) /\ IdentityOf(p)' = IdentityOf(p)
  BY <1>1, ServesBefore
<1>7. Controlled'
  <2>1. ASSUME at = "spawn", Alive(owned)' PROVE FALSE
    <3>1. owned # Nobody
      BY <2>1 DEF Alive
    <3>2. Alive(owned)
      BY <1>2, <1>3, <1>5, <2>1, <3>1 DEF Known, Alive
    <3> QED
      BY <1>1, <2>1, <3>2 DEF Controlled
  <2> QED
    BY <1>1, <2>1 DEF Controlled
<1>8. Owned'
  <2>1. ASSUME identity # Nobody, Matches(identity)' PROVE table'[identity.pid].window = window
    <3>1. PICK id \in Identity : id = identity
      BY <1>2, <2>1
    <3>2. Alive(id)'
      BY <2>1, <3>1 DEF Matches, Alive
    <3>3. Alive(id) /\ Survives(id.pid)
      BY <1>3, <1>5, <2>1, <3>1, <3>2 DEF Known
    <3>4. table[id.pid].window = window
      BY <1>1, <2>1, <3>1, <3>3 DEF Owned, Matches, Alive
    <3> QED
      BY <3>1, <3>3, <3>4 DEF Survives
  <2>2. ASSUME ~Excused(window), window > 0, NEW p \in Pids, Serves(p)' PROVE owned = IdentityOf(p)'
    BY <1>1, <1>6, <2>2 DEF Owned
  <2> QED
    BY <1>1, <2>1, <2>2 DEF Owned, Excused
<1>9. Rooted'
  <2> SUFFICES ASSUME at = "stop", phase = "tree", ~failed', ~Excused(window),
                      NEW p \in Pids, Serves(p)'
               PROVE  IdentityOf(p)' \in targets'
    BY DEF Rooted, Excused
  <2>1. window > 0
    BY <1>1 DEF Controlled
  <2>2. Serves(p) /\ IdentityOf(p)' = IdentityOf(p)
    BY <1>6, <2>1
  <2>3. IdentityOf(p)' \in targets
    BY <1>1, <2>2 DEF Rooted
  <2> QED
    BY <2>3 DEF Serves
<1>10. Gone'
  <2> SUFFICES ASSUME Releasing'
               PROVE  /\ \A p \in Pids : ~Serves(p)'
                      /\ at = "stop" => \A p \in Pids :
                           Running(p)' /\ table'[p].window = window => IdentityOf(p)' \in targets'
    BY DEF Gone
  <2>1. Releasing /\ at \in {"scan", "stop"} /\ ~failed'
    BY DEF Releasing, Excused
  <2>2. window > 0
    BY <1>1, <2>1 DEF Controlled
  <2>3. \A p \in Pids : ~Serves(p)
    BY <1>1, <2>1 DEF Gone
  <2>4. \A p \in Pids : ~Serves(p)'
    BY <1>6, <2>2, <2>3
  <2>5. ASSUME at = "stop", NEW p \in Pids, Running(p)', table'[p].window = window
        PROVE  IdentityOf(p)' \in targets'
    <3>1. table'[p] # Nobody
      BY <2>5 DEF Running
    <3>2. ~Alone(p)
      BY <1>2, <2>2, <2>5 DEF Alone
    <3>3. ASSUME NEW s \in Pids, ChildOf(p, s) PROVE FALSE
      BY <2>3, <2>5, <3>3 DEF ChildOf, Serves
    <3>4. Survives(p)
      BY <3>1, <3>2, <3>3 DEF Changes
    <3>5. Running(p) /\ table[p].window = window /\ IdentityOf(p)' = IdentityOf(p)
      BY <2>5, <3>4 DEF Survives, IdentityOf
    <3>6. IdentityOf(p)' \in targets
      BY <1>1, <2>1, <2>5, <3>5 DEF Gone
    <3> QED
      BY <2>1, <2>5, <3>6
  <2> QED
    BY <2>4, <2>5
<1>11. Rightful'
  <2> SUFFICES ASSUME at = "stop", NEW p \in Pids, Running(p)', IdentityOf(p)' \in targets'
               PROVE  IF phase = "tree" THEN table'[p].window = window ELSE Orphan(p)'
    BY DEF Rightful
  <2>1. table'[p] # Nobody
    BY DEF Running
  <2>2. IdentityOf(p)' \in targets /\ IdentityOf(p)'.born = table'[p].born
    BY DEF IdentityOf
  <2>3. table'[p].born <= born
    BY <1>2, <1>3, <2>2 DEF Known
  <2>4. ~Appears(p)
    BY <1>2, <2>3 DEF Appears
  <2>5. Survives(p)
    BY <2>1, <2>4 DEF Changes, Alone, ChildOf
  <2>6. Running(p) /\ IdentityOf(p) \in targets
    BY <2>2, <2>5 DEF Survives, IdentityOf
  <2>7. IF phase = "tree" THEN table[p].window = window ELSE Orphan(p)
    BY <1>1, <2>6 DEF Rightful
  <2> QED
    BY <1>1, <2>5, <2>7, OrphansStay DEF Survives
<1>12. NothingEscapes'
  <2> SUFFICES ASSUME NEW p \in Pids, Running(p)', table'[p].window > 0
               PROVE  InHand(table[p].window)' \/ table'[p].window \in crashed \cup unsure
    BY DEF NothingEscapes
  <2>1. table'[p] # Nobody
    BY DEF Running
  <2>2. CASE Survives(p)
    BY <1>1, <2>2 DEF Survives, NothingEscapes, InHand
  <2>3. ASSUME NEW s \in Pids, ChildOf(p, s)
        PROVE  InHand(table[p].window)' \/ table'[p].window \in crashed \cup unsure
    BY <1>1, <2>3 DEF ChildOf, NothingEscapes, InHand
  <2> QED
    BY <2>1, <2>2, <2>3 DEF Changes, Alone
<1> QED
  BY <1>4, <1>7, <1>8, <1>9, <1>10, <1>11, <1>12 DEF DesktopInv

(* Steps of supervisors, web processes and other programs.                 *)
LEMMA SystemKeeps ==
  ASSUME DesktopInv, NEW p \in Pids,
         ServeStarts(p) \/ ServeStops(p) \/ WebStarts(p) \/ Exits(p) \/ OthersStart(p)
  PROVE  DesktopInv'
<1>1. DesktopTypeOK
  BY DEF DesktopInv
<1>2. /\ table' \in [Pids -> Process \cup {Nobody}] /\ born' \in 0..MaxBorn
      /\ Changes /\ \A q \in Pids : ~IsSpawned(q)
  BY <1>1, ServeStartsChanges, ServeStopsChanges, WebStartsChanges, OthersStartChanges
<1>3. UNCHANGED <<control, crashed, unsure>>
  BY DEF ServeStarts, ServeStops, WebStarts, Exits, OthersStart, counters
<1>4. DesktopTypeOK'
  BY <1>1, <1>2, <1>3 DEF DesktopTypeOK, control
<1> QED
  BY <1>2, <1>3, <1>4, ProcessesKeep DEF control

(* One target is stopped, is given up as a failure, or is gone.            *)
LEMMA StopTargetsKeeps == DesktopInv /\ StopTargets => DesktopInv'
<1> SUFFICES ASSUME DesktopInv, StopTargets PROVE DesktopInv'
  OBVIOUS
<1>1. DesktopTypeOK
  BY DEF DesktopInv
<1>2. PICK id \in targets :
        /\ targets' = targets \ {id}
        /\ \/ Matches(id) /\ table' = Without({IdentityOf(id.pid)}) /\ UNCHANGED <<failed, denied>>
           \/ Matches(id) /\ failed' = TRUE /\ UNCHANGED table
           \/ /\ ~Matches(id) /\ UNCHANGED <<table, denied>>
              /\ failed' = (failed \/ (phase # "tree" /\ Running(id.pid)))
  BY DEF StopTargets
<1>3. UNCHANGED <<born, window, at, phase, quitting, owned, identity, cleaned, crashed, unsure>> /\ at = "stop"
  BY DEF StopTargets, Keeps
<1>4. id \in Identity /\ id = [pid |-> id.pid, born |-> id.born]
  BY <1>1 DEF DesktopTypeOK, Identity
<1>5. /\ table' \in [Pids -> Process \cup {Nobody}] /\ Changes
      /\ \A p \in Pids : table'[p] # Nobody => table'[p] = table[p]
      /\ ~failed' => \A p \in Pids : table'[p] # Nobody => IdentityOf(p) # id
  <2>1. CASE Matches(id) /\ table' = Without({IdentityOf(id.pid)}) /\ UNCHANGED failed
    <3>1. /\ table' \in [Pids -> Process \cup {Nobody}] /\ Changes
          /\ \A p \in Pids : table'[p] # Nobody =>
               table'[p] = table[p] /\ IdentityOf(p) \notin {IdentityOf(id.pid)}
      BY <1>1, <1>3, <2>1, KillsOnly
    <3>2. id = IdentityOf(id.pid)
      BY <1>4, <2>1 DEF Matches, IdentityOf
    <3> QED
      BY <3>1, <3>2
  <2>2. CASE Matches(id) /\ failed' = TRUE /\ UNCHANGED table
    BY <1>1, <1>3, <2>2, Unmoved
  <2>3. CASE ~Matches(id) /\ UNCHANGED table
    <3>1. \A p \in Pids : table'[p] # Nobody => IdentityOf(p) # id
      BY <1>4, <2>3 DEF Matches, IdentityOf, Running
    <3> QED
      BY <1>1, <1>3, <2>3, <3>1, Unmoved
  <2> QED
    BY <1>2, <2>1, <2>2, <2>3
<1>6. (failed => failed') /\ failed' \in BOOLEAN
  BY <1>1, <1>2 DEF DesktopTypeOK
<1>7. DesktopTypeOK'
  BY <1>1, <1>2, <1>3, <1>5, <1>6 DEF DesktopTypeOK
<1>8. \A p \in Pids : ~IsSpawned(p)
  BY <1>5 DEF IsSpawned, Appears, Idle
<1>9. ASSUME ~failed', NEW p \in Pids, Running(p)', IdentityOf(p)' \in targets
      PROVE  IdentityOf(p)' \in targets'
  <2>1. table'[p] # Nobody
    BY <1>9 DEF Running
  <2>2. IdentityOf(p)' = IdentityOf(p)
    BY <1>5, <2>1 DEF IdentityOf
  <2> QED
    BY <1>2, <1>5, <1>9, <2>1, <2>2
<1> QED
  BY <1>2, <1>3, <1>5, <1>6, <1>7, <1>8, <1>9, ProcessesKeep

---------------------------------------------------------------------------
(* The controller, while no process changes.                               *)

(* A window that opens has no process yet.                                 *)
LEMMA LaunchKeeps == DesktopInv /\ Launch => DesktopInv'
<1> SUFFICES ASSUME DesktopInv, Launch PROVE DesktopInv'
  OBVIOUS
<1> USE DEF DesktopInv
<1>1. /\ at = "off" /\ at' = "scan" /\ phase' = "initial" /\ window' = window + 1 /\ targets' = {}
      /\ failed' = FALSE /\ quitting' = FALSE /\ window < MaxWindows
      /\ UNCHANGED <<table, born, owned, identity, cleaned, counters>>
  BY DEF Launch, Begins, Proceeds
<1>2. owned = Nobody /\ identity = Nobody /\ window \in Nat
  BY <1>1 DEF Controlled, DesktopTypeOK
<1>3. DesktopTypeOK'
  <2>1. window' \in 0..MaxWindows
    BY <1>1 DEF DesktopTypeOK
  <2> QED
    BY <1>1, <2>1 DEF DesktopTypeOK
<1>4. Aged' /\ \A p \in Pids : Family(p)'
  <2>1. Changes
    BY <1>1, Unmoved
  <2>2. Known(owned)' /\ Known(identity)' /\ \A id \in targets' : Known(id)'
    BY <1>1, <1>2 DEF Known
  <2> QED
    BY <1>1, <1>2, <2>1, <2>2, TableKeeps
<1>5. Controlled'
  BY <1>1, <1>2 DEF Controlled
<1>6. \A p \in Pids : Running(p) => table[p].window # window' /\ table[p].window \in Nat
  BY <1>1, <1>2, RowType DEF Family
<1>7. Owned'
  BY <1>1, <1>2, <1>6 DEF Owned, Serves, Running
<1>8. Rooted' /\ Gone' /\ Rightful'
  BY <1>1 DEF Rooted, Gone, Releasing, Rightful
<1>9. NothingEscapes'
  BY <1>1, <1>2 DEF NothingEscapes, InHand, Running, counters
<1> QED
  BY <1>3, <1>4, <1>5, <1>7, <1>8, <1>9

(* A call that begins while no clean-up is at work, or the first step of a *)
(* clean-up: the window, its process and the faults stay.                  *)
LEMMA BeginningsKeep ==
  ASSUME DesktopInv, ClickStart \/ ProbeHealth \/ Confirm \/ Health
         \/ (ClickStop /\ owned # Nobody)
  PROVE  DesktopInv'
<1> USE DEF DesktopInv
<1>1. /\ UNCHANGED <<table, born, window, owned, identity, cleaned, counters>>
      /\ at \notin {"off", "scan", "stop", "tree"} /\ at' \in {"probe", "scan", "tree", "idle", "spawn"}
      /\ targets' = {}
      /\ at' = "tree" => phase' = "tree" /\ owned # Nobody
      /\ at' = "scan" => phase' = "initial"
      /\ at' = "spawn" => ~Alive(owned)
      /\ phase' \in {"initial", "tree", "release"} /\ quitting' \in BOOLEAN /\ failed' \in BOOLEAN
  BY DEF ClickStart, ClickStop, ProbeHealth, Confirm, Health, Begins, Proceeds, Same, Keeps,
     DesktopTypeOK, Controlled
<1>2. DesktopTypeOK'
  BY <1>1 DEF DesktopTypeOK
<1>3. Aged' /\ \A p \in Pids : Family(p)'
  BY <1>1 DEF Aged, Known, Family, Running, Alive
<1>4. Controlled'
  BY <1>1 DEF Controlled, Alive, Running
<1>5. Owned'
  BY <1>1 DEF Owned, Serves, Running, Matches, Excused, IdentityOf, counters
<1>6. Rooted' /\ Gone' /\ Rightful'
  BY <1>1 DEF Rooted, Gone, Releasing, Rightful
<1>7. NothingEscapes'
  BY <1>1 DEF NothingEscapes, InHand, Running, counters
<1> QED
  BY <1>2, <1>3, <1>4, <1>5, <1>6, <1>7

(* A window that owns nothing, or dies, leaves.                            *)
LEMMA LeavingKeeps ==
  ASSUME DesktopInv, Crash \/ (ClickStop /\ owned = Nobody)
  PROVE  DesktopInv'
<1> USE DEF DesktopInv
<1>1. /\ UNCHANGED <<table, born, window, unsure>>
      /\ at' = "off" /\ phase' = "initial" /\ quitting' = FALSE /\ failed' = FALSE
      /\ targets' = {} /\ owned' = Nobody /\ identity' = Nobody /\ cleaned' = FALSE
      /\ \/ crashed' = crashed \cup {window}
         \/ owned = Nobody /\ crashed' = crashed
  BY DEF Crash, ClickStop, Begins, Proceeds, Forgets, counters
<1>2. DesktopTypeOK'
  BY <1>1 DEF DesktopTypeOK
<1>3. Aged' /\ \A p \in Pids : Family(p)'
  BY <1>1 DEF Aged, Known, Family, Running, Alive
<1>4. Controlled' /\ Rooted' /\ Gone' /\ Rightful'
  BY <1>1 DEF Controlled, Rooted, Gone, Releasing, Rightful
<1>5. Owned'
  <2>1. ASSUME ~Excused(window)', window > 0, NEW p \in Pids, Serves(p) PROVE FALSE
    <3>1. owned = Nobody /\ ~Excused(window)
      BY <1>1, <2>1 DEF Excused
    <3>2. IdentityOf(p) \in Identity
      BY <2>1, RowType DEF Serves
    <3> QED
      BY <2>1, <3>1, <3>2 DEF Owned
  <2>2. \A p \in Pids : Serves(p)' <=> Serves(p)
    BY <1>1 DEF Serves, Running
  <2>3. ~Excused(window)' => ~Excused(window)
    BY <1>1 DEF Excused
  <2> QED
    BY <1>1, <2>1, <2>2, <2>3 DEF Owned
<1>6. NothingEscapes'
  BY <1>1 DEF NothingEscapes, InHand, Running
<1> QED
  BY <1>2, <1>3, <1>4, <1>5, <1>6

---------------------------------------------------------------------------
(* The clean-up.                                                           *)

(* Once no supervisor of the window runs, what else runs of the window is  *)
(* an orphan.                                                              *)
LEMMA OrphansOfWindow ==
  ASSUME DesktopInv, window > 0, \A q \in Pids : ~Serves(q),
         NEW p \in Pids, Running(p), table[p].window = window
  PROVE  Orphan(p)
<1>1. DesktopTypeOK /\ Family(p)
  BY DEF DesktopInv
<1>2. table[p].role # "serve"
  BY DEF Serves
<1>3. table[p].parent \in Identity
  BY <1>1, <1>2, RowType DEF Family
<1>4. ~Alive(table[p].parent)
  <2> SUFFICES ASSUME Alive(table[p].parent) PROVE FALSE
    OBVIOUS
  <2>1. PICK q \in Pids : q = table[p].parent.pid
    BY <1>3 DEF Identity
  <2>2. Running(q) /\ table[q].role = "serve" /\ table[q].window = window
    BY <1>1, <2>1 DEF Family, Alive
  <2> QED
    BY <2>2 DEF Serves
<1> QED
  BY <1>1, <1>2, <1>4 DEF Family, Orphan, Internal

(* The scan takes every orphan, or counts a failure, or marks the window.  *)
LEMMA ScanKeeps == DesktopInv /\ ScanOrphans => DesktopInv'
<1> SUFFICES ASSUME DesktopInv, ScanOrphans PROVE DesktopInv'
  OBVIOUS
<1> DEFINE orphans == {IdentityOf(p) : p \in {q \in Pids : Orphan(q)}}
<1>1. /\ at = "scan" /\ at' = "stop"
      /\ UNCHANGED <<table, born, window, phase, quitting, owned, identity, cleaned, exits, crashed>>
  BY DEF ScanOrphans, Proceeds, Keeps
<1>2. \/ targets' = orphans /\ UNCHANGED <<failed, unsure>>
      \/ \E id \in orphans :
           /\ targets' = orphans \ {id}
           /\ \/ failed' = TRUE /\ UNCHANGED unsure
              \/ unsure' = unsure \cup {table[id.pid].window} /\ UNCHANGED failed
  BY DEF ScanOrphans
<1>3. /\ DesktopTypeOK /\ Aged /\ \A p \in Pids : Family(p)
      /\ Controlled /\ Owned /\ Gone /\ NothingEscapes
  BY DEF DesktopInv
<1>4. \A p \in Pids : Orphan(p) => Running(p) /\ IdentityOf(p) \in Identity /\ table[p].born <= born
  BY <1>3, RowType DEF Orphan, Internal, Aged
<1>5. targets' \subseteq orphans /\ unsure \subseteq unsure' /\ failed' \in BOOLEAN /\ (failed => failed')
  BY <1>2, <1>3 DEF DesktopTypeOK
<1>6. orphans \subseteq Identity
  BY <1>4
<1>7. DesktopTypeOK'
  BY <1>1, <1>3, <1>5, <1>6 DEF DesktopTypeOK
<1>8. \A id \in targets' : Known(id)'
  BY <1>1, <1>4, <1>5 DEF Known, IdentityOf
<1>9. Aged' /\ \A p \in Pids : Family(p)'
  BY <1>1, <1>3, <1>8 DEF Aged, Known, Family, Running, Alive
<1>10. Controlled'
  BY <1>1, <1>3 DEF Controlled
<1>11. Owned'
  BY <1>1, <1>3, <1>5 DEF Owned, Serves, Running, Matches, Excused, IdentityOf
<1>12. Rooted'
  BY <1>1, <1>3 DEF Rooted, Controlled
<1>13. Gone'
  <2> SUFFICES ASSUME phase = "release", ~failed', ~Excused(window)'
               PROVE  /\ \A p \in Pids : ~Serves(p)
                      /\ \A p \in Pids : Running(p) /\ table[p].window = window => IdentityOf(p) \in targets'
    BY <1>1 DEF Gone, Releasing, Serves, Running, IdentityOf
  <2>1. ~failed /\ ~Excused(window) /\ window > 0
    BY <1>1, <1>3, <1>5 DEF Excused, Controlled
  <2>2. \A p \in Pids : ~Serves(p)
    BY <1>1, <1>3, <2>1 DEF Gone, Releasing
  <2>3. ASSUME NEW p \in Pids, Running(p), table[p].window = window PROVE IdentityOf(p) \in targets'
    <3>1. Orphan(p)
      BY <2>1, <2>2, <2>3, OrphansOfWindow
    <3>2. IdentityOf(p) \in orphans
      BY <3>1
    <3>3. CASE targets' = orphans
      BY <3>2, <3>3
    <3>4. ASSUME NEW id \in orphans, targets' = orphans \ {id}, unsure' = unsure \cup {table[id.pid].window}
          PROVE  IdentityOf(p) \in targets'
      <4>1. table[id.pid].window # window
        BY <1>1, <3>4 DEF Excused
      <4>2. IdentityOf(p) # id
        BY <2>3, <4>1 DEF IdentityOf
      <4> QED
        BY <3>2, <3>4, <4>2
    <3> QED
      BY <1>2, <3>3, <3>4
  <2> QED
    BY <2>2, <2>3
<1>14. Rightful'
  <2> SUFFICES ASSUME NEW p \in Pids, Running(p), IdentityOf(p) \in targets'
               PROVE  phase # "tree" /\ Orphan(p)
    BY <1>1 DEF Rightful, Running, IdentityOf, Orphan, Internal, Alive
  <2>1. PICK q \in Pids : Orphan(q) /\ IdentityOf(q) = IdentityOf(p)
    BY <1>5
  <2>2. q = p
    BY <2>1 DEF IdentityOf
  <2> QED
    BY <1>1, <1>3, <2>1, <2>2 DEF Controlled
<1>15. NothingEscapes'
  BY <1>1, <1>3, <1>5 DEF NothingEscapes, InHand, Running
<1> QED
  BY <1>7, <1>9, <1>10, <1>11, <1>12, <1>13, <1>14, <1>15 DEF DesktopInv

(* The snapshot of the tree has the supervisor of the window.              *)
LEMMA TreeKeeps == DesktopInv /\ Tree => DesktopInv'
<1> SUFFICES ASSUME DesktopInv, Tree PROVE DesktopInv'
  OBVIOUS
<1>1. /\ DesktopTypeOK /\ Aged /\ \A p \in Pids : Family(p)
      /\ Controlled /\ Owned /\ NothingEscapes
  BY DEF DesktopInv
<1>2. /\ at = "tree" /\ phase = "tree" /\ owned # Nobody /\ window > 0 /\ targets = {}
      /\ UNCHANGED <<table, born, window, quitting, owned, identity, cleaned, exits, crashed, unsure>>
      /\ failed' \in BOOLEAN /\ (failed' = failed \/ failed' = TRUE) /\ denied' \in {denied, denied + 1}
  BY <1>1 DEF Tree, Snapshot, Keeps, Same, Controlled, DesktopTypeOK
<1> DEFINE tree == Children(IdentityOf(identity.pid)) \cup {IdentityOf(identity.pid)}
<1>3. \/ /\ identity # Nobody /\ at' = "stop" /\ phase' = "tree"
         /\ \/ targets' = IF Matches(identity) THEN tree ELSE {}
            \/ targets' = {} /\ failed' = TRUE
      \/ identity = Nobody /\ at' = "idle" /\ phase' = "tree" /\ targets' = {}
      \/ identity = Nobody /\ at' = "scan" /\ phase' = "release" /\ targets' = {}
  BY <1>2 DEF Tree, Snapshot, Proceeds, Same
<1>4. ASSUME identity # Nobody, Matches(identity)
      PROVE  /\ identity = IdentityOf(identity.pid) /\ identity \in Identity /\ Known(identity)
             /\ \A id \in tree : id \in Identity /\ Known(id)
             /\ \A p \in Pids : Running(p) /\ IdentityOf(p) \in tree => table[p].window = window
  <2>1. identity \in Identity /\ Known(identity)
    BY <1>1, <1>4 DEF DesktopTypeOK, Aged
  <2>2. identity = IdentityOf(identity.pid)
    BY <1>4, <2>1 DEF Identity, Matches, IdentityOf
  <2>3. \A id \in Children(identity) : id \in Identity /\ Known(id)
    BY <1>1, RowType DEF Children, Known, Aged, IdentityOf
  <2>4. Alive(identity) /\ table[identity.pid].window = window
    BY <1>1, <1>4 DEF Alive, Matches, Owned
  <2>5. ASSUME NEW p \in Pids, Running(p), IdentityOf(p) \in tree PROVE table[p].window = window
    <3>1. CASE IdentityOf(p) = identity
      BY <2>4, <3>1 DEF IdentityOf
    <3>2. CASE IdentityOf(p) \in Children(identity)
      <4>1. PICK q \in Pids : table[q].parent = identity /\ IdentityOf(q) = IdentityOf(p)
        BY <3>2 DEF Children
      <4>2. table[p].parent = identity
        BY <4>1 DEF IdentityOf
      <4> QED
        BY <1>1, <1>4, <2>4, <2>5, <4>2 DEF Family
    <3> QED
      BY <2>2, <2>5, <3>1, <3>2
  <2> QED
    BY <2>1, <2>2, <2>3, <2>5
<1> HIDE DEF tree
<1>5. \A id \in targets' : id \in Identity /\ Known(id)
  BY <1>3, <1>4
<1>6. DesktopTypeOK'
  BY <1>1, <1>2, <1>3, <1>5 DEF DesktopTypeOK
<1>7. Aged' /\ \A p \in Pids : Family(p)'
  BY <1>1, <1>2, <1>5 DEF Aged, Known, Family, Running, Alive
<1>8. Controlled'
  BY <1>1, <1>2, <1>3 DEF Controlled
<1>9. Owned'
  BY <1>1, <1>2 DEF Owned, Serves, Running, Matches, Excused, IdentityOf
<1>10. Rooted'
  <2> SUFFICES ASSUME at' = "stop", ~failed', ~Excused(window), NEW p \in Pids, Serves(p)
               PROVE  IdentityOf(p) \in targets'
    BY <1>2 DEF Rooted, Excused, Serves, Running, IdentityOf
  <2>1. identity = IdentityOf(p) /\ identity # Nobody
    BY <1>1, <1>2 DEF Owned
  <2>2. Matches(identity) /\ IdentityOf(identity.pid) = identity
    BY <2>1 DEF Matches, IdentityOf, Serves
  <2>3. targets' = tree
    BY <1>3, <2>1, <2>2
  <2> QED
    BY <2>1, <2>2, <2>3 DEF tree
<1>11. Gone'
  <2> SUFFICES ASSUME phase' = "release", ~Excused(window) PROVE FALSE
    BY <1>2 DEF Gone, Releasing, Excused
  <2> QED
    BY <1>1, <1>2, <1>3 DEF Owned
<1>12. Rightful'
  <2> SUFFICES ASSUME at' = "stop", NEW p \in Pids, Running(p), IdentityOf(p) \in targets'
               PROVE  phase' = "tree" /\ table[p].window = window
    BY <1>2 DEF Rightful, Running, IdentityOf
  <2> QED
    BY <1>3, <1>4
<1>13. NothingEscapes'
  BY <1>1, <1>2, <1>3 DEF NothingEscapes, InHand, Running
<1> QED
  BY <1>6, <1>7, <1>8, <1>9, <1>10, <1>11, <1>12, <1>13 DEF DesktopInv

(* The window gives its process up only after a clean-up without failures. *)
LEMMA StoppedKeeps == DesktopInv /\ Stopped => DesktopInv'
<1> SUFFICES ASSUME DesktopInv, Stopped PROVE DesktopInv'
  OBVIOUS
<1>1. /\ DesktopTypeOK /\ Aged /\ \A p \in Pids : Family(p)
      /\ Controlled /\ Owned /\ Rooted /\ Gone /\ NothingEscapes
  BY DEF DesktopInv
<1>2. /\ at = "stop" /\ targets = {} /\ targets' = {} /\ window > 0
      /\ UNCHANGED <<table, born, window, quitting, failed, counters>>
  BY <1>1 DEF Stopped, Controlled
<1>3. \/ /\ phase = "initial" /\ at' \in {"idle", "probe"} /\ phase' = phase
         /\ UNCHANGED <<owned, identity>>
      \/ /\ phase = "tree" /\ at' = "scan" /\ phase' = "release"
         /\ UNCHANGED <<owned, identity>>
      \/ /\ phase = "release" /\ at' = "idle" /\ phase' = phase
         /\ UNCHANGED <<owned, identity>>
      \/ /\ phase = "release" /\ ~failed /\ at' \in {"off", "idle"} /\ phase' = phase
         /\ owned' = Nobody /\ identity' = Nobody
  BY DEF Stopped, Proceeds, Keeps
<1>4. cleaned' \in BOOLEAN
  BY <1>1 DEF Stopped, Keeps, DesktopTypeOK
<1>5. DesktopTypeOK'
  BY <1>1, <1>2, <1>3, <1>4 DEF DesktopTypeOK
<1>6. Aged' /\ \A p \in Pids : Family(p)'
  BY <1>1, <1>2, <1>3 DEF Aged, Known, Family, Running, Alive
<1>7. Controlled'
  BY <1>1, <1>2, <1>3 DEF Controlled
<1>8. ASSUME phase = "release", ~failed, ~Excused(window), NEW p \in Pids, Running(p)
      PROVE  table[p].window # window
  BY <1>1, <1>2, <1>8 DEF Gone, Releasing
<1>9. Owned'
  <2>1. CASE UNCHANGED <<owned, identity>>
    BY <1>1, <1>2, <2>1 DEF Owned, Serves, Running, Matches, Excused, IdentityOf, counters
  <2>2. CASE phase = "release" /\ ~failed /\ owned' = Nobody /\ identity' = Nobody
    BY <1>2, <1>8, <2>2 DEF Owned, Serves, Running, Excused, counters
  <2> QED
    BY <1>3, <2>1, <2>2
<1>10. Rooted' /\ Rightful'
  BY <1>2, <1>3 DEF Rooted, Rightful
<1>11. Gone'
  <2> SUFFICES ASSUME Releasing', NEW p \in Pids PROVE at' = "scan" /\ ~Serves(p)
    BY <1>2 DEF Gone, Serves, Running
  <2>1. phase = "tree" /\ at' = "scan" /\ ~failed /\ ~Excused(window)
    BY <1>2, <1>3 DEF Releasing, Excused, counters
  <2> QED
    BY <1>1, <1>2, <2>1 DEF Rooted
<1>12. NothingEscapes'
  <2>1. CASE UNCHANGED owned /\ at' # "off"
    BY <1>1, <1>2, <2>1 DEF NothingEscapes, InHand, Running, counters
  <2>2. CASE phase = "release" /\ ~failed
    BY <1>1, <1>2, <1>8, <2>2 DEF NothingEscapes, InHand, Running, Excused, counters
  <2> QED
    BY <1>3, <2>1, <2>2
<1> QED
  BY <1>5, <1>6, <1>7, <1>9, <1>10, <1>11, <1>12 DEF DesktopInv

(* The window starts a supervisor only when the one it owned is dead.      *)
LEMMA SpawnKeeps == DesktopInv /\ Spawn => DesktopInv'
<1> SUFFICES ASSUME DesktopInv, Spawn PROVE DesktopInv'
  OBVIOUS
<1>1. /\ DesktopTypeOK /\ Aged /\ \A p \in Pids : Family(p)
      /\ Controlled /\ Owned /\ NothingEscapes
  BY DEF DesktopInv
<1>2. /\ table' \in [Pids -> Process \cup {Nobody}] /\ born' \in 0..MaxBorn
      /\ Changes /\ owned' \in Identity /\ owned'.born = born' /\ born' = born + 1
      /\ \A q \in Pids : IsSpawned(q) <=> q = owned'.pid
  BY <1>1, SpawnChanges
<1>3. /\ at = "spawn" /\ at' \in {"health", "confirm"} /\ targets = {} /\ targets' = {}
      /\ window > 0 /\ window \in Nat
      /\ UNCHANGED <<window, phase, quitting, failed, cleaned, crashed>>
      /\ \/ identity' = owned' /\ unsure' = unsure
         \/ unsure' = unsure \cup {window} /\ UNCHANGED identity
  BY <1>1 DEF Spawn, Proceeds, Same, Controlled, DesktopTypeOK
<1>4. owned' # Nobody /\ born \in Nat /\ born' \in Nat
  BY <1>1, <1>2 DEF DesktopTypeOK
<1>5. DesktopTypeOK'
  BY <1>1, <1>2, <1>3, <1>4 DEF DesktopTypeOK
<1>6. Known(owned)' /\ Known(identity)'
  <2>1. Known(identity) /\ identity \in Identity \cup {Nobody}
    BY <1>1 DEF Aged, DesktopTypeOK
  <2>2. identity # Nobody => identity.born \in Nat
    BY <2>1 DEF Identity
  <2> QED
    BY <1>2, <1>3, <1>4, <2>1, <2>2 DEF Known
<1>7. Aged' /\ \A p \in Pids : Family(p)'
  BY <1>2, <1>3, <1>6, TableKeeps
<1>8. Controlled'
  BY <1>3, <1>4 DEF Controlled
<1>9. PICK new \in Pids : IsSpawned(new) /\ owned' = IdentityOf(new)' /\ owned'.pid = new
  <2>1. PICK q \in Pids : q = owned'.pid
    BY <1>2 DEF Identity
  <2>2. IsSpawned(q) /\ owned' = [pid |-> q, born |-> owned'.born]
    BY <1>2, <2>1 DEF Identity
  <2>3. owned' = IdentityOf(q)'
    BY <1>2, <2>2 DEF IsSpawned, Appears, IdentityOf
  <2> QED
    BY <2>1, <2>2, <2>3
<1>10. Owned'
  <2>1. ASSUME identity' # Nobody, Matches(identity)' PROVE table'[identity'.pid].window = window
    <3>1. CASE identity' = owned'
      BY <1>9, <3>1 DEF IsSpawned
    <3>2. CASE identity' = identity
      <4>1. PICK id \in Identity : id = identity
        BY <1>1, <2>1, <3>2 DEF DesktopTypeOK
      <4>2. Alive(id)'
        BY <2>1, <3>2, <4>1 DEF Matches, Alive
      <4>3. id.born <= born
        BY <1>1, <2>1, <3>2, <4>1 DEF Aged, Known
      <4>4. Alive(id) /\ Survives(id.pid)
        BY <1>1, <1>2, <4>2, <4>3, AliveBefore
      <4>5. table[id.pid].window = window
        BY <1>1, <2>1, <3>2, <4>1, <4>4 DEF Owned, Matches, Alive
      <4> QED
        BY <3>2, <4>1, <4>4, <4>5 DEF Survives
    <3> QED
      BY <1>3, <3>1, <3>2
  <2>2. ASSUME ~Excused(window)', NEW p \in Pids, Serves(p)'
        PROVE  owned' = IdentityOf(p)'
    <3>1. CASE IsSpawned(p)
      BY <1>2, <1>9, <3>1
    <3>2. CASE ~IsSpawned(p)
      <4>1. Serves(p)
        BY <1>1, <1>2, <1>3, <2>2, <3>2, ServesBefore
      <4>2. ~Excused(window)
        BY <1>3, <2>2 DEF Excused
      <4>3. owned = IdentityOf(p)
        BY <1>1, <1>3, <4>1, <4>2 DEF Owned
      <4>4. IdentityOf(p) \in Identity /\ Running(p)
        BY <1>1, <4>1, RowType DEF Serves
      <4>5. Alive(owned)
        BY <4>3, <4>4 DEF Alive, IdentityOf
      <4> QED
        BY <1>1, <1>3, <4>5 DEF Controlled
    <3> QED
      BY <3>1, <3>2
  <2>3. ~Excused(window)' => identity' = owned'
    BY <1>3 DEF Excused
  <2> QED
    BY <1>3, <2>1, <2>2, <2>3 DEF Owned
<1>11. Rooted' /\ Gone' /\ Rightful'
  BY <1>3 DEF Rooted, Gone, Releasing, Rightful
<1>12. NothingEscapes'
  <2> SUFFICES ASSUME NEW p \in Pids, Running(p)', table'[p].window > 0, table'[p].window # window
               PROVE  table'[p].window \in crashed \cup unsure
    BY <1>3, <1>4 DEF NothingEscapes, InHand
  <2>1. table'[p] # Nobody
    BY DEF Running
  <2>2. CASE Survives(p)
    BY <1>1, <2>2 DEF Survives, NothingEscapes, InHand
  <2>3. ASSUME NEW s \in Pids, ChildOf(p, s) PROVE table'[p].window \in crashed \cup unsure
    BY <1>1, <2>3 DEF ChildOf, NothingEscapes, InHand
  <2>4. table'[p].window \in crashed \cup unsure
    BY <1>2, <2>1, <2>2, <2>3 DEF Changes, Alone, IsSpawned
  <2> QED
    BY <1>3, <2>4
<1> QED
  BY <1>5, <1>7, <1>8, <1>10, <1>11, <1>12 DEF DesktopInv

---------------------------------------------------------------------------
(* All steps together.                                                     *)
LEMMA DesktopInvariant == DesktopSpec => []DesktopInv
<1>1. DesktopInv /\ [DesktopNext]_desktopVars => DesktopInv'
  <2> SUFFICES ASSUME DesktopInv, [DesktopNext]_desktopVars PROVE DesktopInv'
    OBVIOUS
  <2>1. CASE UNCHANGED desktopVars
    <3> USE DEF Known, Releasing, InHand, Serves, Running, IdentityOf, Alive, Matches, Orphan, Internal,
                Excused
    <3>1. UNCHANGED <<table, born, window, at, phase, quitting, owned, identity, cleaned, targets, failed,
                      exits, denied, crashed, unsure>>
      BY <2>1 DEF desktopVars, control, counters
    <3>2. DesktopTypeOK' /\ Aged'
      BY <3>1 DEF DesktopInv, DesktopTypeOK, Aged
    <3>3. \A p \in Pids : Family(p)'
      BY <3>1 DEF DesktopInv, Family
    <3>4. Controlled' /\ Owned' /\ Rooted'
      BY <3>1 DEF DesktopInv, Controlled, Owned, Rooted
    <3>5. Gone' /\ Rightful'
      BY <3>1 DEF DesktopInv, Gone, Rightful
    <3>6. NothingEscapes'
      BY <3>1 DEF DesktopInv, NothingEscapes
    <3> QED BY <3>2, <3>3, <3>4, <3>5, <3>6 DEF DesktopInv
  <2>2. CASE \E p \in Pids : ServeStarts(p) \/ ServeStops(p) \/ WebStarts(p) \/ Exits(p) \/ OthersStart(p)
    BY <2>2, SystemKeeps
  <2>3. CASE Launch \/ ClickStart \/ ClickStop \/ Crash
    BY <2>3, LaunchKeeps, BeginningsKeep, LeavingKeeps
  <2>4. CASE ScanOrphans \/ Tree \/ StopTargets \/ Stopped \/ Spawn
    BY <2>4, ScanKeeps, TreeKeeps, StopTargetsKeeps, StoppedKeeps, SpawnKeeps
  <2>5. CASE ProbeHealth \/ Confirm \/ Health
    BY <2>5, BeginningsKeep
  <2> QED
    BY <2>1, <2>2, <2>3, <2>4, <2>5 DEF DesktopNext
<1> QED
  BY DesktopInitially, <1>1, PTL DEF DesktopSpec

(* A window that stopped its service or quit leaves no process of it,      *)
(* unless it died or was denied the identity of its service; for any       *)
(* number of windows, processes, deaths and denials.                       *)
THEOREM NoEscape == DesktopSpec => []NothingEscapes
<1>1. DesktopInv => NothingEscapes
  BY DEF DesktopInv
<1> QED
  BY <1>1, DesktopInvariant, PTL

(* A window stops only what it started itself and orphans, also when the   *)
(* identifiers of the processes it remembers were given to others.         *)
THEOREM OthersLeftAlone == DesktopSpec => OthersAreLeftAlone
<1> DEFINE A == \A p \in Pids :
       at = "stop" /\ targets' # targets /\ Running(p) /\ table'[p] = Nobody
         => table[p].window = window \/ Orphan(p)
<1>1. DesktopInv /\ [DesktopNext]_desktopVars => [A]_desktopVars
  <2> SUFFICES ASSUME DesktopInv, DesktopNext, NEW p \in Pids,
                      at = "stop", targets' # targets, Running(p), table'[p] = Nobody
               PROVE  table[p].window = window \/ Orphan(p)
    OBVIOUS
  <2>1. table[p] # Nobody
    BY DEF Running
  <2>2. StopTargets \/ Crash
    BY <2>1 DEF DesktopNext, ServeStarts, ServeStops, WebStarts, Exits, OthersStart, control, Launch,
       ClickStart, ClickStop, ScanOrphans, Tree, Snapshot, Stopped, ProbeHealth, Spawn, Confirm, Health
  <2>3. StopTargets
    BY <2>1, <2>2 DEF Crash
  <2>4. PICK id \in targets : table' = Without({IdentityOf(id.pid)}) /\ Matches(id)
    BY <2>1, <2>3 DEF StopTargets
  <2>5. DesktopTypeOK /\ Rightful
    BY DEF DesktopInv
  <2>6. id \in Identity
    BY <2>5 DEF DesktopTypeOK
  <2>7. IdentityOf(p) = IdentityOf(id.pid)
    BY <2>1, <2>4 DEF Without
  <2>8. IdentityOf(p) = id
    BY <2>4, <2>6, <2>7 DEF Identity, Matches, IdentityOf
  <2> QED
    BY <2>5, <2>8 DEF Rightful
<1>2. []DesktopInv /\ [][DesktopNext]_desktopVars => [][A]_desktopVars
  BY <1>1, PTL
<1> QED
  BY <1>2, DesktopInvariant, PTL DEF DesktopSpec, OthersAreLeftAlone

---------------------------------------------------------------------------
(* What the reports of a day say (ReportContent).                          *)

(* Of some numbers there is a least one.                                   *)
LEMMA LeastNumber ==
  ASSUME NEW S \in SUBSET Nat, S # {} PROVE \E m \in S : \A h \in S : m <= h
<1> DEFINE R == OpToRel(<, Nat)
<1>1. IsWellFoundedOn(R, Nat)
  BY NatLessThanWellFounded
<1>2. \E x \in S : \A y \in S : ~(<<y, x>> \in R)
  BY ONLY <1>1, S # {}, S \in SUBSET Nat, WFMin, Zenon
<1>3. PICK x \in S : \A y \in S : ~(<<y, x>> \in R)
  BY <1>2
<1>4. ASSUME NEW h \in S PROVE x <= h
  <2>1. x \in Nat /\ h \in Nat /\ <<h, x>> \notin R
    BY <1>3
  <2> QED BY <2>1 DEF OpToRel
<1> QED BY <1>4

(* What holds at first and is kept holds to the end.                       *)
LEMMA Upward ==
  ASSUME NEW n \in Nat, NEW T, 0 \in T, \A k \in 0 .. n : k \in T /\ k < n => k + 1 \in T
  PROVE  \A k \in 0 .. n : k \in T
<1> DEFINE S == {k \in 0 .. n : k \notin T}
<1> SUFFICES ASSUME S # {} PROVE FALSE
  OBVIOUS
<1>1. S \in SUBSET Nat
  OBVIOUS
<1>2. PICK m \in S : \A h \in S : m <= h
  BY <1>1, LeastNumber
<1>3. m \in Nat /\ m # 0 /\ m <= n /\ m \notin T
  OBVIOUS
<1>4. m - 1 \in 0 .. n /\ m - 1 < n /\ ~(m <= m - 1) /\ (m - 1) + 1 = m
  BY <1>3
<1>5. m - 1 \in T
  BY <1>2, <1>4
<1> QED BY <1>3, <1>4, <1>5

(* A sequence of steps has its states.                                     *)
Runs(f, base, n, move) == f[0] = base /\ \A k \in 1 .. n : f[k] = move[k][f[k - 1]]
LEMMA Iterated ==
  ASSUME NEW X, NEW base \in X, NEW n \in Nat, NEW move \in [1 .. n -> [X -> X]]
  PROVE  \E f \in [0 .. n -> X] : Runs(f, base, n, move)
<1> USE DEF Runs
<1> DEFINE T == {m \in 0 .. n : \E f \in [0 .. m -> X] : Runs(f, base, m, move)}
<1>1. 0 \in T
  <2> DEFINE f == [k \in 0 .. 0 |-> base]
  <2>1. f \in [0 .. 0 -> X] /\ f[0] = base /\ 1 .. 0 = {}
    OBVIOUS
  <2>2. 0 \in 0 .. n
    OBVIOUS
  <2> QED BY <2>1, <2>2
<1>2. ASSUME NEW m \in 0 .. n, m \in T, m < n PROVE m + 1 \in T
  <2>1. PICK f \in [0 .. m -> X] : Runs(f, base, m, move)
    BY <1>2
  <2> DEFINE next == move[m + 1][f[m]]
             g == [k \in 0 .. (m + 1) |-> IF k <= m THEN f[k] ELSE next]
  <2>2. m \in Nat /\ m + 1 \in 1 .. n /\ m + 1 \in 0 .. n /\ m \in 0 .. m
    BY <1>2
  <2>3. next \in X
    <3>1. f[m] \in X
      BY <2>2
    <3>2. move[m + 1] \in [X -> X]
      BY <2>2
    <3> QED BY <3>1, <3>2
  <2> HIDE DEF next
  <2>4. g \in [0 .. (m + 1) -> X]
    BY <2>2, <2>3
  <2>5. g[0] = base
    BY <2>1, <2>2
  <2>6. ASSUME NEW k \in 1 .. (m + 1) PROVE g[k] = move[k][g[k - 1]]
    <3>1. k \in 0 .. (m + 1) /\ k - 1 \in 0 .. (m + 1) /\ k - 1 \in 0 .. m /\ k - 1 <= m
      BY <2>2
    <3>2. g[k - 1] = f[k - 1]
      BY <3>1
    <3>3. CASE k <= m
      <4>1. k \in 1 .. m
        BY <2>2, <3>3
      <4>2. f[k] = move[k][f[k - 1]]
        BY <2>1, <4>1
      <4> QED BY <3>1, <3>2, <3>3, <4>2
    <3>4. CASE k = m + 1
      <4>1. g[k] = next /\ k - 1 = m
        BY <2>2, <3>1, <3>4
      <4> QED BY <3>2, <3>4, <4>1 DEF next
    <3> QED BY <2>2, <3>3, <3>4
  <2> HIDE DEF g
  <2> QED BY <2>2, <2>4, <2>5, <2>6
<1> HIDE DEF T
<1>3. \A k \in 0 .. n : k \in T /\ k < n => k + 1 \in T
  BY <1>2
<1>4. \A k \in 0 .. n : k \in T
  BY ONLY n \in Nat, <1>1, <1>3, Upward
<1>5. n \in 0 .. n
  OBVIOUS
<1> QED BY <1>4, <1>5 DEF T

---------------------------------------------------------------------------
(* One row of the new ones is added.                                       *)

(* What becomes of the rows when one is added: it takes the place of the   *)
(* row of its event, is refused there, is only evidence for its survivor,  *)
(* or is a row of its own.                                                 *)
Refused(list, new, verdicts) ==
  \E ix \in DOMAIN list : list[ix].event = new.event /\ ~Supersedes(new, list[ix], verdicts)
Newer(list, after, new, verdicts) ==
  \E ix \in DOMAIN list :
    /\ list[ix].event = new.event /\ Supersedes(new, list[ix], verdicts)
    /\ after = [list EXCEPT ![ix] = new]
OnlyEvidence(list, new) ==
  /\ new.event \notin EventsOf(list) /\ new.event # Survivor(new.event)
  /\ Survivor(new.event) \in Represented(list)
RowOfItsOwn(list, after, new) ==
  /\ new.event \notin EventsOf(list) /\ after = Append(list, new)
  /\ Survivor(new.event) \notin Represented(list) \/ new.event = Survivor(new.event)
ForMerged(list, after, new, historical) ==
  \E ix \in DOMAIN list :
    /\ new.event \notin EventsOf(list) /\ new.event = Survivor(new.event)
    /\ list[ix].event \notin historical /\ list[ix].event # Survivor(list[ix].event)
    /\ Survivor(list[ix].event) = new.event
    /\ after = [list EXCEPT ![ix] = new]

LEMMA CanonicalIs ==
  ASSUME NEW list \in Seq(Row), NEW c
  PROVE  /\ IndexOfCanonical(list, c) \in SUBSET DOMAIN list
         /\ \A i \in IndexOfCanonical(list, c) : Survivor(list[i].event) = c
         /\ IndexOfCanonical(list, c) = {} <=> c \notin Represented(list)
<1> DEFINE same == {i \in DOMAIN list : Survivor(list[i].event) = c}
           own == {i \in IndexOfEvent(list, c) : Survivor(c) = c}
<1>1. IndexOfCanonical(list, c) = IF own # {} THEN own ELSE {i \in same : \A j \in same : i <= j}
  BY DEF IndexOfCanonical, First
<1>2. own \in SUBSET same
  BY DEF IndexOfEvent
<1>3. same \in SUBSET Nat /\ same \in SUBSET DOMAIN list
  <2>1. DOMAIN list = 1 .. Len(list)
    OBVIOUS
  <2> QED BY <2>1
<1>4. same # {} => {i \in same : \A j \in same : i <= j} # {}
  BY <1>3, LeastNumber
<1>5. same = {} <=> c \notin Represented(list)
  BY DEF Represented
<1> HIDE DEF own
<1> QED BY <1>1, <1>2, <1>3, <1>4, <1>5

LEMMA AddedIs ==
  ASSUME NEW list \in Seq(Row), NEW new \in Row, NEW historical, NEW verdicts
  PROVE  LET after == Added(list, new, historical, verdicts)
         IN  \/ after = list /\ (Refused(list, new, verdicts) \/ OnlyEvidence(list, new))
             \/ Newer(list, after, new, verdicts)
             \/ RowOfItsOwn(list, after, new)
             \/ ForMerged(list, after, new, historical)
<1> DEFINE c == Survivor(new.event)
           exact == IndexOfEvent(list, new.event)
           same == IndexOfCanonical(list, c)
           after == Added(list, new, historical, verdicts)
<1>1. after = AddedAt(list, exact, same, new, c, historical, verdicts)
  BY DEF Added, AddedFor
<1>2. /\ same \in SUBSET DOMAIN list /\ \A i \in same : Survivor(list[i].event) = c
      /\ same = {} <=> c \notin Represented(list)
  BY CanonicalIs
<1>3. exact \in SUBSET DOMAIN list /\ \A i \in exact : list[i].event = new.event
  BY DEF IndexOfEvent
<1>4. exact = {} <=> new.event \notin EventsOf(list)
  BY DEF IndexOfEvent, EventsOf
<1> HIDE DEF exact, same
<1>5. CASE exact # {}
  <2>1. PICK ix : ix = CHOOSE i \in exact : TRUE
    OBVIOUS
  <2>2. ix \in exact
    BY <1>5, <2>1
  <2>3. after = AtEvent(list, ix, new, verdicts)
    BY <1>1, <1>5, <2>1 DEF AddedAt
  <2> QED BY <1>3, <2>2, <2>3 DEF AtEvent, Refused, Newer
<1>6. CASE exact = {} /\ same = {}
  <2>1. after = Append(list, new)
    BY <1>1, <1>6 DEF AddedAt
  <2> QED BY <1>2, <1>4, <1>6, <2>1 DEF RowOfItsOwn
<1>7. CASE exact = {} /\ same # {}
  <2>1. PICK ix : ix = CHOOSE i \in same : TRUE
    OBVIOUS
  <2>2. ix \in same
    BY <1>7, <2>1
  <2>3. after = AtSurvivor(list, ix, new, c, historical)
    BY <1>1, <1>7, <2>1 DEF AddedAt
  <2>4. ix \in DOMAIN list /\ Survivor(list[ix].event) = c /\ list[ix].event # new.event
    BY <1>2, <1>4, <1>7, <2>2 DEF EventsOf
  <2>5. CASE new.event # c
    <3>1. after = list
      BY <2>3, <2>5 DEF AtSurvivor
    <3> QED BY <1>2, <1>4, <1>7, <2>5, <3>1 DEF OnlyEvidence
  <2>6. CASE new.event = c /\ list[ix].event \in historical
    <3>1. after = Append(list, new)
      BY <2>3, <2>4, <2>6 DEF AtSurvivor
    <3> QED BY <1>4, <1>7, <2>6, <3>1 DEF RowOfItsOwn
  <2>7. CASE new.event = c /\ list[ix].event \notin historical
    <3>1. after = [list EXCEPT ![ix] = new]
      BY <2>3, <2>4, <2>7 DEF AtSurvivor
    <3> QED BY <1>4, <1>7, <2>4, <2>7, <3>1 DEF ForMerged
  <2> QED BY <2>5, <2>6, <2>7
<1> QED BY <1>5, <1>6, <1>7

(* How rows change when one is added.                                      *)
Enters(list, new) ==
  /\ new.event \notin EventsOf(list)
  /\ Survivor(new.event) \notin Represented(list) \/ new.event = Survivor(new.event)
EachFromOne(list, after, new, verdicts) ==
  \A x \in DOMAIN after :
    \/ x \in DOMAIN list /\ after[x] = list[x]
    \/ /\ after[x] = new
       /\ \/ x \in DOMAIN list /\ list[x].event = new.event /\ Supersedes(new, list[x], verdicts)
          \/ Enters(list, new)
EachGoesOn(list, after, historical) ==
  \A x \in DOMAIN list :
    /\ Survivor(list[x].event) \in Represented(after)
    /\ \/ list[x].event \in EventsOf(after)
       \/ list[x].event \notin historical /\ list[x].event # Survivor(list[x].event)
Arrives(after, new) ==
  /\ Survivor(new.event) \in Represented(after)
  /\ new.event = Survivor(new.event) =>
       \E y \in DOMAIN after :
         after[y].event = new.event /\ (~new.degraded => after[y].version >= new.version)

AddsRow(list, after, new, historical, verdicts) ==
  /\ after \in Seq(Row) /\ OneRowPerEvent(after)
  /\ EachFromOne(list, after, new, verdicts)
  /\ EachGoesOn(list, after, historical)
  /\ Arrives(after, new)

LEMMA RowsStay ==
  ASSUME NEW list \in Seq(Row), OneRowPerEvent(list), NEW new \in Row, NEW historical, NEW verdicts,
         Refused(list, new, verdicts) \/ OnlyEvidence(list, new)
  PROVE  AddsRow(list, list, new, historical, verdicts)
<1>1. EachFromOne(list, list, new, verdicts)
  BY DEF EachFromOne
<1>2. EachGoesOn(list, list, historical)
  BY DEF EachGoesOn, Represented, EventsOf
<1>3. Arrives(list, new)
  <2>1. CASE Refused(list, new, verdicts)
    <3>1. PICK ix \in DOMAIN list : list[ix].event = new.event /\ ~Supersedes(new, list[ix], verdicts)
      BY <2>1 DEF Refused
    <3>2. list[ix] \in Row
      OBVIOUS
    <3>3. list[ix].version \in Nat /\ new.version \in Nat
      BY <3>2 DEF Row
    <3>4. ~new.degraded => list[ix].version >= new.version
      BY <3>1, <3>3 DEF Supersedes
    <3> QED BY <3>1, <3>4 DEF Arrives, Represented
  <2>2. CASE OnlyEvidence(list, new)
    BY <2>2 DEF Arrives, OnlyEvidence
  <2> QED BY <2>1, <2>2
<1> QED BY <1>1, <1>2, <1>3 DEF AddsRow

(* One row takes the place of another.                                     *)
LEMMA RowReplaced ==
  ASSUME NEW list \in Seq(Row), OneRowPerEvent(list), NEW new \in Row, NEW historical, NEW verdicts,
         NEW ix \in DOMAIN list,
         \/ list[ix].event = new.event /\ Supersedes(new, list[ix], verdicts)
         \/ /\ new.event \notin EventsOf(list) /\ new.event = Survivor(new.event)
            /\ list[ix].event \notin historical /\ list[ix].event # Survivor(list[ix].event)
            /\ Survivor(list[ix].event) = new.event
  PROVE  AddsRow(list, [list EXCEPT ![ix] = new], new, historical, verdicts)
<1> DEFINE after == [list EXCEPT ![ix] = new]
<1>1. /\ after \in Seq(Row) /\ DOMAIN after = DOMAIN list /\ after[ix] = new
      /\ \A x \in DOMAIN list : x # ix => after[x] = list[x]
  OBVIOUS
<1> HIDE DEF after
<1>2. OneRowPerEvent(after)
  BY <1>1 DEF OneRowPerEvent, EventsOf
<1>3. EachFromOne(list, after, new, verdicts)
  BY <1>1 DEF EachFromOne, Enters
<1>4. Survivor(list[ix].event) = Survivor(new.event)
  OBVIOUS
<1>5. EachGoesOn(list, after, historical)
  BY <1>1, <1>4 DEF EachGoesOn, Represented, EventsOf
<1>6. new.version >= new.version
  BY DEF Row
<1>7. Arrives(after, new)
  BY <1>1, <1>6 DEF Arrives, Represented
<1> QED BY <1>1, <1>2, <1>3, <1>5, <1>7 DEF AddsRow, after

LEMMA RowAppended ==
  ASSUME NEW list \in Seq(Row), OneRowPerEvent(list), NEW new \in Row, NEW historical, NEW verdicts,
         Enters(list, new)
  PROVE  AddsRow(list, Append(list, new), new, historical, verdicts)
<1> DEFINE after == Append(list, new)  n == Len(list)
<1>1. /\ after \in Seq(Row) /\ n \in Nat /\ DOMAIN list = 1 .. n /\ DOMAIN after = 1 .. (n + 1)
      /\ after[n + 1] = new /\ \A x \in 1 .. n : after[x] = list[x]
  OBVIOUS
<1> HIDE DEF after, n
<1>2. 1 .. (n + 1) = (1 .. n) \cup {n + 1} /\ n + 1 \notin 1 .. n
  BY <1>1
<1>3. OneRowPerEvent(after)
  BY <1>1, <1>2 DEF OneRowPerEvent, EventsOf, Enters
<1>4. EachFromOne(list, after, new, verdicts)
  BY <1>1, <1>2 DEF EachFromOne
<1>5. EachGoesOn(list, after, historical)
  BY <1>1, <1>2 DEF EachGoesOn, Represented, EventsOf
<1>6. new.version >= new.version
  BY DEF Row
<1>7. Arrives(after, new)
  BY <1>1, <1>2, <1>6 DEF Arrives, Represented
<1> QED BY <1>1, <1>3, <1>4, <1>5, <1>7 DEF AddsRow, after

LEMMA AddedAddsRow ==
  ASSUME NEW list \in Seq(Row), OneRowPerEvent(list), NEW new \in Row, NEW historical, NEW verdicts
  PROVE  AddsRow(list, Added(list, new, historical, verdicts), new, historical, verdicts)
<1>0. PICK after : after = Added(list, new, historical, verdicts)
  OBVIOUS
<1>1. \/ after = list /\ (Refused(list, new, verdicts) \/ OnlyEvidence(list, new))
      \/ Newer(list, after, new, verdicts)
      \/ RowOfItsOwn(list, after, new)
      \/ ForMerged(list, after, new, historical)
  BY <1>0, AddedIs
<1>2. CASE after = list /\ (Refused(list, new, verdicts) \/ OnlyEvidence(list, new))
  BY <1>0, <1>2, RowsStay
<1>3. CASE Newer(list, after, new, verdicts)
  <2>1. PICK ix \in DOMAIN list :
          /\ list[ix].event = new.event /\ Supersedes(new, list[ix], verdicts)
          /\ after = [list EXCEPT ![ix] = new]
    BY <1>3 DEF Newer
  <2>2. AddsRow(list, [list EXCEPT ![ix] = new], new, historical, verdicts)
    BY <2>1, RowReplaced
  <2> QED BY <1>0, <2>1, <2>2
<1>4. CASE RowOfItsOwn(list, after, new)
  <2>1. Enters(list, new) /\ after = Append(list, new)
    BY <1>4 DEF RowOfItsOwn, Enters
  <2> QED BY <1>0, <2>1, RowAppended
<1>5. CASE ForMerged(list, after, new, historical)
  <2>1. PICK ix \in DOMAIN list :
          /\ new.event \notin EventsOf(list) /\ new.event = Survivor(new.event)
          /\ list[ix].event \notin historical /\ list[ix].event # Survivor(list[ix].event)
          /\ Survivor(list[ix].event) = new.event
          /\ after = [list EXCEPT ![ix] = new]
    BY <1>5 DEF ForMerged
  <2>2. AddsRow(list, [list EXCEPT ![ix] = new], new, historical, verdicts)
    BY <2>1, RowReplaced
  <2> QED BY <1>0, <2>1, <2>2
<1> QED BY <1>1, <1>2, <1>3, <1>4, <1>5

---------------------------------------------------------------------------
(* All of them are added (accumulate_daily_overview).                      *)

(* What k rows of "new" make of the rows before.                           *)
Alike(a, b) == a.event = b.event /\ a.version = b.version /\ a.degraded = b.degraded
NoWorse(previous, list, verdicts) ==
  \A p \in DOMAIN previous, x \in DOMAIN list :
    previous[p].event = list[x].event =>
      /\ list[x].version >= previous[p].version
      /\ list[x].degraded => previous[p].degraded
      /\ Rejected(Verdict(verdicts, previous[p])) =>
           list[x].version > previous[p].version \/ Shut(list[x])
FromOne(previous, new, k, list) ==
  \A x \in DOMAIN list :
    \/ list[x].event \in EventsOf(previous)
    \/ /\ \E i \in 1 .. k : Alike(list[x], new[i])
       /\ \/ Survivor(list[x].event) \notin Represented(previous)
          \/ Survivor(list[x].event) = list[x].event
Present(new, k, list) ==
  \A i \in 1 .. k :
    /\ Survivor(new[i].event) \in Represented(list)
    /\ new[i].event = Survivor(new[i].event) =>
         \E y \in DOMAIN list :
           list[y].event = new[i].event /\ (~new[i].degraded => list[y].version >= new[i].version)
Grown(previous, new, verdicts, k, list) ==
  /\ list \in Seq(Row) /\ OneRowPerEvent(list)
  /\ EventsOf(previous) \subseteq EventsOf(list)
  /\ NoWorse(previous, list, verdicts)
  /\ FromOne(previous, new, k, list)
  /\ Present(new, k, list)

LEMMA RowIs ==
  ASSUME NEW list \in Seq(Row), NEW i \in DOMAIN list
  PROVE  /\ list[i] \in Row /\ list[i].version \in Nat /\ list[i].event \in Events
         /\ list[i].review \in Reviews /\ list[i].degraded \in BOOLEAN
         /\ list[i].target \in Events \cup {None}
<1>1. list[i] \in Row
  OBVIOUS
<1>2. PICK row \in Row : row = list[i]
  BY <1>1
<1>3. /\ row.version \in Nat /\ row.event \in Events /\ row.review \in Reviews
      /\ row.degraded \in BOOLEAN /\ row.target \in Events \cup {None}
  BY DEF Row
<1> QED BY <1>1, <1>2, <1>3

LEMMA StillRepresented ==
  ASSUME NEW a, NEW b, EventsOf(a) \subseteq EventsOf(b)
  PROVE  Represented(a) \subseteq Represented(b)
BY DEF EventsOf, Represented

LEMMA DisposedIs ==
  ASSUME NEW row \in Row, NEW verdicts
  PROVE  /\ Disposed(row, verdicts) \in Row /\ Alike(Disposed(row, verdicts), row)
         /\ Rejected(Verdict(verdicts, row)) => Shut(Disposed(row, verdicts))
BY DEF Disposed, Row, Alike, Rejected, Shut, Dispositions

LEMMA GrownAtFirst ==
  ASSUME NEW previous \in Seq(Row), OneRowPerEvent(previous), NEW new \in Seq(Row), NEW verdicts
  PROVE  Grown(previous, new, verdicts, 0, [i \in DOMAIN previous |-> Disposed(previous[i], verdicts)])
<1> DEFINE list == [i \in DOMAIN previous |-> Disposed(previous[i], verdicts)]
<1>1. \A i \in DOMAIN previous : previous[i] \in Row /\ previous[i].version \in Nat
  BY RowIs
<1>2. /\ DOMAIN list = DOMAIN previous
      /\ \A i \in DOMAIN previous :
           /\ list[i] \in Row /\ Alike(list[i], previous[i])
           /\ Rejected(Verdict(verdicts, previous[i])) => Shut(list[i])
  BY <1>1, DisposedIs
<1>3. list \in Seq(Row)
  <2>1. DOMAIN previous = 1 .. Len(previous) /\ Len(previous) \in Nat
    OBVIOUS
  <2>2. list \in [1 .. Len(previous) -> Row]
    BY <1>2, <2>1
  <2> HIDE DEF list
  <2> QED BY <2>1, <2>2
<1> HIDE DEF list
<1>4. OneRowPerEvent(list)
  BY <1>2 DEF OneRowPerEvent, Alike
<1>5. EventsOf(previous) \subseteq EventsOf(list) /\ EventsOf(list) \subseteq EventsOf(previous)
  BY <1>2 DEF EventsOf, Alike
<1>6. NoWorse(previous, list, verdicts)
  <2> SUFFICES ASSUME NEW p \in DOMAIN previous, NEW x \in DOMAIN list,
                      previous[p].event = list[x].event
               PROVE  /\ list[x].version >= previous[p].version
                      /\ list[x].degraded => previous[p].degraded
                      /\ Rejected(Verdict(verdicts, previous[p])) => Shut(list[x])
    BY DEF NoWorse
  <2>1. p = x
    BY <1>2 DEF OneRowPerEvent, Alike
  <2>2. list[x].version = previous[p].version /\ previous[p].version >= previous[p].version
    BY <1>1, <1>2, <2>1 DEF Alike
  <2> QED BY <1>2, <2>1, <2>2 DEF Alike
<1>7. FromOne(previous, new, 0, list)
  BY <1>5 DEF FromOne, EventsOf
<1>8. Present(new, 0, list)
  BY DEF Present
<1> QED BY <1>3, <1>4, <1>5, <1>6, <1>7, <1>8 DEF Grown, list

LEMMA GrownByOne ==
  ASSUME NEW previous \in Seq(Row), NEW new \in Seq(Row), NEW verdicts,
         NEW k \in 0 .. Len(new), k < Len(new), NEW list, Grown(previous, new, verdicts, k, list),
         NEW after, AddsRow(list, after, new[k + 1], EventsOf(previous), verdicts)
  PROVE  Grown(previous, new, verdicts, k + 1, after)
<1> DEFINE one == new[k + 1]
<1>1. /\ k \in Nat /\ Len(new) \in Nat /\ k + 1 \in 1 .. Len(new)
      /\ 1 .. (k + 1) = (1 .. k) \cup {k + 1} /\ 1 .. k \in SUBSET (1 .. Len(new))
  OBVIOUS
<1>2. one \in Row /\ DOMAIN new = 1 .. Len(new)
  BY <1>1
<1>3. PICK last : last = one
  OBVIOUS
<1>4. /\ list \in Seq(Row) /\ OneRowPerEvent(list) /\ EventsOf(previous) \subseteq EventsOf(list)
      /\ NoWorse(previous, list, verdicts) /\ FromOne(previous, new, k, list) /\ Present(new, k, list)
  BY DEF Grown
<1>5. /\ after \in Seq(Row) /\ OneRowPerEvent(after) /\ EachFromOne(list, after, last, verdicts)
      /\ EachGoesOn(list, after, EventsOf(previous)) /\ Arrives(after, last)
  BY <1>3 DEF AddsRow
<1>6. last \in Row /\ last.version \in Nat /\ last = new[k + 1]
  BY <1>2, <1>3 DEF Row
<1>7. \A x \in DOMAIN list : list[x] \in Row /\ list[x].version \in Nat
  BY <1>4, RowIs
<1>8. \A p \in DOMAIN previous : previous[p] \in Row /\ previous[p].version \in Nat
  BY RowIs
<1> HIDE DEF one
<1>9. EventsOf(previous) \subseteq EventsOf(after)
  <2> SUFFICES ASSUME NEW e \in EventsOf(previous) PROVE e \in EventsOf(after)
    OBVIOUS
  <2>1. PICK x \in DOMAIN list : list[x].event = e
    BY <1>4 DEF EventsOf
  <2> QED BY <1>5, <2>1 DEF EachGoesOn
<1>10. NoWorse(previous, after, verdicts)
  <2> SUFFICES ASSUME NEW p \in DOMAIN previous, NEW x \in DOMAIN after,
                      previous[p].event = after[x].event
               PROVE  /\ after[x].version >= previous[p].version
                      /\ after[x].degraded => previous[p].degraded
                      /\ Rejected(Verdict(verdicts, previous[p])) =>
                           after[x].version > previous[p].version \/ Shut(after[x])
    BY DEF NoWorse
  <2>1. previous[p].event \in EventsOf(list)
    BY <1>4 DEF EventsOf
  <2>2. CASE x \in DOMAIN list /\ after[x] = list[x]
    BY <1>4, <2>2 DEF NoWorse
  <2>3. CASE after[x] = last /\ x \in DOMAIN list /\ list[x].event = last.event
             /\ Supersedes(last, list[x], verdicts)
    <3>1. /\ list[x].version >= previous[p].version
          /\ list[x].degraded => previous[p].degraded
          /\ Rejected(Verdict(verdicts, previous[p])) =>
               list[x].version > previous[p].version \/ Shut(list[x])
      BY <1>4, <2>3 DEF NoWorse
    <3>2. /\ last.version >= list[x].version /\ (last.degraded => list[x].degraded)
          /\ Rejected(Verdict(verdicts, list[x])) => last.version > list[x].version
      BY <2>3 DEF Supersedes
    <3>3. list[x].version = previous[p].version =>
            Verdict(verdicts, list[x]) = Verdict(verdicts, previous[p])
      BY <2>3 DEF Verdict, Key
    <3> QED BY <1>6, <1>7, <1>8, <2>3, <3>1, <3>2, <3>3
  <2>4. CASE after[x] = last /\ Enters(list, last)
    BY <2>1, <2>4 DEF Enters
  <2> QED BY <1>5, <2>2, <2>3, <2>4 DEF EachFromOne
<1>11. Alike(last, last)
  BY DEF Alike
<1>12. FromOne(previous, new, k + 1, after)
  <2> SUFFICES ASSUME NEW x \in DOMAIN after, after[x].event \notin EventsOf(previous)
               PROVE  /\ \E i \in 1 .. (k + 1) : Alike(after[x], new[i])
                      /\ \/ Survivor(after[x].event) \notin Represented(previous)
                         \/ Survivor(after[x].event) = after[x].event
    BY DEF FromOne
  <2>1. CASE x \in DOMAIN list /\ after[x] = list[x]
    BY <1>1, <1>4, <2>1 DEF FromOne
  <2>2. CASE after[x] = last /\ x \in DOMAIN list /\ list[x].event = last.event
    <3>1. \/ Survivor(after[x].event) \notin Represented(previous)
          \/ Survivor(after[x].event) = after[x].event
      BY <1>4, <2>2 DEF FromOne
    <3> QED BY <1>1, <1>6, <1>11, <2>2, <3>1
  <2>3. CASE after[x] = last /\ Enters(list, last)
    <3>1. Represented(previous) \subseteq Represented(list)
      BY <1>4, StillRepresented
    <3> QED BY <1>1, <1>6, <1>11, <2>3, <3>1 DEF Enters
  <2> QED BY <1>5, <2>1, <2>2, <2>3 DEF EachFromOne
<1>13. Present(new, k + 1, after)
  <2> SUFFICES ASSUME NEW i \in 1 .. (k + 1)
               PROVE  /\ Survivor(new[i].event) \in Represented(after)
                      /\ new[i].event = Survivor(new[i].event) =>
                           \E y \in DOMAIN after :
                             /\ after[y].event = new[i].event
                             /\ ~new[i].degraded => after[y].version >= new[i].version
    BY DEF Present
  <2>1. CASE i = k + 1
    BY <1>5, <1>6, <2>1 DEF Arrives
  <2>2. CASE i \in 1 .. k
    <3>1. Survivor(new[i].event) \in Represented(after)
      <4>1. PICK x \in DOMAIN list : Survivor(list[x].event) = Survivor(new[i].event)
        BY <1>4, <2>2 DEF Present, Represented
      <4> QED BY <1>5, <4>1 DEF EachGoesOn
    <3>2. ASSUME new[i].event = Survivor(new[i].event)
          PROVE  \E y \in DOMAIN after :
                   /\ after[y].event = new[i].event
                   /\ ~new[i].degraded => after[y].version >= new[i].version
      <4>1. PICK y \in DOMAIN list :
              list[y].event = new[i].event /\ (~new[i].degraded => list[y].version >= new[i].version)
        BY <1>4, <2>2, <3>2 DEF Present
      <4>2. PICK z \in DOMAIN after : after[z].event = list[y].event
        BY <1>5, <3>2, <4>1 DEF EachGoesOn, EventsOf
      <4>3. CASE z \in DOMAIN list /\ after[z] = list[z]
        <5>1. z = y
          BY <1>4, <4>2, <4>3 DEF OneRowPerEvent
        <5> QED BY <4>1, <4>2, <4>3, <5>1
      <4>4. CASE after[z] = last /\ z \in DOMAIN list /\ list[z].event = last.event
                 /\ Supersedes(last, list[z], verdicts)
        <5>1. z = y
          BY <1>4, <4>2, <4>4 DEF OneRowPerEvent
        <5>2. last.version >= list[y].version
          BY <4>4, <5>1 DEF Supersedes
        <5>3. new[i].version \in Nat
          BY <1>1, <1>2, <2>2, RowIs
        <5> QED BY <1>6, <1>7, <4>1, <4>2, <4>4, <5>1, <5>2, <5>3
      <4>5. CASE after[z] = last /\ Enters(list, last)
        BY <4>2, <4>5 DEF Enters, EventsOf
      <4> QED BY <1>5, <4>3, <4>4, <4>5 DEF EachFromOne
    <3> QED BY <3>1, <3>2
  <2> QED BY <1>1, <2>1, <2>2
<1> QED BY <1>5, <1>9, <1>10, <1>12, <1>13 DEF Grown

Distinct == {list \in Seq(Row) : OneRowPerEvent(list)}
MergedAreShut(list) ==
  \A x \in DOMAIN list : Survivor(list[x].event) # list[x].event => Shut(list[x])
Accumulated(previous, new, verdicts, list) ==
  Grown(previous, new, verdicts, Len(new), list) /\ MergedAreShut(list)

(* Rows of events that were merged are marked, and nothing else changes.   *)
LEMMA DuplicatesAre ==
  ASSUME NEW previous, NEW new, NEW verdicts, NEW n, NEW list, Grown(previous, new, verdicts, n, list)
  PROVE  /\ Grown(previous, new, verdicts, n, Duplicates(list))
         /\ MergedAreShut(Duplicates(list))
<1> DEFINE after == Duplicates(list)
<1>1. list \in Seq(Row) /\ Len(list) \in Nat /\ DOMAIN list = 1 .. Len(list)
  BY DEF Grown
<1>2. DOMAIN after = DOMAIN list
  BY DEF Duplicates
<1>3. ASSUME NEW x \in DOMAIN list
      PROVE  /\ after[x] \in Row /\ Alike(after[x], list[x])
             /\ Shut(list[x]) => Shut(after[x])
             /\ Survivor(after[x].event) # after[x].event => Shut(after[x])
  <2>1. PICK row \in Row : row = list[x]
    BY <1>1
  <2>2. after[x] = Merged(row, Survivor(row.event), Represented(list))
    BY <2>1 DEF Duplicates
  <2>3. Survivor(row.event) \in Represented(list)
    BY <2>1 DEF Represented
  <2>4. CASE Survivor(row.event) # row.event
    <3>1. after[x] = [row EXCEPT !.disp = "excluded"]
      BY <2>2, <2>3, <2>4 DEF Merged
    <3>2. after[x] \in Row /\ Alike(after[x], row) /\ Shut(after[x])
      BY <3>1 DEF Row, Alike, Shut, Dispositions
    <3> QED BY <2>1, <3>2
  <2>5. CASE Survivor(row.event) = row.event
    <3>1. after[x] = row
      BY <2>2, <2>5 DEF Merged
    <3> QED BY <2>1, <2>5, <3>1 DEF Alike
  <2> QED BY <2>4, <2>5
<1> HIDE DEF after
<1>4. after \in Seq(Row)
  <2>1. after = [i \in 1 .. Len(list) |-> after[i]]
    BY <1>1, <1>2 DEF after, Duplicates
  <2>2. after \in [1 .. Len(list) -> Row]
    BY <1>1, <1>3, <2>1
  <2> QED BY <1>1, <2>2
<1>5. /\ OneRowPerEvent(after) /\ EventsOf(after) = EventsOf(list)
      /\ Represented(after) = Represented(list)
  BY <1>2, <1>3 DEF Grown, OneRowPerEvent, Alike, EventsOf, Represented
<1>6. NoWorse(previous, after, verdicts)
  BY <1>2, <1>3 DEF Grown, NoWorse, Alike
<1>7. FromOne(previous, new, n, after)
  BY <1>2, <1>3 DEF Grown, FromOne, Alike
<1>8. Present(new, n, after)
  BY <1>2, <1>3, <1>5 DEF Grown, Present, Alike
<1>9. MergedAreShut(after)
  BY <1>2, <1>3 DEF MergedAreShut
<1> QED BY <1>4, <1>5, <1>6, <1>7, <1>8, <1>9 DEF Grown, after

(* One operation, or one head, is accumulated.                             *)
LEMMA AccumulateIs ==
  ASSUME NEW previous \in Distinct, NEW new \in Seq(Row), NEW verdicts
  PROVE  Accumulated(previous, new, verdicts, Accumulate(previous, new, verdicts))
<1> DEFINE start == [i \in DOMAIN previous |-> Disposed(previous[i], verdicts)]
           history == EventsOf(previous)
           grown[n \in 0 .. Len(new)] ==
             IF n = 0 THEN start ELSE Added(grown[n - 1], new[n], history, verdicts)
           Equation(f) == f = [n \in 0 .. Len(new) |->
             IF n = 0 THEN start ELSE Added(f[n - 1], new[n], history, verdicts)]
<1>1. Accumulate(previous, new, verdicts) = Duplicates(grown[Len(new)])
  BY DEF Accumulate
<1>2. previous \in Seq(Row) /\ OneRowPerEvent(previous) /\ Len(new) \in Nat
  BY DEF Distinct
<1>3. Grown(previous, new, verdicts, 0, start)
  BY <1>2, GrownAtFirst
<1>4. start \in Distinct
  BY <1>3 DEF Grown, Distinct
<1> HIDE DEF start
<1>5. \E f : Equation(f)
  <2> DEFINE n == Len(new)
             move == [k \in 1 .. n |-> [s \in Distinct |-> Added(s, new[k], history, verdicts)]]
  <2>1. ASSUME NEW k \in 1 .. n, NEW s \in Distinct PROVE Added(s, new[k], history, verdicts) \in Distinct
    <3>1. s \in Seq(Row) /\ OneRowPerEvent(s) /\ new[k] \in Row
      BY DEF Distinct
    <3>2. AddsRow(s, Added(s, new[k], history, verdicts), new[k], history, verdicts)
      BY <3>1, AddedAddsRow
    <3> QED BY <3>2 DEF AddsRow, Distinct
  <2>2. move \in [1 .. n -> [Distinct -> Distinct]]
    BY <2>1
  <2>3. \A x \in Distinct, k \in 1 .. n : move[k][x] = Added(x, new[k], history, verdicts)
    OBVIOUS
  <2>0. n \in Nat
    BY <1>2
  <2> HIDE DEF move, history, n
  <2>7. \E f \in [0 .. n -> Distinct] : Runs(f, start, n, move)
    BY <1>4, <2>0, <2>2, Iterated
  <2>4. PICK f \in [0 .. n -> Distinct] : f[0] = start /\ \A k \in 1 .. n : f[k] = move[k][f[k - 1]]
    BY <2>7 DEF Runs
  <2>5. ASSUME NEW k \in 0 .. n
        PROVE  f[k] = IF k = 0 THEN start ELSE Added(f[k - 1], new[k], history, verdicts)
    <3>1. CASE k = 0
      BY <2>4, <3>1
    <3>2. CASE k # 0
      <4>1. k \in 1 .. n /\ k - 1 \in 0 .. n
        BY <2>0, <3>2
      <4>2. f[k - 1] \in Distinct
        BY <4>1
      <4> QED BY <2>3, <2>4, <3>2, <4>1, <4>2
    <3> QED BY <3>1, <3>2
  <2>6. Equation(f)
    BY <2>5 DEF n
  <2> QED BY <2>6
<1>6. Equation(grown)
  <2>1. grown = CHOOSE f : Equation(f)
    BY DEF grown
  <2> HIDE DEF grown, Equation
  <2> QED BY <1>5, <2>1
<1> HIDE DEF grown
<1>7. /\ grown[0] = start
      /\ \A k \in 1 .. Len(new) : grown[k] = Added(grown[k - 1], new[k], history, verdicts)
  BY <1>2, <1>6
<1> DEFINE T == {k \in 0 .. Len(new) : Grown(previous, new, verdicts, k, grown[k])}
<1>8. 0 \in T
  BY <1>2, <1>3, <1>7
<1>9. ASSUME NEW k \in 0 .. Len(new), k \in T, k < Len(new) PROVE k + 1 \in T
  <2>1. /\ k + 1 \in 1 .. Len(new) /\ k + 1 \in 0 .. Len(new) /\ (k + 1) - 1 = k
        /\ Grown(previous, new, verdicts, k, grown[k])
    BY <1>2, <1>9
  <2>2. grown[k + 1] = Added(grown[k], new[k + 1], history, verdicts)
    BY <1>7, <2>1
  <2>3. grown[k] \in Seq(Row) /\ OneRowPerEvent(grown[k]) /\ new[k + 1] \in Row
    BY <2>1 DEF Grown
  <2>4. AddsRow(grown[k], grown[k + 1], new[k + 1], history, verdicts)
    BY <2>2, <2>3, AddedAddsRow
  <2>5. Grown(previous, new, verdicts, k + 1, grown[k + 1])
    BY <1>2, <1>9, <2>1, <2>4, GrownByOne
  <2> QED BY <2>1, <2>5
<1> HIDE DEF T
<1>10. \A k \in 0 .. Len(new) : k \in T
  <2>1. \A k \in 0 .. Len(new) : k \in T /\ k < Len(new) => k + 1 \in T
    BY <1>9
  <2>2. Len(new) \in Nat
    BY <1>2
  <2> QED BY ONLY <1>8, <2>1, <2>2, Upward
<1>11. Grown(previous, new, verdicts, Len(new), grown[Len(new)])
  BY <1>2, <1>10 DEF T
<1> QED BY <1>1, <1>11, DuplicatesAre DEF Accumulated

LEMMA AscendingIs ==
  ASSUME NEW events \in SUBSET Nat, IsFiniteSet(events)
  PROVE  Cardinality(events) \in Nat /\ Ascending(events) \in [1 .. Cardinality(events) -> events]
<1> DEFINE place == [x \in events |-> x]
<1>1. (\A x \in events : place[x] \in Nat) /\ \A x, y \in events : place[x] = place[y] => x = y
  OBVIOUS
<1>2. /\ Cardinality(events) \in Nat
      /\ \E s \in [1 .. Cardinality(events) -> events] : Rising(s, place)
  BY <1>1, RisingOrder
<1>3. PICK s \in [1 .. Cardinality(events) -> events] : Rising(s, place)
  BY <1>2
<1>4. ASSUME NEW i \in DOMAIN s, NEW j \in DOMAIN s, i < j PROVE s[i] < s[j]
  <2>1. s[i] \in events /\ s[j] \in events /\ place[s[i]] < place[s[j]]
    BY <1>3, <1>4 DEF Rising
  <2> QED BY <2>1
<1> QED BY <1>2, <1>4 DEF Ascending

(* Reports are made one after the other.                                   *)
LEMMA BeforeIs ==
  ASSUME NEW rs \in SUBSET Nat, \A r \in rs : reports[r].op \in Nat
  PROVE  /\ \A x \in rs : ~Before(x, x)
         /\ \A x, y \in rs : Before(x, y) \/ Before(y, x) \/ x = y
         /\ \A x, y \in rs : ~(Before(x, y) /\ Before(y, x))
         /\ \A x, y, z \in rs : Before(x, y) /\ Before(y, z) => Before(x, z)
<1> DEFINE ix == [r \in rs |-> reports[r].op]
<1>1. \A x \in rs : ix[x] \in Nat /\ x \in Nat
  OBVIOUS
<1>2. \A x, y \in rs : Before(x, y) <=> ix[x] < ix[y] \/ (ix[x] = ix[y] /\ x < y)
  BY DEF Before
<1> HIDE DEF ix
<1>3. ASSUME NEW x \in rs, NEW y \in rs
      PROVE  ~Before(x, x) /\ (Before(x, y) \/ Before(y, x) \/ x = y) /\ ~(Before(x, y) /\ Before(y, x))
  BY <1>1, <1>2
<1>4. ASSUME NEW x \in rs, NEW y \in rs, NEW z \in rs, Before(x, y), Before(y, z) PROVE Before(x, z)
  <2>1. PICK a \in Nat, b \in Nat, c \in Nat : a = ix[x] /\ b = ix[y] /\ c = ix[z]
    BY <1>1
  <2>2. (a < b \/ (a = b /\ x < y)) /\ (b < c \/ (b = c /\ y < z)) /\ x \in Nat /\ y \in Nat /\ z \in Nat
    BY <1>1, <1>2, <1>4, <2>1
  <2>3. a < c \/ (a = c /\ x < z)
    BY ONLY <2>2, a \in Nat, b \in Nat, c \in Nat
  <2> QED BY <1>2, <2>1, <2>3
<1> QED BY <1>3, <1>4

LEMMA ChronologicalIs ==
  ASSUME NEW rs \in SUBSET Nat, IsFiniteSet(rs), \A r \in rs : reports[r].op \in Nat
  PROVE  /\ Cardinality(rs) \in Nat
         /\ Chronological(rs) \in [1 .. Cardinality(rs) -> rs]
         /\ ToSet(Chronological(rs)) = rs
         /\ \A i, j \in 1 .. Cardinality(rs) : i < j => Before(Chronological(rs)[i], Chronological(rs)[j])
<1> DEFINE Earlier(r) == {q \in rs : Before(q, r)}
           place == [r \in rs |-> Cardinality(Earlier(r))]
           n == Cardinality(rs)
<1>1. ASSUME NEW r \in rs
      PROVE  /\ IsFiniteSet(Earlier(r)) /\ place[r] = Cardinality(Earlier(r)) /\ place[r] \in Nat
             /\ Cardinality(Earlier(r) \cup {r}) = place[r] + 1 /\ IsFiniteSet(Earlier(r) \cup {r})
  <2>1. IsFiniteSet(Earlier(r)) /\ r \notin Earlier(r)
    BY FS_Subset, BeforeIs
  <2> QED BY <2>1, FS_AddElement, FS_CardinalityType
<1>2. ASSUME NEW x \in rs, NEW y \in rs, Before(x, y) PROVE place[x] < place[y]
  <2>1. (Earlier(x) \cup {x}) \in SUBSET Earlier(y)
    BY <1>2, BeforeIs
  <2>2. Cardinality(Earlier(x) \cup {x}) <= Cardinality(Earlier(y))
    BY <1>1, <2>1, FS_Subset
  <2>3. PICK a \in Nat, b \in Nat : a = place[x] /\ b = place[y]
    BY <1>1
  <2>4. a + 1 <= b
    BY <1>1, <2>2, <2>3
  <2>5. a < b
    BY <2>4
  <2> QED BY <2>3, <2>5
<1>3. \A r \in rs : place[r] \in Nat
  BY <1>1
<1> HIDE DEF place
<1>4. ASSUME NEW x \in rs, NEW y \in rs, ~Before(x, y) PROVE ~(place[x] < place[y])
  <2>1. Before(y, x) \/ x = y
    BY <1>4, BeforeIs
  <2>2. place[y] < place[x] \/ x = y
    BY <1>2, <2>1
  <2>3. PICK a \in Nat, b \in Nat : a = place[x] /\ b = place[y] /\ (b < a \/ a = b)
    BY <1>3, <2>2
  <2> QED BY <2>3
<1>5. \A x, y \in rs : place[x] = place[y] => x = y
  <2> SUFFICES ASSUME NEW x \in rs, NEW y \in rs, place[x] = place[y], x # y PROVE FALSE
    OBVIOUS
  <2>1. place[x] < place[y] \/ place[y] < place[x]
    BY <1>2, BeforeIs
  <2> QED BY <1>3, <2>1
<1>6. /\ n \in Nat
      /\ \E s \in [1 .. n -> rs] : Rising(s, place)
      /\ \A s \in [1 .. n -> rs] : Rising(s, place) => ToSet(s) = rs
  BY <1>3, <1>5, RisingOrder
<1>7. ASSUME NEW s \in [1 .. n -> rs]
      PROVE  Rising(s, place) <=> \A i, j \in DOMAIN s : i < j => Before(s[i], s[j])
  <2>1. \A i \in DOMAIN s : s[i] \in rs
    OBVIOUS
  <2> QED BY <1>2, <1>4, <2>1 DEF Rising
<1>8. PICK s \in [1 .. n -> rs] : s = Chronological(rs) /\ \A i, j \in DOMAIN s : i < j => Before(s[i], s[j])
  BY <1>6, <1>7 DEF Chronological
<1>9. ToSet(s) = rs /\ DOMAIN s = 1 .. n
  BY <1>6, <1>7, <1>8
<1> QED BY <1>6, <1>8, <1>9

(* What holds from one point on.                                           *)
LEMMA UpwardFrom ==
  ASSUME NEW n \in Nat, NEW j \in 0 .. n, NEW T, j \in T, \A k \in j .. n : k \in T /\ k < n => k + 1 \in T
  PROVE  n \in T
<1> DEFINE S == {k \in 0 .. n : j <= k => k \in T}
<1>1. 0 \in S
  OBVIOUS
<1>2. \A k \in 0 .. n : k \in S /\ k < n => k + 1 \in S
  <2> SUFFICES ASSUME NEW k \in 0 .. n, k \in S, k < n PROVE k + 1 \in S
    OBVIOUS
  <2>1. k + 1 \in 0 .. n /\ (j <= k + 1 => j <= k \/ k + 1 = j)
    OBVIOUS
  <2>2. j <= k => k \in j .. n /\ k \in T
    OBVIOUS
  <2> QED BY <2>1, <2>2
<1> HIDE DEF S
<1>3. \A k \in 0 .. n : k \in S
  BY ONLY n \in Nat, <1>1, <1>2, Upward
<1>4. n \in S
  BY <1>3
<1> QED BY <1>4 DEF S

---------------------------------------------------------------------------
(* One head after the other (accumulate_daily_overview_baselines).         *)

VerdictMaps == UNION {[K -> Reviews] : K \in SUBSET (Events \X Nat)}
Folded == [rows : Distinct, verdicts : VerdictMaps]
FoldOf(f, heads) ==
  /\ f \in [0 .. Len(heads) -> Folded]
  /\ f[0] = [rows |-> <<>>, verdicts |-> <<>>]
  /\ \A k \in 1 .. Len(heads) : f[k] = WithHead(f[k - 1], Inherited(heads[k]), VerdictsOf(heads[k]))

(* The rows of a head, and the reviews that its rows have.                 *)
LEMMA InheritedIs ==
  ASSUME NEW r, reports[r].rows \in Distinct
  PROVE  /\ Inherited(r) \in Distinct /\ DOMAIN Inherited(r) = DOMAIN reports[r].rows
         /\ EventsOf(Inherited(r)) = EventsOf(reports[r].rows)
         /\ \A i \in DOMAIN reports[r].rows : Alike(Inherited(r)[i], reports[r].rows[i])
<1> PICK list : list = reports[r].rows
  OBVIOUS
<1>1. list \in Seq(Row) /\ OneRowPerEvent(list) /\ DOMAIN list = 1 .. Len(list) /\ Len(list) \in Nat
  BY DEF Distinct
<1>2. ASSUME NEW row \in Row PROVE Unreviewed(row) \in Row /\ Alike(Unreviewed(row), row)
  BY DEF Row, Unreviewed, Alike, Reviews, NoReview, None
<1>3. PICK after : after = Inherited(r)
  OBVIOUS
<1>4. after = [i \in 1 .. Len(list) |-> Unreviewed(list[i])]
  BY <1>1, <1>3 DEF Inherited
<1>5. \A i \in 1 .. Len(list) : after[i] \in Row /\ Alike(after[i], list[i])
  BY <1>1, <1>2, <1>4
<1>6. after \in [1 .. Len(list) -> Row]
  BY <1>4, <1>5
<1>7. after \in Seq(Row) /\ DOMAIN after = DOMAIN list
  BY <1>1, <1>6
<1>8. OneRowPerEvent(after) /\ EventsOf(after) = EventsOf(list)
  BY <1>1, <1>5, <1>7 DEF OneRowPerEvent, EventsOf, Alike
<1> QED BY <1>1, <1>3, <1>5, <1>7, <1>8 DEF Distinct

LEMMA VerdictsAre ==
  ASSUME NEW r, reports[r].rows \in Distinct
  PROVE  /\ VerdictsOf(r) \in VerdictMaps
         /\ \A i \in DOMAIN reports[r].rows : reports[r].rows[i].review # NoReview =>
              /\ Key(reports[r].rows[i]) \in DOMAIN VerdictsOf(r)
              /\ VerdictsOf(r)[Key(reports[r].rows[i])] = reports[r].rows[i].review
         /\ \A k \in DOMAIN VerdictsOf(r) : \E i \in DOMAIN reports[r].rows :
              reports[r].rows[i].review # NoReview /\ k = Key(reports[r].rows[i])
<1> PICK list : list = reports[r].rows
  OBVIOUS
<1>1. list \in Seq(Row) /\ OneRowPerEvent(list)
  BY DEF Distinct
<1> DEFINE reviewed == {row \in RowsOf(r) : row.review # NoReview}
           At(k) == CHOOSE row \in reviewed : Key(row) = k
<1>2. reviewed = {row \in {list[i] : i \in DOMAIN list} : row.review # NoReview}
  BY DEF RowsOf, ToSet
<1>3. ASSUME NEW i \in DOMAIN list, list[i].review # NoReview
      PROVE  /\ list[i] \in reviewed /\ Key(list[i]) \in Keys(reviewed) /\ At(Key(list[i])) = list[i]
             /\ Key(list[i]) \in Events \X Nat /\ list[i].review \in Reviews
  <2>1. list[i] \in reviewed
    BY <1>2, <1>3
  <2>2. \A row \in reviewed : Key(row) = Key(list[i]) => row = list[i]
    <3> SUFFICES ASSUME NEW j \in DOMAIN list, Key(list[j]) = Key(list[i]) PROVE list[j] = list[i]
      BY <1>2
    <3>1. list[j].event = list[i].event
      BY DEF Key
    <3> QED BY <1>1, <3>1 DEF OneRowPerEvent
  <2>3. list[i].event \in Events /\ list[i].version \in Nat /\ list[i].review \in Reviews
    BY <1>1, RowIs
  <2> HIDE DEF reviewed
  <2>4. Key(list[i]) \in Keys(reviewed)
    BY <2>1 DEF Keys
  <2>5. At(Key(list[i])) = list[i]
    BY <2>1, <2>2
  <2> QED BY <2>1, <2>3, <2>4, <2>5 DEF Key
<1>4. ASSUME NEW k \in Keys(reviewed) PROVE \E i \in DOMAIN list : list[i].review # NoReview /\ k = Key(list[i])
  BY <1>2 DEF Keys
<1>5. VerdictsOf(r) = [k \in Keys(reviewed) |-> At(k).review]
  BY DEF VerdictsOf
<1> HIDE DEF reviewed, At
<1>6. Keys(reviewed) \in SUBSET (Events \X Nat)
  BY <1>3, <1>4
<1>7. \A k \in Keys(reviewed) : At(k).review \in Reviews
  BY <1>3, <1>4
<1>8. VerdictsOf(r) \in [Keys(reviewed) -> Reviews]
  BY <1>5, <1>7
<1>9. VerdictsOf(r) \in VerdictMaps
  BY <1>6, <1>8 DEF VerdictMaps
<1>10. DOMAIN VerdictsOf(r) = Keys(reviewed) /\ \A k \in Keys(reviewed) : VerdictsOf(r)[k] = At(k).review
  BY <1>5
<1> QED BY <1>3, <1>4, <1>9, <1>10

LEMMA UpdatedIs ==
  ASSUME NEW a \in VerdictMaps, NEW b \in VerdictMaps PROVE Updated(a, b) \in VerdictMaps
<1>1. PICK K \in SUBSET (Events \X Nat) : a \in [K -> Reviews]
  BY DEF VerdictMaps
<1>2. PICK L \in SUBSET (Events \X Nat) : b \in [L -> Reviews]
  BY DEF VerdictMaps
<1>3. Updated(a, b) \in [K \cup L -> Reviews]
  BY <1>1, <1>2 DEF Updated
<1>4. K \cup L \in SUBSET (Events \X Nat)
  BY <1>1, <1>2
<1> QED BY <1>3, <1>4 DEF VerdictMaps

LEMMA NothingFolded == <<>> \in Distinct /\ [rows |-> <<>>, verdicts |-> <<>>] \in Folded
<1>1. <<>> \in Seq(Row) /\ DOMAIN <<>> = {}
  OBVIOUS
<1>2. <<>> \in Distinct
  BY <1>1 DEF Distinct, OneRowPerEvent
<1>3. <<>> = [x \in {} |-> NoReview]
  OBVIOUS
<1>4. [x \in {} |-> NoReview] \in [{} -> Reviews]
  OBVIOUS
<1>5. <<>> \in VerdictMaps
  BY <1>3, <1>4 DEF VerdictMaps
<1> QED BY <1>2, <1>5 DEF Folded

LEMMA WithHeadIs ==
  ASSUME NEW s \in Folded, NEW list \in Distinct, NEW verdicts \in VerdictMaps
  PROVE  /\ WithHead(s, list, verdicts) \in Folded
         /\ Accumulated(s.rows, list, Outdated(s.verdicts, verdicts), WithHead(s, list, verdicts).rows)
         /\ WithHead(s, list, verdicts).verdicts = Updated(s.verdicts, verdicts)
<1>1. s.rows \in Distinct /\ s.verdicts \in VerdictMaps /\ list \in Seq(Row)
  BY DEF Folded, Distinct
<1>2. PICK after : after = Accumulate(s.rows, list, Outdated(s.verdicts, verdicts))
  OBVIOUS
<1>3. Accumulated(s.rows, list, Outdated(s.verdicts, verdicts), after)
  BY <1>1, <1>2, AccumulateIs
<1>4. after \in Distinct
  BY <1>3 DEF Accumulated, Grown, Distinct
<1>5. PICK map \in VerdictMaps : map = Updated(s.verdicts, verdicts)
  BY <1>1, UpdatedIs
<1>6. WithHead(s, list, verdicts) = [rows |-> after, verdicts |-> map]
  BY <1>2, <1>5 DEF WithHead
<1> QED BY <1>3, <1>4, <1>5, <1>6 DEF Folded

LEMMA BaselinesAre ==
  ASSUME \A r \in DOMAIN reports : reports[r].rows \in Distinct,
         NEW heads \in Seq(DOMAIN reports), NEW new
  PROVE  \E f : FoldOf(f, heads) /\ Baselines(heads, new) = WithNew(f[Len(heads)], new)
<1> DEFINE base == [rows |-> <<>>, verdicts |-> <<>>]
           folded[n \in 0 .. Len(heads)] ==
             IF n = 0 THEN base
             ELSE WithHead(folded[n - 1], Inherited(heads[n]), VerdictsOf(heads[n]))
           Equation(f) == f = [n \in 0 .. Len(heads) |->
             IF n = 0 THEN base ELSE WithHead(f[n - 1], Inherited(heads[n]), VerdictsOf(heads[n]))]
<1>1. Baselines(heads, new) = WithNew(folded[Len(heads)], new)
  BY DEF Baselines
<1>2. PICK n \in Nat : n = Len(heads)
  OBVIOUS
<1>3. \A k \in 1 .. n : Inherited(heads[k]) \in Distinct /\ VerdictsOf(heads[k]) \in VerdictMaps
  <2> SUFFICES ASSUME NEW k \in 1 .. n PROVE Inherited(heads[k]) \in Distinct /\ VerdictsOf(heads[k]) \in VerdictMaps
    OBVIOUS
  <2>1. reports[heads[k]].rows \in Distinct
    BY <1>2
  <2> QED BY <2>1, InheritedIs, VerdictsAre
<1>4. \E f \in [0 .. n -> Folded] : Equation(f)
  <2> DEFINE move == [k \in 1 .. n |->
               [s \in Folded |-> WithHead(s, Inherited(heads[k]), VerdictsOf(heads[k]))]]
  <2>1. move \in [1 .. n -> [Folded -> Folded]]
    BY <1>3, WithHeadIs
  <2>2. \A k \in 1 .. n, s \in Folded :
          move[k][s] = WithHead(s, Inherited(heads[k]), VerdictsOf(heads[k]))
    OBVIOUS
  <2> HIDE DEF move
  <2>3. base \in Folded
    BY NothingFolded
  <2> HIDE DEF base
  <2>4. \E f \in [0 .. n -> Folded] : Runs(f, base, n, move)
    BY <2>1, <2>3, Iterated
  <2>5. PICK f \in [0 .. n -> Folded] : f[0] = base /\ \A k \in 1 .. n : f[k] = move[k][f[k - 1]]
    BY <2>4 DEF Runs
  <2>6. ASSUME NEW k \in 0 .. n
        PROVE  f[k] = IF k = 0 THEN base ELSE WithHead(f[k - 1], Inherited(heads[k]), VerdictsOf(heads[k]))
    <3>1. CASE k = 0
      BY <2>5, <3>1
    <3>2. CASE k # 0
      <4>1. k \in 1 .. n /\ k - 1 \in 0 .. n
        BY <3>2
      <4>2. f[k - 1] \in Folded
        BY <4>1
      <4> QED BY <2>2, <2>5, <3>2, <4>1, <4>2
    <3> QED BY <3>1, <3>2
  <2>7. Equation(f)
    BY <1>2, <2>6
  <2> QED BY <2>7
<1>5. Equation(folded)
  <2>1. folded = CHOOSE f : Equation(f)
    BY DEF folded
  <2>2. \E f : Equation(f)
    BY <1>4
  <2> HIDE DEF folded, Equation
  <2> QED BY <2>1, <2>2
<1> HIDE DEF folded
<1>6. /\ folded[0] = base
      /\ \A k \in 1 .. n : folded[k] = WithHead(folded[k - 1], Inherited(heads[k]), VerdictsOf(heads[k]))
  BY <1>2, <1>5
<1> DEFINE T == {k \in 0 .. n : folded[k] \in Folded}
<1>7. 0 \in T
  BY <1>6, NothingFolded
<1>8. \A k \in 0 .. n : k \in T /\ k < n => k + 1 \in T
  <2> SUFFICES ASSUME NEW k \in 0 .. n, k \in T, k < n PROVE k + 1 \in T
    OBVIOUS
  <2>1. k + 1 \in 1 .. n /\ k + 1 \in 0 .. n /\ (k + 1) - 1 = k /\ folded[k] \in Folded
    OBVIOUS
  <2>2. folded[k + 1] = WithHead(folded[k], Inherited(heads[k + 1]), VerdictsOf(heads[k + 1]))
    BY <1>6, <2>1
  <2>3. folded[k + 1] \in Folded
    BY <1>3, <2>1, <2>2, WithHeadIs
  <2> QED BY <2>1, <2>3
<1> HIDE DEF T
<1>9. \A k \in 0 .. n : k \in T
  BY ONLY n \in Nat, <1>7, <1>8, Upward
<1>10. folded = [k \in 0 .. n |-> folded[k]]
  BY <1>2, <1>5
<1>11. folded \in [0 .. n -> Folded]
  <2>1. \A k \in 0 .. n : folded[k] \in Folded
    BY <1>9 DEF T
  <2> QED BY <1>10, <2>1
<1>12. FoldOf(folded, heads)
  BY <1>2, <1>6, <1>11 DEF FoldOf
<1> QED BY <1>1, <1>12

AllDistinct == \A r \in DOMAIN reports : reports[r].rows \in Distinct

(* What one head adds.                                                     *)
LEMMA FoldAccumulates ==
  ASSUME AllDistinct, NEW heads \in Seq(DOMAIN reports), NEW f, FoldOf(f, heads),
         NEW k \in 1 .. Len(heads)
  PROVE  /\ heads[k] \in DOMAIN reports /\ reports[heads[k]].rows \in Distinct
         /\ k - 1 \in 0 .. Len(heads) /\ k \in 0 .. Len(heads)
         /\ f[k - 1].rows \in Distinct /\ f[k].rows \in Distinct
         /\ Accumulated(f[k - 1].rows, Inherited(heads[k]),
                        Outdated(f[k - 1].verdicts, VerdictsOf(heads[k])), f[k].rows)
         /\ f[k].verdicts = Updated(f[k - 1].verdicts, VerdictsOf(heads[k]))
<1>1. heads[k] \in DOMAIN reports /\ k - 1 \in 0 .. Len(heads) /\ k \in 0 .. Len(heads)
  OBVIOUS
<1>2. reports[heads[k]].rows \in Distinct
  BY <1>1 DEF AllDistinct
<1>3. PICK s \in Folded, t \in Folded : s = f[k - 1] /\ t = f[k]
  BY <1>1 DEF FoldOf
<1>4. t = WithHead(s, Inherited(heads[k]), VerdictsOf(heads[k]))
  BY <1>3 DEF FoldOf
<1>5. Inherited(heads[k]) \in Distinct /\ VerdictsOf(heads[k]) \in VerdictMaps
  BY <1>2, InheritedIs, VerdictsAre
<1>6. /\ Accumulated(s.rows, Inherited(heads[k]), Outdated(s.verdicts, VerdictsOf(heads[k])), t.rows)
      /\ t.verdicts = Updated(s.verdicts, VerdictsOf(heads[k]))
  BY <1>4, <1>5, WithHeadIs
<1>7. s.rows \in Distinct /\ t.rows \in Distinct
  BY DEF Folded
<1> QED BY <1>1, <1>2, <1>3, <1>6, <1>7

(* What a head tells of is told to the end.                                *)
LEMMA FoldKeeps ==
  ASSUME AllDistinct, NEW heads \in Seq(DOMAIN reports), NEW f, FoldOf(f, heads),
         NEW j \in 1 .. Len(heads)
  PROVE  Represented(reports[heads[j]].rows) \subseteq Represented(f[Len(heads)].rows)
<1> DEFINE told == Represented(reports[heads[j]].rows)
           T == {k \in 0 .. Len(heads) : told \subseteq Represented(f[k].rows)}
<1>1. j \in T
  <2>1. PICK list, shown, old, map :
          /\ list = f[j].rows /\ shown = Inherited(heads[j]) /\ Accumulated(old, shown, map, list)
    BY FoldAccumulates
  <2>2. Present(shown, Len(shown), list)
    BY <2>1 DEF Accumulated, Grown
  <2>3. /\ shown \in Seq(Row) /\ DOMAIN shown = 1 .. Len(shown)
        /\ EventsOf(shown) = EventsOf(reports[heads[j]].rows)
    BY <2>1, FoldAccumulates, InheritedIs DEF Distinct
  <2>4. told \subseteq Represented(shown)
    BY <2>3, StillRepresented
  <2>5. Represented(shown) \subseteq Represented(list)
    BY <2>2, <2>3 DEF Present, Represented
  <2> HIDE DEF told
  <2> QED BY <2>1, <2>4, <2>5
<1> HIDE DEF told
<1>2. \A k \in j .. Len(heads) : k \in T /\ k < Len(heads) => k + 1 \in T
  <2> SUFFICES ASSUME NEW k \in j .. Len(heads), k \in T, k < Len(heads) PROVE k + 1 \in T
    OBVIOUS
  <2>1. k + 1 \in 1 .. Len(heads) /\ k + 1 \in 0 .. Len(heads) /\ (k + 1) - 1 = k
    OBVIOUS
  <2>2. PICK map, new : Accumulated(f[k].rows, new, map, f[k + 1].rows)
    BY <2>1, FoldAccumulates
  <2>3. Represented(f[k].rows) \subseteq Represented(f[k + 1].rows)
    BY <2>2, StillRepresented DEF Accumulated, Grown
  <2> QED BY <2>1, <2>3
<1> HIDE DEF T
<1>3. Len(heads) \in Nat /\ j \in 0 .. Len(heads)
  OBVIOUS
<1>4. Len(heads) \in T
  BY ONLY <1>1, <1>2, <1>3, UpwardFrom
<1> QED BY <1>4 DEF T, told

(* The rows of one head alone.                                             *)
LEMMA FoldOfOne ==
  ASSUME AllDistinct, NEW heads \in Seq(DOMAIN reports), NEW f, FoldOf(f, heads), Len(heads) = 1,
         NEW list, list = f[1].rows, NEW old, old = reports[heads[1]].rows
  PROVE  /\ \A p \in DOMAIN old, x \in DOMAIN list : old[p].event = list[x].event => Alike(list[x], old[p])
         /\ \A p \in DOMAIN old : old[p].event = Survivor(old[p].event) => old[p].event \in EventsOf(list)
         /\ \A p \in DOMAIN old : Survivor(old[p].event) \in Represented(list)
<1> PICK new, map : new = Inherited(heads[1]) /\ map = Outdated(f[0].verdicts, VerdictsOf(heads[1]))
  OBVIOUS
<1>1. Accumulated(f[0].rows, new, map, list) /\ old \in Distinct
  <2>1. 1 \in 1 .. Len(heads) /\ 1 - 1 = 0
    OBVIOUS
  <2> QED BY <2>1, FoldAccumulates
<1>2. f[0].rows = <<>>
  BY DEF FoldOf
<1>3. EventsOf(<<>>) = {}
  BY DEF EventsOf
<1>4. FromOne(<<>>, new, Len(new), list) /\ Present(new, Len(new), list)
  BY <1>1, <1>2 DEF Accumulated, Grown
<1>5. /\ old \in Seq(Row) /\ OneRowPerEvent(old) /\ new \in Seq(Row)
      /\ DOMAIN new = DOMAIN old /\ DOMAIN new = 1 .. Len(new)
      /\ \A i \in DOMAIN old : Alike(new[i], old[i])
  BY <1>1, InheritedIs DEF Distinct
<1>6. ASSUME NEW p \in DOMAIN old, NEW x \in DOMAIN list, old[p].event = list[x].event
      PROVE  Alike(list[x], old[p])
  <2>1. PICK i \in 1 .. Len(new) : Alike(list[x], new[i])
    BY <1>3, <1>4 DEF FromOne
  <2>2. i \in DOMAIN old /\ Alike(new[i], old[i])
    BY <1>5
  <2>3. old[i].event = old[p].event
    BY <1>6, <2>1, <2>2 DEF Alike
  <2>4. i = p
    BY <1>5, <2>2, <2>3 DEF OneRowPerEvent
  <2> QED BY <2>1, <2>2, <2>4 DEF Alike
<1>7. ASSUME NEW p \in DOMAIN old
      PROVE  /\ old[p].event = Survivor(old[p].event) => old[p].event \in EventsOf(list)
             /\ Survivor(old[p].event) \in Represented(list)
  <2>1. p \in 1 .. Len(new) /\ new[p].event = old[p].event
    BY <1>5 DEF Alike
  <2> QED BY <1>4, <2>1 DEF Present, EventsOf
<1> QED BY <1>6, <1>7

(* What the last head to tell of an event rejects is known to the end.     *)
Remembers(s, row) ==
  /\ \E y \in DOMAIN s.rows : s.rows[y].event = row.event /\ s.rows[y].version >= row.version
  /\ Key(row) \in DOMAIN s.verdicts /\ s.verdicts[Key(row)] = row.review

LEMMA FoldRemembers ==
  ASSUME AllDistinct, NEW heads \in Seq(DOMAIN reports), NEW f, FoldOf(f, heads),
         NEW j \in 1 .. Len(heads), NEW p \in DOMAIN reports[heads[j]].rows,
         NEW row, row = reports[heads[j]].rows[p],
         ~row.degraded, Rejected(row.review), row.event = Survivor(row.event),
         \A k \in 1 .. Len(heads) : j < k => row.event \notin EventsOf(reports[heads[k]].rows)
  PROVE  Remembers(f[Len(heads)], row)
<1> DEFINE T == {k \in 0 .. Len(heads) : Remembers(f[k], row)}
<1>0. reports[heads[j]].rows \in Distinct /\ row.version \in Nat /\ row.event \in Events
  <2>1. reports[heads[j]].rows \in Distinct /\ reports[heads[j]].rows \in Seq(Row)
    BY FoldAccumulates DEF Distinct
  <2> QED BY <2>1, RowIs
<1>1. j \in T
  <2>1. PICK s, before, map, shown :
          /\ s = f[j] /\ before = f[j - 1] /\ shown = Inherited(heads[j])
          /\ Accumulated(before.rows, shown, map, s.rows)
          /\ s.verdicts = Updated(before.verdicts, VerdictsOf(heads[j]))
    BY FoldAccumulates
  <2>2. Present(shown, Len(shown), s.rows)
    BY <2>1 DEF Accumulated, Grown
  <2>3. p \in 1 .. Len(shown) /\ Alike(shown[p], row)
    <3>1. shown \in Seq(Row) /\ p \in DOMAIN shown /\ Alike(shown[p], row)
      BY <1>0, <2>1, InheritedIs DEF Distinct
    <3> QED BY <3>1
  <2>4. \E y \in DOMAIN s.rows : s.rows[y].event = row.event /\ s.rows[y].version >= row.version
    BY <2>2, <2>3 DEF Present, Alike
  <2>5. row.review # NoReview
    BY DEF Rejected, NoReview
  <2>6. Key(row) \in DOMAIN VerdictsOf(heads[j]) /\ VerdictsOf(heads[j])[Key(row)] = row.review
    BY <1>0, <2>5, VerdictsAre
  <2>7. Key(row) \in DOMAIN s.verdicts /\ s.verdicts[Key(row)] = row.review
    BY <2>1, <2>6 DEF Updated
  <2>8. Remembers(s, row)
    BY ONLY <2>4, <2>7 DEF Remembers
  <2>9. j \in 0 .. Len(heads) /\ s = f[j]
    BY <2>1
  <2> QED BY <2>8, <2>9
<1>2. \A k \in j .. Len(heads) : k \in T /\ k < Len(heads) => k + 1 \in T
  <2> SUFFICES ASSUME NEW k \in j .. Len(heads), k \in T, k < Len(heads) PROVE k + 1 \in T
    OBVIOUS
  <2>1. k + 1 \in 1 .. Len(heads) /\ k + 1 \in 0 .. Len(heads) /\ (k + 1) - 1 = k /\ j < k + 1
    OBVIOUS
  <2>2. PICK s, before, map, shown, r :
          /\ s = f[k + 1] /\ before = f[k] /\ r = heads[k + 1] /\ before.rows \in Distinct /\ s.rows \in Distinct
          /\ reports[r].rows \in Distinct
          /\ Accumulated(before.rows, shown, map, s.rows)
          /\ s.verdicts = Updated(before.verdicts, VerdictsOf(r))
    BY <2>1, FoldAccumulates
  <2>3. PICK y \in DOMAIN before.rows : before.rows[y].event = row.event /\ before.rows[y].version >= row.version
    BY <2>2 DEF Remembers
  <2>4. PICK z \in DOMAIN s.rows : s.rows[z].event = before.rows[y].event
    <3>1. EventsOf(before.rows) \subseteq EventsOf(s.rows)
      BY <2>2 DEF Accumulated, Grown
    <3> QED BY <3>1 DEF EventsOf
  <2>5. s.rows[z].version >= before.rows[y].version
    BY <2>2, <2>4 DEF Accumulated, Grown, NoWorse
  <2>6. s.rows[z].version \in Nat /\ before.rows[y].version \in Nat
    BY <2>2, RowIs DEF Distinct
  <2>7. s.rows[z].version >= row.version
    <3>1. row.version \in Nat /\ before.rows[y].version >= row.version
      BY <1>0, <2>3
    <3> QED BY ONLY <2>5, <2>6, <3>1
  <2>8. Key(row) \notin DOMAIN VerdictsOf(r)
    <3> SUFFICES ASSUME Key(row) \in DOMAIN VerdictsOf(r) PROVE FALSE
      OBVIOUS
    <3>0. \A h \in DOMAIN VerdictsOf(r) : \E i \in DOMAIN reports[r].rows :
            reports[r].rows[i].review # NoReview /\ h = Key(reports[r].rows[i])
      <4>1. reports[r].rows \in Distinct
        BY <2>2
      <4> QED BY ONLY <4>1, VerdictsAre
    <3>1. PICK i \in DOMAIN reports[r].rows : Key(row) = Key(reports[r].rows[i])
      BY ONLY <3>0, Key(row) \in DOMAIN VerdictsOf(r)
    <3>2. row.event = reports[r].rows[i].event
      BY <3>1 DEF Key
    <3>3. row.event \in EventsOf(reports[r].rows)
      BY <3>2 DEF EventsOf
    <3> QED BY <2>1, <2>2, <3>3
  <2>9. Key(row) \in DOMAIN s.verdicts /\ s.verdicts[Key(row)] = row.review
    BY <2>2, <2>8 DEF Remembers, Updated
  <2> QED BY <2>1, <2>2, <2>3, <2>4, <2>7, <2>9 DEF Remembers
<1> HIDE DEF T
<1>3. Len(heads) \in Nat /\ j \in 0 .. Len(heads)
  OBVIOUS
<1>4. Len(heads) \in T
  BY ONLY <1>1, <1>2, <1>3, UpwardFrom
<1> QED BY <1>4 DEF T

(* The overview of a publication.                                          *)
LEMMA BaselinesAccumulate ==
  ASSUME AllDistinct, NEW heads \in Seq(DOMAIN reports), NEW new \in Seq(Row)
  PROVE  \E f : /\ FoldOf(f, heads) /\ f[Len(heads)] \in Folded
                /\ Accumulated(f[Len(heads)].rows, new, f[Len(heads)].verdicts, Baselines(heads, new))
<1>1. PICK f : FoldOf(f, heads) /\ Baselines(heads, new) = WithNew(f[Len(heads)], new)
  BY BaselinesAre DEF AllDistinct
<1>2. PICK s \in Folded : s = f[Len(heads)]
  <2>1. Len(heads) \in 0 .. Len(heads)
    OBVIOUS
  <2> QED BY <1>1, <2>1 DEF FoldOf
<1>3. s.rows \in Distinct
  BY DEF Folded
<1>4. Accumulated(s.rows, new, s.verdicts, Accumulate(s.rows, new, s.verdicts))
  BY <1>3, AccumulateIs
<1> QED BY <1>1, <1>2, <1>4 DEF WithNew

NoWorseThan(old, list) ==
  \A p \in DOMAIN old, x \in DOMAIN list :
    old[p].event = list[x].event =>
      list[x].version >= old[p].version /\ (list[x].degraded => old[p].degraded)

(* The heads of the day, in their order.                                   *)
InOrderOf(heads, rs) ==
  /\ heads \in Seq(DOMAIN reports) /\ ToSet(heads) = rs /\ Len(heads) = Cardinality(rs)
  /\ \A i, j \in 1 .. Len(heads) : i < j => Before(heads[i], heads[j])

LEMMA PublishedKeeps ==
  ASSUME AllDistinct, NEW rs, NEW heads, InOrderOf(heads, rs), NEW new \in Seq(Row),
         NEW list, list = Baselines(heads, new)
  PROVE  /\ list \in Distinct /\ MergedAreShut(list)
         /\ \A r \in rs : Represented(reports[r].rows) \subseteq Represented(list)
<1>1. heads \in Seq(DOMAIN reports) /\ ToSet(heads) = rs
  BY DEF InOrderOf
<1>2. PICK f : /\ FoldOf(f, heads) /\ f[Len(heads)] \in Folded
               /\ Accumulated(f[Len(heads)].rows, new, f[Len(heads)].verdicts, list)
  BY <1>1, BaselinesAccumulate
<1>3. list \in Distinct /\ MergedAreShut(list) /\ EventsOf(f[Len(heads)].rows) \subseteq EventsOf(list)
  BY <1>2 DEF Accumulated, Grown, Distinct
<1>4. ASSUME NEW r \in rs PROVE Represented(reports[r].rows) \subseteq Represented(list)
  <2>1. PICK j \in 1 .. Len(heads) : heads[j] = r
    BY <1>1 DEF ToSet
  <2>2. Represented(reports[r].rows) \subseteq Represented(f[Len(heads)].rows)
    BY <1>1, <1>2, <2>1, FoldKeeps
  <2> QED BY <1>3, <2>2, StillRepresented
<1> QED BY <1>3, <1>4

LEMMA PublishedOnOne ==
  ASSUME AllDistinct, NEW r, NEW heads, InOrderOf(heads, {r}), NEW new \in Seq(Row),
         NEW list, list = Baselines(heads, new)
  PROVE  NoWorseThan(reports[r].rows, list)
<1>1. heads \in Seq(DOMAIN reports) /\ ToSet(heads) = {r} /\ Len(heads) = 1
  BY FS_Singleton DEF InOrderOf
<1>2. heads[1] = r
  BY <1>1 DEF ToSet
<1>3. PICK f, s : /\ FoldOf(f, heads) /\ s = f[1] /\ s \in Folded
                  /\ Accumulated(s.rows, new, s.verdicts, list)
  BY <1>1, BaselinesAccumulate
<1>4. PICK old : old = reports[r].rows
  OBVIOUS
<1>5. /\ \A p \in DOMAIN old, y \in DOMAIN s.rows : old[p].event = s.rows[y].event => Alike(s.rows[y], old[p])
      /\ \A p \in DOMAIN old : old[p].event = Survivor(old[p].event) => old[p].event \in EventsOf(s.rows)
      /\ \A p \in DOMAIN old : Survivor(old[p].event) \in Represented(s.rows)
  BY <1>1, <1>2, <1>3, <1>4, FoldOfOne
<1>6. NoWorse(s.rows, list, s.verdicts) /\ FromOne(s.rows, new, Len(new), list)
  BY <1>3 DEF Accumulated, Grown
<1> SUFFICES ASSUME NEW p \in DOMAIN old, NEW x \in DOMAIN list, old[p].event = list[x].event
             PROVE  list[x].version >= old[p].version /\ (list[x].degraded => old[p].degraded)
  BY <1>4 DEF NoWorseThan
<1>7. list[x].event \in EventsOf(s.rows)
  <2> SUFFICES ASSUME list[x].event \notin EventsOf(s.rows) PROVE FALSE
    OBVIOUS
  <2>1. \/ Survivor(list[x].event) \notin Represented(s.rows)
        \/ Survivor(list[x].event) = list[x].event
    BY <1>6 DEF FromOne
  <2> QED BY <1>5, <2>1
<1>8. PICK y \in DOMAIN s.rows : s.rows[y].event = list[x].event
  BY <1>7 DEF EventsOf
<1>9. Alike(s.rows[y], old[p])
  BY <1>5, <1>8
<1>10. list[x].version >= s.rows[y].version /\ (list[x].degraded => s.rows[y].degraded)
  BY <1>6, <1>8 DEF NoWorse
<1> QED BY <1>9, <1>10 DEF Alike

LEMMA PublishedRejects ==
  ASSUME AllDistinct, NEW rs \in SUBSET Nat, \A r \in rs : reports[r].op \in Nat,
         NEW heads, InOrderOf(heads, rs), NEW new \in Seq(Row), NEW list, list = Baselines(heads, new),
         NEW r \in rs, NEW p \in DOMAIN reports[r].rows, NEW row, row = reports[r].rows[p],
         ~row.degraded, Rejected(row.review),
         \A s \in rs : Before(r, s) => row.event \notin EventsOf(reports[s].rows),
         NEW x \in DOMAIN list, list[x].event = row.event, ~Shut(list[x])
  PROVE  list[x].version > row.version
<1>1. /\ heads \in Seq(DOMAIN reports) /\ ToSet(heads) = rs
      /\ \A i, j \in 1 .. Len(heads) : i < j => Before(heads[i], heads[j])
  BY DEF InOrderOf
<1>2. PICK f, s : /\ FoldOf(f, heads) /\ s = f[Len(heads)] /\ s \in Folded
                  /\ Accumulated(s.rows, new, s.verdicts, list)
  BY <1>1, BaselinesAccumulate
<1>3. PICK j \in 1 .. Len(heads) : heads[j] = r
  BY <1>1 DEF ToSet
<1>4. \A k \in 1 .. Len(heads) : heads[k] \in rs
  BY <1>1 DEF ToSet
<1>5. row.event = Survivor(row.event)
  BY <1>2 DEF Accumulated, MergedAreShut
<1>6. \A k \in 1 .. Len(heads) : j < k => row.event \notin EventsOf(reports[heads[k]].rows)
  BY <1>1, <1>3, <1>4
<1>7. Remembers(s, row)
  BY <1>1, <1>2, <1>3, <1>5, <1>6, FoldRemembers
<1>8. PICK y \in DOMAIN s.rows : s.rows[y].event = row.event /\ s.rows[y].version >= row.version
  BY <1>7 DEF Remembers
<1>9. /\ list[x].version >= s.rows[y].version
      /\ Rejected(Verdict(s.verdicts, s.rows[y])) => list[x].version > s.rows[y].version
  BY <1>2, <1>8 DEF Accumulated, Grown, NoWorse
<1>10. s.rows[y].version = row.version => Rejected(Verdict(s.verdicts, s.rows[y]))
  <2> SUFFICES ASSUME s.rows[y].version = row.version PROVE Rejected(Verdict(s.verdicts, s.rows[y]))
    OBVIOUS
  <2>1. Key(s.rows[y]) = Key(row)
    BY <1>8 DEF Key
  <2> QED BY <1>7, <2>1 DEF Remembers, Verdict
<1>11. s.rows[y].version \in Nat /\ list[x].version \in Nat /\ row.version \in Nat
  <2>1. s.rows \in Seq(Row) /\ list \in Seq(Row)
    BY <1>2 DEF Folded, Distinct, Accumulated, Grown
  <2>2. reports[r].rows \in Seq(Row)
    BY <1>1, <1>3 DEF AllDistinct, Distinct
  <2> QED BY <2>1, <2>2, RowIs
<1> QED BY <1>8, <1>9, <1>10, <1>11

---------------------------------------------------------------------------
(* The invariant, and what a draft is made of.                             *)

(* The decision edition has an item for a key at most; the reports are     *)
(* typed, have a row for an event at most, and a parent of before.         *)
SoundItems(items) ==
  /\ items \in SUBSET Item /\ IsFiniteSet(items)
  /\ \A a, b \in items : Key(a) = Key(b) => a = b
ReportsSound ==
  /\ reports \in Seq(Report)
  /\ \A r \in DOMAIN reports :
       /\ reports[r].parent < r /\ reports[r].op <= r
       /\ reports[r].rows \in Distinct /\ SoundItems(reports[r].items)
ContentInv ==
  /\ versions \in [Events -> Nat] /\ current \in SUBSET Events
  /\ merges \in SUBSET (Events \X Events) /\ rare \in 0 .. MaxRare
  /\ Len(reports) <= MaxReports
  /\ ReportsSound

LEMMA ReportIs ==
  ASSUME ReportsSound, NEW r \in DOMAIN reports
  PROVE  /\ reports[r] \in Report /\ r \in Nat /\ reports[r].op \in Nat /\ reports[r].parent \in Nat
         /\ reports[r].snapshot \in [Events -> Nat] /\ reports[r].status \in {"draft", "archived"}
         /\ reports[r].deleted \in BOOLEAN /\ reports[r].audited \in SUBSET (Events \X Nat)
         /\ reports[r].rows \in Distinct /\ reports[r].rows \in Seq(Row)
         /\ reports[r].items \in SUBSET Item
<1>1. PICK edited \in Report : edited = reports[r]
  BY DEF ReportsSound
<1>2. /\ edited.op \in Nat /\ edited.parent \in Nat /\ edited.snapshot \in [Events -> Nat]
      /\ edited.status \in {"draft", "archived"} /\ edited.deleted \in BOOLEAN
      /\ edited.audited \in SUBSET (Events \X Nat) /\ edited.items \in SUBSET Item
  BY DEF Report
<1>3. reports[r].rows \in Distinct /\ reports[r].rows \in Seq(Row)
  BY DEF ReportsSound, Distinct
<1>4. r \in Nat
  <2>1. r \in 1 .. Len(reports) /\ Len(reports) \in Nat
    BY DEF ReportsSound
  <2> QED BY <2>1
<1> QED BY <1>1, <1>2, <1>3, <1>4

(* The last of some reports.                                               *)
LEMMA SomeReports ==
  ASSUME ReportsSound, NEW rs \in SUBSET DOMAIN reports
  PROVE  /\ rs \in SUBSET Nat /\ IsFiniteSet(rs) /\ \A r \in rs : reports[r].op \in Nat
         /\ AllDistinct
<1>1. DOMAIN reports = 1 .. Len(reports) /\ Len(reports) \in Nat
  BY DEF ReportsSound
<1>2. IsFiniteSet(DOMAIN reports)
  BY <1>1, FS_Interval
<1> QED BY <1>2, FS_Subset, ReportIs DEF AllDistinct

LEMMA LastOf ==
  ASSUME ReportsSound, NEW rs \in SUBSET DOMAIN reports
  PROVE  /\ InOrderOf(Chronological(rs), rs)
         /\ rs # {} => /\ Last(Chronological(rs)) \in rs
                       /\ \A q \in rs : ~Before(Last(Chronological(rs)), q)
<1>1. PICK s, n : s = Chronological(rs) /\ n = Cardinality(rs)
  OBVIOUS
<1>2. /\ n \in Nat /\ s \in [1 .. n -> rs] /\ ToSet(s) = rs
      /\ \A i, j \in 1 .. n : i < j => Before(s[i], s[j])
  BY <1>1, SomeReports, ChronologicalIs
<1>3. s \in Seq(rs) /\ Len(s) = n
  BY <1>2
<1>4. s \in Seq(DOMAIN reports)
  BY <1>3
<1>5. InOrderOf(s, rs)
  BY <1>1, <1>2, <1>3, <1>4 DEF InOrderOf
<1>6. ASSUME rs # {} PROVE Last(s) \in rs /\ \A q \in rs : ~Before(Last(s), q)
  <2>1. \A q \in rs : \E i \in 1 .. n : s[i] = q
    BY <1>2, <1>3 DEF ToSet
  <2>2. n \in 1 .. n /\ Last(s) = s[n]
    BY <1>2, <1>3, <1>6, <2>1 DEF Last
  <2>3. Last(s) \in rs
    BY <1>2, <2>2
  <2>4. ASSUME NEW q \in rs PROVE ~Before(Last(s), q)
    <3>1. PICK i \in 1 .. n : s[i] = q
      BY <2>1
    <3>2. i = n \/ i < n
      BY <1>2
    <3>3. q = Last(s) \/ Before(q, Last(s))
      BY <1>2, <2>2, <3>1, <3>2
    <3> QED BY <2>3, <3>3, SomeReports, BeforeIs
  <2> QED BY <2>3, <2>4
<1> QED BY <1>1, <1>5, <1>6

(* What is selected of the rows.                                           *)
LEMMA DispositionsAre ==
  ASSUME NEW list \in Distinct, NEW decided, NEW after, after = WithDispositions(list, decided)
  PROVE  /\ after \in Distinct /\ DOMAIN after = DOMAIN list /\ EventsOf(after) = EventsOf(list)
         /\ Represented(after) = Represented(list)
         /\ \A i \in DOMAIN list :
              /\ Alike(after[i], list[i]) /\ after[i].review = list[i].review /\ after[i].target = list[i].target
              /\ after[i].disp = "selected" <=>
                   ~Shut(list[i]) /\ ~list[i].degraded /\ Key(list[i]) \in decided
<1>1. list \in Seq(Row) /\ OneRowPerEvent(list) /\ DOMAIN list = 1 .. Len(list) /\ Len(list) \in Nat
  BY DEF Distinct
<1>2. ASSUME NEW i \in 1 .. Len(list)
      PROVE  /\ after[i] \in Row
             /\ Alike(after[i], list[i]) /\ after[i].review = list[i].review /\ after[i].target = list[i].target
             /\ after[i].disp = "selected" <=>
                   ~Shut(list[i]) /\ ~list[i].degraded /\ Key(list[i]) \in decided
  <2>1. PICK row \in Row : row = list[i]
    BY <1>1
  <2>2. after[i] = IF Shut(row) THEN row
                   ELSE [row EXCEPT !.disp =
                           IF ~row.degraded /\ Key(row) \in decided THEN "selected" ELSE "omitted"]
    BY <1>1, <2>1 DEF WithDispositions
  <2>3. CASE Shut(row)
    <3>1. after[i] = row /\ row.disp # "selected"
      BY <2>2, <2>3 DEF Shut
    <3> QED BY <2>1, <2>3, <3>1 DEF Alike
  <2>4. CASE ~Shut(row)
    <3>1. PICK d \in {"selected", "omitted"} :
            /\ after[i] = [row EXCEPT !.disp = d]
            /\ d = "selected" <=> ~row.degraded /\ Key(row) \in decided
      BY <2>2, <2>4
    <3>2. /\ after[i] \in Row /\ Alike(after[i], row) /\ after[i].review = row.review
          /\ after[i].target = row.target /\ after[i].disp = d
      BY <3>1 DEF Row, Alike, Dispositions
    <3> QED BY <2>1, <2>4, <3>1, <3>2
  <2> QED BY <2>3, <2>4
<1>3. after = [i \in 1 .. Len(list) |-> after[i]]
  BY <1>1 DEF WithDispositions
<1>4. after \in [1 .. Len(list) -> Row]
  BY <1>2, <1>3
<1>5. after \in Seq(Row) /\ DOMAIN after = DOMAIN list
  BY <1>1, <1>4
<1>6. OneRowPerEvent(after) /\ EventsOf(after) = EventsOf(list) /\ Represented(after) = Represented(list)
  BY <1>1, <1>2, <1>5 DEF OneRowPerEvent, EventsOf, Represented, Alike
<1> QED BY <1>1, <1>2, <1>5, <1>6 DEF Distinct

LEMMA OneOfEach ==
  ASSUME NEW r, reports[r].rows \in Distinct, NEW a \in RowsOf(r), NEW b \in RowsOf(r), a.event = b.event
  PROVE  a = b
<1>1. PICK i \in DOMAIN reports[r].rows, j \in DOMAIN reports[r].rows :
        a = reports[r].rows[i] /\ b = reports[r].rows[j]
  BY DEF RowsOf, ToSet
<1>2. OneRowPerEvent(reports[r].rows)
  BY DEF Distinct
<1> QED BY <1>1, <1>2 DEF OneRowPerEvent

LEMMA CopiedReviewIs ==
  ASSUME ReportsSound, NEW originals \in SUBSET DOMAIN reports, NEW row \in Row,
         NEW after, after = CopiedReview(row, originals)
  PROVE  after \in Row /\ Alike(after, row) /\ after.disp = row.disp
<1> PICK rs, r : rs = Originals(Key(row), originals) /\ r = Last(Chronological(rs))
  OBVIOUS
<1>1. rs \in SUBSET originals /\ rs \in SUBSET DOMAIN reports
  BY DEF Originals
<1>2. \A q \in originals : q \in rs <=> \E old \in RowsOf(q) : Key(old) = Key(row) /\ old.review # NoReview
  BY DEF Originals
<1>3. CASE rs = {}
  <2>1. after = row
    BY <1>3 DEF CopiedReview
  <2> QED BY <2>1 DEF Alike
<1>4. CASE rs # {}
  <2>1. r \in rs /\ \A q \in rs : ~Before(r, q)
    BY <1>1, <1>4, LastOf
  <2>2. reports[r].rows \in Distinct
    BY <1>1, <2>1, ReportIs
  <2> DEFINE from == CHOOSE old \in RowsOf(r) : Key(old) = Key(row)
  <2>3. PICK old \in RowsOf(r) : Key(old) = Key(row) /\ old.review # NoReview
    BY <1>1, <1>2, <2>1
  <2>4. from \in RowsOf(r) /\ Key(from) = Key(row)
    BY <2>3
  <2>5. after = [row EXCEPT !.review = from.review, !.target = from.target]
    BY <1>4 DEF CopiedReview
  <2> HIDE DEF from
  <2>6. from \in Row
    <3>1. PICK i \in DOMAIN reports[r].rows : from = reports[r].rows[i]
      BY <2>4 DEF RowsOf, ToSet
    <3>2. reports[r].rows \in Seq(Row)
      BY <2>2 DEF Distinct
    <3> QED BY <3>1, <3>2
  <2>7. from.review \in Reviews /\ from.target \in Events \cup {None}
    BY <2>6 DEF Row
  <2>8. after \in Row /\ Alike(after, row) /\ after.disp = row.disp /\ after.review = from.review
    BY <2>5, <2>7 DEF Row, Alike
  <2> QED BY <2>8
<1> QED BY <1>3, <1>4

LEMMA CopiedItemIs ==
  ASSUME ReportsSound, NEW originals \in SUBSET DOMAIN reports, NEW item \in Item,
         NEW after, after = CopiedItem(item, originals)
  PROVE  after \in Item /\ after.event = item.event /\ after.version = item.version
<1> PICK rs, r : rs = ItemOriginals(Key(item), originals) /\ r = Last(Chronological(rs))
  OBVIOUS
<1>1. rs \in SUBSET DOMAIN reports
  BY DEF ItemOriginals
<1>2. CASE rs = {}
  <2>1. after = item
    BY <1>2 DEF CopiedItem
  <2> QED BY <2>1
<1>3. CASE rs # {}
  <2>1. r \in rs
    BY <1>1, <1>3, LastOf
  <2>2. reports[r].items \in SUBSET Item
    BY <1>1, <2>1, ReportIs
  <2> DEFINE from == CHOOSE old \in reports[r].items : Key(old) = Key(item)
  <2>3. \E old \in reports[r].items : Key(old) = Key(item)
    BY <2>1 DEF ItemOriginals
  <2>4. from \in reports[r].items
    BY <2>3
  <2>5. after = [item EXCEPT !.review = from.review]
    BY <1>3 DEF CopiedItem
  <2> HIDE DEF from
  <2>6. from.review \in Reviews
    BY <2>2, <2>4 DEF Item
  <2> QED BY <2>5, <2>6 DEF Item
<1> QED BY <1>2, <1>3

(* Items changed one by one, each in its own version.                      *)
LEMMA ItemsChanged ==
  ASSUME NEW items, SoundItems(items), NEW g \in [items -> Item], \A x \in items : Key(g[x]) = Key(x),
         NEW after, after = {g[x] : x \in items}
  PROVE  SoundItems(after) /\ Keys(after) = Keys(items)
<1>1. IsFiniteSet(items) /\ \A a, b \in items : Key(a) = Key(b) => a = b
  BY DEF SoundItems
<1>2. IsFiniteSet(after)
  <2>1. g \in Surjection(items, after)
    BY Fun_IsSurj
  <2> QED BY <1>1, <2>1, FS_Surjection
<1>3. after \in SUBSET Item
  OBVIOUS
<1>4. ASSUME NEW a \in after, NEW b \in after, Key(a) = Key(b) PROVE a = b
  <2>1. PICK x \in items, y \in items : a = g[x] /\ b = g[y]
    OBVIOUS
  <2>2. Key(x) = Key(y)
    BY <1>4, <2>1
  <2> QED BY <1>1, <2>1, <2>2
<1>5. Keys(after) = Keys(items)
  BY DEF Keys
<1> QED BY <1>2, <1>3, <1>4, <1>5 DEF SoundItems

LEMMA KeysOfItems ==
  ASSUME NEW items, SoundItems(items) PROVE Cardinality(Keys(items)) = Cardinality(items)
<1> DEFINE g == [x \in items |-> Key(x)]
<1>1. IsFiniteSet(items) /\ \A a, b \in items : Key(a) = Key(b) => a = b
  BY DEF SoundItems
<1>2. g \in Bijection(items, Keys(items))
  <2>1. g \in [items -> Keys(items)]
    BY DEF Keys
  <2>2. \A a, b \in items : g[a] = g[b] => a = b
    BY <1>1
  <2>3. \A k \in Keys(items) : \E x \in items : g[x] = k
    BY DEF Keys
  <2> HIDE DEF g
  <2> QED BY <2>1, <2>2, <2>3, Fun_IsBij
<1> HIDE DEF g
<1>3. ExistsBijection(items, Keys(items))
  BY <1>2 DEF ExistsBijection
<1> QED BY <1>1, <1>3, FS_Bijection

(* A draft has the rows and the items it is made of, with their reviews.   *)
DraftedFrom(draft, parent, op, list, items) ==
  /\ draft \in Report /\ draft.rows \in Distinct /\ SoundItems(draft.items)
  /\ draft.parent = parent /\ draft.op = op
  /\ DOMAIN draft.rows = DOMAIN list /\ Keys(draft.items) = Keys(items)
  /\ EventsOf(draft.rows) = EventsOf(list) /\ Represented(draft.rows) = Represented(list)
  /\ \A i \in DOMAIN list :
       Alike(draft.rows[i], list[i]) /\ draft.rows[i].disp = list[i].disp

LEMMA DraftIs ==
  ASSUME ReportsSound, NEW originals \in SUBSET DOMAIN reports, NEW list \in Distinct,
         NEW items, SoundItems(items), NEW parent \in Nat, NEW op \in Nat,
         NEW snapshot \in [Events -> Nat], NEW audited \in SUBSET (Events \X Nat),
         NEW draft, draft = Draft(parent, op, snapshot, list, items, audited, originals)
  PROVE  DraftedFrom(draft, parent, op, list, items)
<1>1. list \in Seq(Row) /\ OneRowPerEvent(list) /\ DOMAIN list = 1 .. Len(list) /\ Len(list) \in Nat
  BY DEF Distinct
<1>2. PICK after, kept : after = draft.rows /\ kept = draft.items
  OBVIOUS
<1>3. /\ after = [i \in 1 .. Len(list) |-> CopiedReview(list[i], originals)]
      /\ kept = {CopiedItem(item, originals) : item \in items}
      /\ draft = [parent |-> parent, op |-> op, snapshot |-> snapshot, status |-> "draft",
                  deleted |-> FALSE, rows |-> after, items |-> kept, audited |-> audited]
  BY <1>1, <1>2 DEF Draft
<1>4. ASSUME NEW i \in 1 .. Len(list)
      PROVE  after[i] \in Row /\ Alike(after[i], list[i]) /\ after[i].disp = list[i].disp
  <2>1. after[i] = CopiedReview(list[i], originals) /\ list[i] \in Row
    BY <1>1, <1>3
  <2> QED BY <2>1, CopiedReviewIs
<1>5. after \in Seq(Row) /\ DOMAIN after = DOMAIN list
  <2>1. after \in [1 .. Len(list) -> Row]
    BY <1>3, <1>4
  <2>2. DOMAIN after = DOMAIN list
    BY <1>1, <1>3
  <2> QED BY <1>1, <2>1, <2>2
<1>6. OneRowPerEvent(after) /\ EventsOf(after) = EventsOf(list) /\ Represented(after) = Represented(list)
  <2>1. \A i \in DOMAIN list : after[i].event = list[i].event
    BY <1>1, <1>4 DEF Alike
  <2> QED BY <1>1, <1>5, <2>1 DEF OneRowPerEvent, EventsOf, Represented
<1>7. SoundItems(kept) /\ Keys(kept) = Keys(items)
  <2> DEFINE g == [x \in items |-> CopiedItem(x, originals)]
  <2>1. ASSUME NEW x \in items PROVE g[x] \in Item /\ Key(g[x]) = Key(x)
    <3>1. x \in Item /\ g[x] = CopiedItem(x, originals)
      BY DEF SoundItems
    <3> QED BY <3>1, CopiedItemIs DEF Key
  <2>2. g \in [items -> Item] /\ kept = {g[x] : x \in items}
    BY <1>3, <2>1
  <2> HIDE DEF g
  <2> QED BY <2>1, <2>2, ItemsChanged
<1>8. draft \in Report /\ draft.parent = parent /\ draft.op = op
  <2>1. kept \in SUBSET Item
    BY <1>7 DEF SoundItems
  <2> QED BY <1>3, <1>5, <2>1 DEF Report
<1> QED BY <1>1, <1>2, <1>4, <1>5, <1>6, <1>7, <1>8 DEF Distinct, DraftedFrom

LEMMA MaterializedIs ==
  ASSUME ContentAssumption, NEW snapshot \in [Events -> Nat], NEW degraded
  PROVE  Materialized(snapshot, degraded) \in Seq(Row)
<1> PICK order, n : order = Ascending(Covered(snapshot)) /\ n = Cardinality(Covered(snapshot))
  OBVIOUS
<1>1. Covered(snapshot) \in SUBSET Nat /\ Covered(snapshot) \in SUBSET Events /\ IsFiniteSet(Covered(snapshot))
  BY FS_Subset DEF Covered, ContentAssumption
<1>2. n \in Nat /\ order \in [1 .. n -> Events]
  BY <1>1, AscendingIs
<1> DEFINE NewRow(e) == [event |-> e, version |-> snapshot[e], degraded |-> e \in degraded,
                         disp |-> "none", review |-> NoReview, target |-> None]
<1>3. \A e \in Events : NewRow(e) \in Row
  BY DEF Row, Dispositions, Reviews, NoReview, None
<1>4. Materialized(snapshot, degraded) = [i \in DOMAIN order |-> NewRow(order[i])]
  BY DEF Materialized
<1> HIDE DEF NewRow
<1>5. [i \in DOMAIN order |-> NewRow(order[i])] \in [1 .. n -> Row]
  BY <1>2, <1>3
<1> QED BY <1>2, <1>4, <1>5

(* A draft of some rows.                                                   *)
DraftOf(draft, parent, op, list, keys) ==
  /\ draft \in Report /\ draft.rows \in Distinct /\ SoundItems(draft.items)
  /\ draft.parent = parent /\ draft.op = op
  /\ DOMAIN draft.rows = DOMAIN list /\ Keys(draft.items) = keys
  /\ EventsOf(draft.rows) = EventsOf(list) /\ Represented(draft.rows) = Represented(list)
  /\ \A i \in DOMAIN list :
       /\ Alike(draft.rows[i], list[i])
       /\ draft.rows[i].disp = "selected" <=>
            ~Shut(list[i]) /\ ~list[i].degraded /\ Key(list[i]) \in keys

LEMMA DraftOfRows ==
  ASSUME ReportsSound, NEW originals \in SUBSET DOMAIN reports, NEW list \in Distinct,
         NEW items, SoundItems(items), NEW parent \in Nat, NEW op \in Nat,
         NEW snapshot \in [Events -> Nat], NEW audited \in SUBSET (Events \X Nat),
         NEW keys, keys = Keys(items), NEW draft,
         draft = Draft(parent, op, snapshot, WithDispositions(list, keys), items, audited, originals)
  PROVE  DraftOf(draft, parent, op, list, keys)
<1> PICK shown : shown = WithDispositions(list, keys)
  OBVIOUS
<1>1. /\ shown \in Distinct /\ DOMAIN shown = DOMAIN list /\ EventsOf(shown) = EventsOf(list)
      /\ Represented(shown) = Represented(list)
      /\ \A i \in DOMAIN list :
           /\ Alike(shown[i], list[i])
           /\ shown[i].disp = "selected" <=> ~Shut(list[i]) /\ ~list[i].degraded /\ Key(list[i]) \in keys
  BY DispositionsAre
<1>2. DraftedFrom(draft, parent, op, shown, items)
  BY <1>1, DraftIs
<1>3. ASSUME NEW i \in DOMAIN list PROVE Key(shown[i]) = Key(list[i]) /\ Alike(draft.rows[i], list[i])
  <2>1. Alike(shown[i], list[i]) /\ Alike(draft.rows[i], shown[i])
    BY <1>1, <1>2 DEF DraftedFrom
  <2> QED BY <2>1 DEF Alike, Key
<1> QED BY <1>1, <1>2, <1>3 DEF DraftOf, DraftedFrom

LEMMA RowsAreFinite ==
  ASSUME NEW list \in Distinct PROVE IsFiniteSet(ToSet(list))
<1>1. list \in [1 .. Len(list) -> ToSet(list)] /\ Len(list) \in Nat
  BY DEF Distinct, ToSet
<1>2. \A x \in ToSet(list) : \E i \in 1 .. Len(list) : list[i] = x
  BY DEF Distinct, ToSet
<1>3. list \in Surjection(1 .. Len(list), ToSet(list))
  BY <1>1, <1>2, Fun_IsSurj
<1>4. IsFiniteSet(1 .. Len(list))
  BY <1>1, FS_Interval
<1> QED BY <1>3, <1>4, FS_Surjection

ItemOf(row) == [event |-> row.event, version |-> row.version, included |-> TRUE, review |-> NoReview]
LEMMA DecidedItems ==
  ASSUME NEW list \in Distinct, NEW decided \in SUBSET ToSet(list),
         NEW items, items = {ItemOf(row) : row \in decided}
  PROVE  SoundItems(items) /\ Keys(items) = Keys(decided)
<1>1. IsFiniteSet(decided)
  BY RowsAreFinite, FS_Subset
<1>2. ASSUME NEW row \in decided PROVE ItemOf(row) \in Item /\ Key(ItemOf(row)) = Key(row) /\ row \in Row
  <2>1. PICK i \in DOMAIN list : row = list[i]
    BY DEF ToSet
  <2>2. row.event \in Events /\ row.version \in Nat /\ row \in Row
    BY <2>1, RowIs DEF Distinct
  <2> QED BY <2>2 DEF ItemOf, Item, Key, Reviews, NoReview
<1>3. IsFiniteSet(items)
  <2> DEFINE g == [row \in decided |-> ItemOf(row)]
  <2>1. g \in Surjection(decided, items)
    BY Fun_IsSurj
  <2> QED BY <1>1, <2>1, FS_Surjection
<1>4. ASSUME NEW a \in items, NEW b \in items, Key(a) = Key(b) PROVE a = b
  <2>1. PICK x \in decided, y \in decided : a = ItemOf(x) /\ b = ItemOf(y)
    OBVIOUS
  <2>2. x.event = y.event /\ x.version = y.version
    BY <1>2, <1>4, <2>1 DEF Key
  <2> QED BY <2>1, <2>2 DEF ItemOf
<1>5. Keys(items) = Keys(decided)
  BY <1>2 DEF Keys
<1>6. items \in SUBSET Item
  BY <1>2
<1> QED BY <1>3, <1>4, <1>5, <1>6 DEF SoundItems

LEMMA PublishIs ==
  ASSUME ContentAssumption, ContentInv, PublishOverview
  PROVE  \E draft, keys : \E new \in Seq(Row), parent \in Nat :
           /\ DraftOf(draft, parent, Len(reports) + 1, Baselines(Chronological(Heads), new), keys)
           /\ keys \subseteq Keys(Candidates(Baselines(Chronological(Heads), new)))
           /\ parent <= Len(reports) /\ Len(reports) < MaxReports /\ reports' = Append(reports, draft)
<1>1. PICK some \in SUBSET Events : \E degraded \in SUBSET some : \E move \in [some -> {0, 1}] :
        Generate([e \in Events |-> IF e \in some THEN versions[e] + move[e] ELSE 0], degraded)
  BY DEF PublishOverview
<1>2. PICK degraded \in SUBSET some, move \in [some -> {0, 1}] :
        Generate([e \in Events |-> IF e \in some THEN versions[e] + move[e] ELSE 0], degraded)
  BY <1>1
<1>3. PICK snapshot : snapshot = [e \in Events |-> IF e \in some THEN versions[e] + move[e] ELSE 0]
  OBVIOUS
<1>4. snapshot \in [Events -> Nat] /\ Generate(snapshot, degraded)
  BY <1>2, <1>3 DEF ContentInv
<1>5. PICK new \in Seq(Row) : new = Materialized(snapshot, degraded)
  BY <1>4, MaterializedIs
<1>6. ReportsSound /\ Heads \in SUBSET DOMAIN reports
  BY DEF ContentInv, Heads, Archived, Live
<1>7. PICK list, parent : /\ list = Baselines(Chronological(Heads), new)
                          /\ parent = IF Heads = {} THEN None ELSE Last(Chronological(Heads))
  OBVIOUS
<1>8. InOrderOf(Chronological(Heads), Heads) /\ AllDistinct
  BY <1>6, LastOf, SomeReports
<1>9. list \in Distinct
  BY <1>7, <1>8, PublishedKeeps
<1>10. parent \in Nat /\ parent <= Len(reports) /\ Len(reports) + 1 \in Nat
  <2>1. DOMAIN reports = 1 .. Len(reports) /\ Len(reports) \in Nat
    BY <1>6 DEF ReportsSound
  <2>2. CASE Heads = {}
    BY <1>7, <2>1, <2>2 DEF None
  <2>3. CASE Heads # {}
    <3>1. parent \in Heads
      BY <1>6, <1>7, <2>3, LastOf
    <3> QED BY <1>6, <2>1, <3>1
  <2> QED BY <2>1, <2>2, <2>3
<1>11. PICK decided, draft :
         /\ decided \in SUBSET Candidates(list)
         /\ draft = Draft(parent, Len(reports) + 1, snapshot, WithDispositions(list, Keys(decided)),
                          {[event |-> row.event, version |-> row.version, included |-> TRUE,
                            review |-> NoReview] : row \in decided}, {}, Heads)
         /\ reports' = Append(reports, draft)
  BY <1>4, <1>5, <1>7 DEF Generate
<1>12. PICK items : items = {ItemOf(row) : row \in decided}
  OBVIOUS
<1>13. draft = Draft(parent, Len(reports) + 1, snapshot, WithDispositions(list, Keys(decided)), items, {}, Heads)
  BY <1>11, <1>12 DEF ItemOf
<1>14. decided \in SUBSET ToSet(list)
  BY <1>11 DEF Candidates
<1>15. SoundItems(items) /\ Keys(items) = Keys(decided)
  BY <1>9, <1>12, <1>14, DecidedItems
<1>16. DraftOf(draft, parent, Len(reports) + 1, list, Keys(decided))
  BY <1>4, <1>6, <1>9, <1>10, <1>13, <1>15, DraftOfRows
<1>17. Keys(decided) \subseteq Keys(Candidates(list))
  BY <1>11 DEF Keys
<1>18. Len(reports) < MaxReports
  BY <1>4 DEF Generate
<1> QED BY <1>7, <1>10, <1>11, <1>16, <1>17, <1>18

LEMMA ReviseIs ==
  ASSUME ContentAssumption, ContentInv, NEW r \in DOMAIN reports, NEW degraded, Revise(r, degraded)
  PROVE  \E draft, list : \E new \in Seq(Row) :
           /\ Accumulated(Inherited(r), new, VerdictsOf(r), list)
           /\ DraftOf(draft, r, reports[r].op, list, Keys(reports[r].items))
           /\ Len(reports) < MaxReports /\ reports' = Append(reports, draft)
<1>1. ReportsSound /\ {r} \in SUBSET DOMAIN reports
  BY DEF ContentInv
<1>2. PICK old : old = reports[r]
  OBVIOUS
<1>3. /\ old.snapshot \in [Events -> Nat] /\ old.op \in Nat /\ r \in Nat /\ old.rows \in Distinct
      /\ old.audited \in SUBSET (Events \X Nat) /\ SoundItems(old.items)
  BY <1>1, <1>2, ReportIs DEF ReportsSound
<1>4. PICK new \in Seq(Row) : new = Materialized(old.snapshot, degraded)
  BY <1>3, MaterializedIs
<1>5. PICK list : list = Accumulate(Inherited(r), new, VerdictsOf(r))
  OBVIOUS
<1>6. Inherited(r) \in Distinct
  BY <1>2, <1>3, InheritedIs
<1>7. Accumulated(Inherited(r), new, VerdictsOf(r), list)
  BY <1>5, <1>6, AccumulateIs
<1>8. list \in Distinct
  BY <1>7 DEF Accumulated, Grown, Distinct
<1>9. PICK items, draft :
        /\ items = {[item EXCEPT !.review = NoReview] : item \in old.items}
        /\ draft = Draft(r, old.op, old.snapshot, WithDispositions(list, Keys(old.items)), items,
                         old.audited, {r})
  OBVIOUS
<1>10. Len(reports) < MaxReports /\ reports' = Append(reports, draft)
  BY <1>2, <1>4, <1>5, <1>9 DEF Revise
<1>11. SoundItems(items) /\ Keys(items) = Keys(old.items)
  <2> DEFINE g == [item \in old.items |-> [item EXCEPT !.review = NoReview]]
  <2>1. ASSUME NEW item \in old.items PROVE g[item] \in Item /\ Key(g[item]) = Key(item)
    <3>1. item \in Item
      BY <1>3 DEF SoundItems
    <3> QED BY <3>1 DEF Item, Key, Reviews, NoReview
  <2>2. g \in [old.items -> Item] /\ items = {g[item] : item \in old.items}
    BY <1>9, <2>1
  <2> HIDE DEF g
  <2>3. SoundItems(old.items)
    BY <1>3
  <2>4. \A item \in old.items : Key(g[item]) = Key(item)
    BY <2>1
  <2>5. g \in [old.items -> Item] /\ items = {g[item] : item \in old.items}
    BY <2>2
  <2> QED BY ONLY <2>3, <2>4, <2>5, ItemsChanged
<1>12. DraftOf(draft, r, old.op, list, Keys(old.items))
  BY <1>1, <1>3, <1>8, <1>9, <1>11, DraftOfRows
<1> QED BY <1>2, <1>7, <1>10, <1>12

(* A report is added.                                                      *)
LEMMA ReportAdded ==
  ASSUME ReportsSound, NEW draft \in Report, draft.rows \in Distinct, SoundItems(draft.items),
         draft.parent <= Len(reports), draft.op <= Len(reports) + 1, reports' = Append(reports, draft)
  PROVE  /\ ReportsSound' /\ Len(reports') = Len(reports) + 1 /\ Len(reports) \in Nat
         /\ reports'[Len(reports')] = draft
<1>1. reports \in Seq(Report) /\ DOMAIN reports = 1 .. Len(reports) /\ Len(reports) \in Nat
  BY DEF ReportsSound
<1>2. /\ reports' \in Seq(Report) /\ DOMAIN reports' = 1 .. (Len(reports) + 1)
      /\ Len(reports') = Len(reports) + 1 /\ reports'[Len(reports) + 1] = draft
      /\ \A r \in 1 .. Len(reports) : reports'[r] = reports[r]
  BY <1>1
<1>3. ASSUME NEW r \in 1 .. (Len(reports) + 1)
      PROVE  /\ reports'[r].parent < r /\ reports'[r].op <= r
             /\ reports'[r].rows \in Distinct /\ SoundItems(reports'[r].items)
  <2>1. CASE r \in 1 .. Len(reports)
    BY <1>1, <1>2, <2>1 DEF ReportsSound
  <2>2. CASE r = Len(reports) + 1
    <3>1. draft.parent \in Nat
      BY DEF Report
    <3>2. draft.parent < r
      BY <1>1, <2>2, <3>1
    <3> QED BY <1>2, <2>2, <3>2
  <2> QED BY <1>1, <2>1, <2>2
<1> QED BY <1>1, <1>2, <1>3 DEF ReportsSound

(* A report is changed, not what it is of.                                 *)
LEMMA ReportChanged ==
  ASSUME ReportsSound, NEW r \in DOMAIN reports, NEW edited \in Report,
         edited.parent = reports[r].parent, edited.op = reports[r].op,
         edited.rows \in Distinct, SoundItems(edited.items),
         reports' = [reports EXCEPT ![r] = edited]
  PROVE  ReportsSound' /\ Len(reports') = Len(reports)
<1>1. reports \in Seq(Report) /\ DOMAIN reports = 1 .. Len(reports) /\ Len(reports) \in Nat
  BY DEF ReportsSound
<1>2. /\ reports' \in Seq(Report) /\ DOMAIN reports' = DOMAIN reports /\ Len(reports') = Len(reports)
      /\ reports'[r] = edited /\ \A s \in DOMAIN reports : s # r => reports'[s] = reports[s]
  BY <1>1
<1>3. ASSUME NEW s \in DOMAIN reports
      PROVE  /\ reports'[s].parent < s /\ reports'[s].op <= s
             /\ reports'[s].rows \in Distinct /\ SoundItems(reports'[s].items)
  BY <1>2 DEF ReportsSound
<1> QED BY <1>1, <1>2, <1>3 DEF ReportsSound

---------------------------------------------------------------------------
(* The steps keep the invariant.                                           *)

Quiet == ReportsSound' /\ Len(reports') = Len(reports)

LEMMA StatusKeeps ==
  ASSUME ContentInv, NEW r \in DOMAIN reports, Archive(r) \/ TrashReport(r) \/ RestoreReport(r)
  PROVE  Quiet
<1>1. PICK old \in Report : old = reports[r]
  BY ReportIs DEF ContentInv
<1>2. \E edited : /\ edited \in {[old EXCEPT !.status = "archived"], [old EXCEPT !.deleted = TRUE],
                                 [old EXCEPT !.deleted = FALSE]}
                  /\ reports' = [reports EXCEPT ![r] = edited]
  BY <1>1 DEF Archive, TrashReport, RestoreReport
<1>3. PICK edited : /\ edited \in {[old EXCEPT !.status = "archived"], [old EXCEPT !.deleted = TRUE],
                                   [old EXCEPT !.deleted = FALSE]}
                    /\ reports' = [reports EXCEPT ![r] = edited]
  BY <1>2
<1>4. /\ edited \in Report /\ edited.parent = old.parent /\ edited.op = old.op
      /\ edited.rows = old.rows /\ edited.items = old.items
  <2>1. CASE edited = [old EXCEPT !.status = "archived"]
    BY ONLY <2>1, old \in Report DEF Report
  <2>2. CASE edited = [old EXCEPT !.deleted = TRUE]
    BY ONLY <2>2, old \in Report DEF Report
  <2>3. CASE edited = [old EXCEPT !.deleted = FALSE]
    BY ONLY <2>3, old \in Report DEF Report
  <2> QED BY <1>3, <2>1, <2>2, <2>3
<1>5. old.rows \in Distinct /\ SoundItems(old.items) /\ ReportsSound
  BY <1>1 DEF ContentInv, ReportsSound
<1> QED BY <1>1, <1>3, <1>4, <1>5, ReportChanged DEF Quiet

(* A row has a review.                                                     *)
LEMMA RowReviewed ==
  ASSUME NEW list \in Distinct, NEW i \in DOMAIN list, NEW review \in Reviews,
         NEW target \in Events \cup {None}, NEW after,
         after = [list EXCEPT ![i] = [list[i] EXCEPT !.review = review, !.target = target]]
  PROVE  after \in Distinct
<1>1. list \in Seq(Row) /\ OneRowPerEvent(list)
  BY DEF Distinct
<1>0. PICK row \in Row : row = list[i]
  BY <1>1
<1>2. PICK new : row = list[i] /\ new = [row EXCEPT !.review = review, !.target = target]
  BY <1>0
<1>3. new \in Row /\ new.event = row.event
  BY <1>2 DEF Row
<1>4. after = [list EXCEPT ![i] = new]
  BY <1>0, <1>2
<1>5. /\ after \in Seq(Row) /\ DOMAIN after = DOMAIN list /\ after[i] = new
      /\ \A j \in DOMAIN list : j # i => after[j] = list[j]
  BY <1>1, <1>3, <1>4
<1>6. \A j \in DOMAIN list : after[j].event = list[j].event
  BY <1>2, <1>3, <1>5
<1>7. OneRowPerEvent(after)
  BY <1>1, <1>5, <1>6 DEF OneRowPerEvent
<1> QED BY <1>5, <1>7 DEF Distinct

LEMMA WithItemIs ==
  ASSUME ReportsSound, NEW r \in DOMAIN reports, NEW key, NEW review \in Reviews
  PROVE  SoundItems(WithItem(r, key, review))
<1> PICK items : items = reports[r].items
  OBVIOUS
<1> DEFINE g == [item \in items |->
             IF Key(item) = key THEN [item EXCEPT !.review = review, !.included = Included(review)] ELSE item]
<1>1. SoundItems(items)
  BY DEF ReportsSound
<1>2. ASSUME NEW item \in items PROVE g[item] \in Item /\ Key(g[item]) = Key(item)
  <2>1. item \in Item
    BY <1>1 DEF SoundItems
  <2> QED BY <2>1 DEF Item, Key, Included
<1>3. g \in [items -> Item] /\ WithItem(r, key, review) = {g[item] : item \in items}
  BY <1>2 DEF WithItem
<1> HIDE DEF g
<1> QED BY <1>1, <1>2, <1>3, ItemsChanged

LEMMA ReviewRowKeeps ==
  ASSUME ContentInv, NEW r \in DOMAIN reports, NEW i \in DOMAIN reports[r].rows,
         NEW review \in Reviews, NEW target \in Events \cup {None}, ReviewRow(r, i, review, target)
  PROVE  Quiet
<1>1. PICK old \in Report : old = reports[r]
  BY ReportIs DEF ContentInv
<1>2. old.rows \in Distinct /\ SoundItems(old.items) /\ ReportsSound
  BY <1>1 DEF ContentInv, ReportsSound
<1>3. PICK list, edited :
        /\ list = [old.rows EXCEPT ![i] = [old.rows[i] EXCEPT !.review = review, !.target = target]]
        /\ edited = [old EXCEPT !.rows = list]
  OBVIOUS
<1>4. list \in Distinct
  BY <1>1, <1>2, <1>3, RowReviewed
<1>5. reports' = [reports EXCEPT ![r] = edited]
  BY <1>1, <1>2, <1>3 DEF ReviewRow
<1>6. /\ edited \in Report /\ edited.parent = old.parent /\ edited.op = old.op
      /\ edited.rows = list /\ edited.items = old.items
  BY <1>3, <1>4 DEF Report, Distinct
<1> QED BY <1>1, <1>2, <1>4, <1>5, <1>6, ReportChanged DEF Quiet

LEMMA ReviewItemKeeps ==
  ASSUME ContentInv, NEW r \in DOMAIN reports, NEW item \in reports[r].items,
         ReviewItem(r, item, "exclude") \/ SetIncluded(r, item)
  PROVE  Quiet
<1>1. PICK old \in Report : old = reports[r]
  BY ReportIs DEF ContentInv
<1>2. old.rows \in Distinct /\ SoundItems(old.items) /\ ReportsSound
  BY <1>1 DEF ContentInv, ReportsSound
<1>3. \E items : SoundItems(items) /\ reports' = [reports EXCEPT ![r] = [old EXCEPT !.items = items]]
  <2>1. CASE ReviewItem(r, item, "exclude")
    <3>1. SoundItems(WithItem(r, Key(item), "exclude"))
      BY <1>2, WithItemIs DEF Reviews
    <3> QED BY <1>1, <2>1, <3>1 DEF ReviewItem
  <2>2. CASE SetIncluded(r, item)
    <3> DEFINE flipped == [item EXCEPT !.included = ~@]
               g == [x \in old.items |-> IF x = item THEN flipped ELSE x]
               items == (old.items \ {item}) \cup {flipped}
    <3>1. item \in old.items /\ item \in Item
      BY <1>1, <1>2 DEF SoundItems
    <3>2. flipped \in Item /\ Key(flipped) = Key(item)
      BY <3>1 DEF Item, Key
    <3>3. reports' = [reports EXCEPT ![r] = [old EXCEPT !.items = items]]
      BY <1>1, <2>2 DEF SetIncluded
    <3> HIDE DEF flipped
    <3>4. g \in [old.items -> Item] /\ \A x \in old.items : Key(g[x]) = Key(x)
      BY <1>2, <3>2 DEF SoundItems
    <3>5. items = {g[x] : x \in old.items}
      BY <3>1
    <3> HIDE DEF g
    <3>6. SoundItems(items)
      BY <1>2, <3>4, <3>5, ItemsChanged
    <3> QED BY <3>3, <3>6
  <2> QED BY <2>1, <2>2
<1>4. PICK items, edited : /\ SoundItems(items) /\ edited = [old EXCEPT !.items = items]
                           /\ reports' = [reports EXCEPT ![r] = edited]
  BY <1>3
<1>5. /\ edited \in Report /\ edited.parent = old.parent /\ edited.op = old.op
      /\ edited.rows = old.rows /\ edited.items = items
  BY <1>4 DEF Report, SoundItems
<1> QED BY <1>1, <1>2, <1>4, <1>5, ReportChanged DEF Quiet

LEMMA AutoReviewKeeps ==
  ASSUME ContentInv, NEW r \in DOMAIN reports, AutoReview(r)
  PROVE  Quiet
<1>1. PICK old \in Report : old = reports[r]
  BY ReportIs DEF ContentInv
<1>2. old.rows \in Distinct /\ SoundItems(old.items) /\ ReportsSound
  BY <1>1 DEF ContentInv, ReportsSound
<1> DEFINE pending == {i \in DOMAIN old.rows : Key(old.rows[i]) \notin old.audited}
<1>3. pending # {} /\ pending \in SUBSET DOMAIN old.rows /\ pending \in SUBSET Nat
  <2>1. DOMAIN old.rows \in SUBSET Nat
    BY <1>2 DEF Distinct
  <2> QED BY <1>1, <2>1 DEF AutoReview
<1>4. \E least \in pending : least = Min(pending)
  <2>1. \E m \in pending : \A h \in pending : m <= h
    BY <1>3, LeastNumber
  <2> HIDE DEF pending
  <2> QED BY <2>1 DEF Min
<1>5. PICK i \in DOMAIN old.rows : i = Min(pending)
  BY <1>3, <1>4
<1>6. PICK list, items, done, edited :
        /\ list = [old.rows EXCEPT ![i] = [old.rows[i] EXCEPT !.review = "keep", !.target = None]]
        /\ items = WithItem(r, Key(old.rows[i]), "keep")
        /\ done = old.audited \cup {Key(old.rows[i])}
        /\ edited = [old EXCEPT !.rows = list, !.items = items, !.audited = done]
  OBVIOUS
<1>7. list \in Distinct /\ SoundItems(items)
  <2>1. "keep" \in Reviews /\ None \in Events \cup {None}
    BY DEF Reviews
  <2> QED BY <1>2, <1>6, <2>1, RowReviewed, WithItemIs
<1>8. done \in SUBSET (Events \X Nat)
  <2>1. old.rows[i].event \in Events /\ old.rows[i].version \in Nat
    BY <1>2, RowIs DEF Distinct
  <2> QED BY <1>6, <2>1 DEF Report, Key
<1>9. reports' = [reports EXCEPT ![r] = edited]
  <2>1. reports' = [reports EXCEPT
       ![r].rows[i].review = "keep", ![r].rows[i].target = None,
       ![r].items = WithItem(r, Key(old.rows[i]), "keep"),
       ![r].audited = @ \cup {Key(old.rows[i])}]
    BY <1>1, <1>5 DEF AutoReview
  <2>2. PICK first, key :
          /\ first = [reports EXCEPT ![r].rows[i].review = "keep", ![r].rows[i].target = None]
          /\ key = Key(old.rows[i])
    OBVIOUS
  <2>3. first = [reports EXCEPT ![r] = [old EXCEPT !.rows = list]]
    BY <1>1, <1>2, <1>6, <2>2
  <2>4. reports' = [first EXCEPT ![r].items = WithItem(r, key, "keep"),
                                 ![r].audited = reports[r].audited \cup {key}]
    BY <2>1, <2>2
  <2>5. items = WithItem(r, key, "keep") /\ done = old.audited \cup {key}
    BY <1>6, <2>2
  <2>6. edited = [old EXCEPT !.rows = list, !.items = items, !.audited = done]
    BY <1>6
  <2> QED BY ONLY <1>1, <1>2, <2>3, <2>4, <2>5, <2>6, r \in DOMAIN reports, old \in Report DEF ReportsSound, Report
<1>10. /\ edited \in Report /\ edited.parent = old.parent /\ edited.op = old.op
       /\ edited.rows = list /\ edited.items = items
  BY <1>6, <1>7, <1>8 DEF Report, SoundItems, Distinct
<1> QED BY <1>1, <1>2, <1>7, <1>9, <1>10, ReportChanged DEF Quiet

(* Only a publication or a revision makes a report.                        *)
LEMMA StepIs ==
  ASSUME ContentInv, [ContentNext]_contentVars
  PROVE  \/ PublishOverview
         \/ \E r \in DOMAIN reports : \E degraded \in SUBSET Events : Revise(r, degraded)
         \/ Quiet
<1>1. CASE UNCHANGED contentVars
  BY <1>1 DEF contentVars, ContentInv, ReportsSound, Quiet
<1>2. CASE \E r \in DOMAIN reports : Archive(r) \/ TrashReport(r) \/ RestoreReport(r)
  BY <1>2, StatusKeeps
<1>3. CASE \E r \in DOMAIN reports : Edit(r)
  <2>1. PICK r \in DOMAIN reports : Edit(r)
    BY <1>3
  <2>2. CASE \E i \in DOMAIN reports[r].rows, review \in Reviews \ {NoReview}, target \in Events \cup {None} :
               ReviewRow(r, i, review, target)
    BY <2>2, ReviewRowKeeps
  <2>3. CASE \E item \in reports[r].items : ReviewItem(r, item, "exclude") \/ SetIncluded(r, item)
    BY <2>3, ReviewItemKeeps
  <2> QED BY <2>1, <2>2, <2>3 DEF Edit
<1>4. CASE \E r \in DOMAIN reports : AutoReview(r)
  BY <1>4, AutoReviewKeeps
<1>5. CASE \E legacy, survivor \in Events : Merge(legacy, survivor)
  BY <1>5 DEF Merge, ContentInv, ReportsSound, Quiet
<1> QED BY <1>1, <1>2, <1>3, <1>4, <1>5 DEF ContentNext

---------------------------------------------------------------------------
(* What a step makes.                                                      *)

(* What is made: a publication on the heads, or a revision of one report.  *)
PublishedRows(n, list, keys) ==
  /\ IsPublication(n) /\ \E new \in Seq(Row) : list = Baselines(Chronological(Heads), new)
  /\ keys \subseteq Keys(Candidates(list))
  /\ \E parent : DraftOf(reports'[n], parent, n, list, keys)
RevisedRows(n, r, list) ==
  /\ ~IsPublication(n) /\ reports'[n].parent = r
  /\ \E new : Accumulated(Inherited(r), new, VerdictsOf(r), list)
  /\ \E keys : DraftOf(reports'[n], r, reports[r].op, list, keys)

LEMMA PublishMakes ==
  ASSUME ContentAssumption, ContentInv, PublishOverview
  PROVE  /\ ReportsSound' /\ Len(reports') = Len(reports) + 1 /\ Len(reports') <= MaxReports
         /\ \E list, keys : PublishedRows(Len(reports'), list, keys)
<1>1. PICK draft, keys : \E new \in Seq(Row), parent \in Nat :
        /\ DraftOf(draft, parent, Len(reports) + 1, Baselines(Chronological(Heads), new), keys)
        /\ keys \subseteq Keys(Candidates(Baselines(Chronological(Heads), new)))
        /\ parent <= Len(reports) /\ Len(reports) < MaxReports /\ reports' = Append(reports, draft)
  BY PublishIs
<1>2. PICK new \in Seq(Row), parent \in Nat :
        /\ DraftOf(draft, parent, Len(reports) + 1, Baselines(Chronological(Heads), new), keys)
        /\ keys \subseteq Keys(Candidates(Baselines(Chronological(Heads), new)))
        /\ parent <= Len(reports) /\ Len(reports) < MaxReports /\ reports' = Append(reports, draft)
  BY <1>1
<1>3. /\ draft \in Report /\ draft.rows \in Distinct /\ SoundItems(draft.items)
      /\ draft.parent = parent /\ draft.op = Len(reports) + 1
  BY <1>2 DEF DraftOf
<1>4. Len(reports) \in Nat /\ ReportsSound /\ DOMAIN reports = 1 .. Len(reports)
  BY DEF ContentInv, ReportsSound
<1>5. /\ ReportsSound' /\ Len(reports') = Len(reports) + 1 /\ reports'[Len(reports')] = draft
  <2>1. draft.parent <= Len(reports) /\ draft.op <= Len(reports) + 1 /\ reports' = Append(reports, draft)
    BY <1>2, <1>3, <1>4
  <2> QED BY <1>3, <1>4, <2>1, ReportAdded
<1>6. IsPublication(Len(reports'))
  <2>1. ASSUME NEW r \in DOMAIN reports PROVE reports[r].op # Len(reports) + 1
    <3>1. reports[r].op <= r /\ reports[r].op \in Nat /\ r \in 1 .. Len(reports)
      BY <1>4, ReportIs DEF ReportsSound
    <3> QED BY <1>4, <3>1
  <2> QED BY <1>3, <1>5, <2>1 DEF IsPublication
<1>7. PublishedRows(Len(reports'), Baselines(Chronological(Heads), new), keys)
  BY <1>2, <1>5, <1>6 DEF PublishedRows
<1>8. Len(reports') <= MaxReports
  BY <1>2, <1>4, <1>5 DEF ContentAssumption
<1> QED BY <1>5, <1>7, <1>8

LEMMA ReviseMakes ==
  ASSUME ContentAssumption, ContentInv, NEW r \in DOMAIN reports, NEW degraded, Revise(r, degraded)
  PROVE  /\ ReportsSound' /\ Len(reports') = Len(reports) + 1 /\ Len(reports') <= MaxReports
         /\ \E list : RevisedRows(Len(reports'), r, list)
<1>1. PICK draft, list : \E new \in Seq(Row) :
        /\ Accumulated(Inherited(r), new, VerdictsOf(r), list)
        /\ DraftOf(draft, r, reports[r].op, list, Keys(reports[r].items))
        /\ Len(reports) < MaxReports /\ reports' = Append(reports, draft)
  BY ReviseIs
<1>2. /\ draft \in Report /\ draft.rows \in Distinct /\ SoundItems(draft.items)
      /\ draft.parent = r /\ draft.op = reports[r].op
  BY <1>1 DEF DraftOf
<1>3. Len(reports) \in Nat /\ ReportsSound /\ DOMAIN reports = 1 .. Len(reports)
  BY DEF ContentInv, ReportsSound
<1>4. /\ ReportsSound' /\ Len(reports') = Len(reports) + 1 /\ reports'[Len(reports')] = draft
  <2>1. reports[r].op \in Nat /\ reports[r].op <= r
    BY <1>3, ReportIs DEF ReportsSound
  <2>2. draft.parent <= Len(reports) /\ draft.op <= Len(reports) + 1 /\ reports' = Append(reports, draft)
    BY <1>1, <1>2, <1>3, <2>1
  <2> QED BY <1>2, <1>3, <2>2, ReportAdded
<1>5. ~IsPublication(Len(reports'))
  BY <1>2, <1>4 DEF IsPublication
<1>6. RevisedRows(Len(reports'), r, list)
  BY <1>1, <1>2, <1>4, <1>5 DEF RevisedRows
<1>7. Len(reports') <= MaxReports
  BY <1>1, <1>3, <1>4 DEF ContentAssumption
<1> QED BY <1>4, <1>6, <1>7

LEMMA MadeIs ==
  ASSUME ContentAssumption, ContentInv, [ContentNext]_contentVars, NEW n, Made(n)
  PROVE  \/ \E list, keys : PublishedRows(n, list, keys)
         \/ \E r \in DOMAIN reports : \E list : RevisedRows(n, r, list)
<1>1. n = Len(reports') /\ Len(reports) < Len(reports')
  BY DEF Made
<1>2. CASE PublishOverview
  BY <1>1, <1>2, PublishMakes
<1>3. CASE \E r \in DOMAIN reports : \E degraded \in SUBSET Events : Revise(r, degraded)
  BY <1>1, <1>3, ReviseMakes
<1>4. CASE Quiet
  <2>1. Len(reports) \in Nat
    BY DEF ContentInv, ReportsSound
  <2> QED BY <1>1, <1>4, <2>1 DEF Quiet
<1> QED BY <1>2, <1>3, <1>4, StepIs

(* The invariant.                                                          *)
LEMMA ContentInvInit == ContentAssumption /\ ContentInit => ContentInv
<1> SUFFICES ASSUME ContentAssumption, ContentInit PROVE ContentInv
  OBVIOUS
<1>1. reports \in Seq(Report) /\ Len(reports) = 0 /\ DOMAIN reports = {}
  BY DEF ContentInit
<1>2. ReportsSound
  BY <1>1 DEF ReportsSound
<1> QED BY <1>1, <1>2 DEF ContentInit, ContentInv, ContentAssumption

Kinds ==
  /\ versions \in [Events -> Nat] /\ current \in SUBSET Events
  /\ merges \in SUBSET (Events \X Events) /\ rare \in 0 .. MaxRare

LEMMA PublishKinds ==
  ASSUME ContentAssumption, ContentInv, PublishOverview PROVE Kinds'
<1>1. PICK some \in SUBSET Events : \E degraded \in SUBSET some : \E move \in [some -> {0, 1}] :
        Generate([e \in Events |-> IF e \in some THEN versions[e] + move[e] ELSE 0], degraded)
  BY DEF PublishOverview
<1>2. PICK degraded \in SUBSET some, move \in [some -> {0, 1}] :
        Generate([e \in Events |-> IF e \in some THEN versions[e] + move[e] ELSE 0], degraded)
  BY <1>1
<1>3. PICK snapshot : snapshot = [e \in Events |-> IF e \in some THEN versions[e] + move[e] ELSE 0]
  OBVIOUS
<1>4. snapshot \in [Events -> Nat] /\ Generate(snapshot, degraded)
  BY <1>2, <1>3 DEF ContentInv
<1>5. PICK new, list : new \in Seq(Row) /\ new = Materialized(snapshot, degraded) /\ list = Baselines(Chronological(Heads), new)
  BY <1>4, MaterializedIs
<1>6. ReportsSound /\ Heads \in SUBSET DOMAIN reports
  BY DEF ContentInv, Heads, Archived, Live
<1>7. list \in Distinct
  BY <1>5, <1>6, LastOf, SomeReports, PublishedKeeps
<1>8. PICK decided : Spend(Cardinality({e \in Events : snapshot[e] > versions[e] /\ versions[e] > 0})
                             + Cardinality(degraded) + Cardinality(Candidates(list) \ decided))
  BY <1>4, <1>5 DEF Generate
<1>9. PICK a, b, c : /\ a = Cardinality({e \in Events : snapshot[e] > versions[e] /\ versions[e] > 0})
                     /\ b = Cardinality(degraded) /\ c = Cardinality(Candidates(list) \ decided)
  OBVIOUS
<1>10. a \in Nat /\ b \in Nat /\ c \in Nat
  <2>1. IsFiniteSet(Events)
    BY DEF ContentAssumption
  <2>2. {e \in Events : snapshot[e] > versions[e] /\ versions[e] > 0} \in SUBSET Events
    OBVIOUS
  <2>3. Candidates(list) \ decided \in SUBSET ToSet(list)
    BY DEF Candidates
  <2> QED BY <1>7, <1>9, <2>1, <2>2, <2>3, RowsAreFinite, FS_Subset, FS_CardinalityType
<1>11. rare' \in 0 .. MaxRare
  <2>1. rare + (a + b + c) <= MaxRare /\ rare' = rare + (a + b + c)
    BY <1>8, <1>9 DEF Spend
  <2>2. rare \in Nat /\ MaxRare \in Nat
    BY DEF ContentInv, ContentAssumption
  <2> QED BY ONLY <1>10, <2>1, <2>2
<1>12. /\ versions' = [e \in Events |-> IF e \in Covered(snapshot) THEN snapshot[e] ELSE versions[e]]
       /\ current' = current \cup Covered(snapshot) /\ merges' = merges
  BY <1>4 DEF Generate
<1>13. Covered(snapshot) \in SUBSET Events
  BY DEF Covered
<1>14. versions \in [Events -> Nat] /\ current \in SUBSET Events /\ merges \in SUBSET (Events \X Events)
  BY DEF ContentInv
<1>15. versions' \in [Events -> Nat]
  BY <1>4, <1>12, <1>14
<1> QED BY <1>11, <1>12, <1>13, <1>14, <1>15 DEF Kinds

LEMMA SpendIs ==
  ASSUME MaxRare \in Nat, rare \in 0 .. MaxRare, NEW m \in Nat, Spend(m) PROVE rare' \in 0 .. MaxRare
BY DEF Spend

LEMMA ContentInvNext ==
  ASSUME ContentAssumption, ContentInv, [ContentNext]_contentVars PROVE ContentInv'
<1>1. ReportsSound' /\ Len(reports') <= MaxReports
  <2>1. CASE PublishOverview
    BY <2>1, PublishMakes
  <2>2. CASE \E r \in DOMAIN reports : \E degraded \in SUBSET Events : Revise(r, degraded)
    BY <2>2, ReviseMakes
  <2>3. CASE Quiet
    BY <2>3 DEF Quiet, ContentInv
  <2> QED BY <2>1, <2>2, <2>3, StepIs
<1>2. Kinds /\ MaxRare \in Nat /\ rare \in 0 .. MaxRare
  BY DEF ContentInv, ContentAssumption, Kinds
<1>3. ASSUME UNCHANGED contentVars PROVE Kinds'
  BY <1>2, <1>3 DEF contentVars, Kinds
<1>4. ASSUME PublishOverview PROVE Kinds'
  BY <1>4, PublishKinds
<1>5. ASSUME NEW r \in DOMAIN reports, NEW degraded \in SUBSET Events, Revise(r, degraded) PROVE Kinds'
  <2>1. Cardinality(degraded) \in Nat
    BY FS_Subset, FS_CardinalityType DEF ContentAssumption
  <2>2. Spend(Cardinality(degraded)) /\ UNCHANGED <<versions, current, merges>>
    BY <1>5 DEF Revise
  <2> QED BY <1>2, <2>1, <2>2, SpendIs DEF Kinds
<1>6. ASSUME NEW r \in DOMAIN reports, Archive(r) \/ TrashReport(r) \/ RestoreReport(r) PROVE Kinds'
  BY <1>2, <1>6, SpendIs DEF Kinds, Archive, TrashReport, RestoreReport
<1>7. ASSUME NEW r \in DOMAIN reports, Edit(r) PROVE Kinds'
  BY <1>2, <1>7, SpendIs DEF Kinds, Edit, ReviewRow, ReviewItem, SetIncluded
<1>8. ASSUME NEW r \in DOMAIN reports, AutoReview(r) PROVE Kinds'
  BY <1>2, <1>8 DEF Kinds, AutoReview
<1>9. ASSUME NEW legacy \in Events, NEW survivor \in Events, Merge(legacy, survivor) PROVE Kinds'
  <2>1. /\ merges' = merges \cup {<<legacy, survivor>>} /\ current' = current \ {legacy}
        /\ versions' = [versions EXCEPT ![survivor] = @ + 1] /\ Spend(1)
    BY <1>9 DEF Merge
  <2> QED BY <1>2, <2>1, SpendIs DEF Kinds
<1>10. Kinds'
  BY <1>3, <1>4, <1>5, <1>6, <1>7, <1>8, <1>9 DEF ContentNext
<1> QED BY <1>1, <1>10 DEF ContentInv, Kinds

---------------------------------------------------------------------------
(* The properties.                                                         *)

LEMMA ShownIs == ASSUME NEW list PROVE Shown(ToSet(list)) = Represented(list)
BY DEF Shown, ToSet, Represented

(* The rows of the heads, and those of the draft.                          *)
LEMMA PublishedFacts ==
  ASSUME ContentInv, NEW n, NEW list, NEW keys, PublishedRows(n, list, keys)
  PROVE  /\ InOrderOf(Chronological(Heads), Heads) /\ AllDistinct
         /\ Heads \in SUBSET Nat /\ \A r \in Heads : r \in DOMAIN reports /\ reports[r].op \in Nat
         /\ list \in Distinct /\ MergedAreShut(list)
         /\ \A r \in Heads : Represented(reports[r].rows) \subseteq Represented(list)
         /\ \E parent : DraftOf(reports'[n], parent, n, list, keys)
<1>1. ReportsSound /\ Heads \in SUBSET DOMAIN reports
  BY DEF ContentInv, Heads, Archived, Live
<1>2. /\ InOrderOf(Chronological(Heads), Heads) /\ AllDistinct
      /\ Heads \in SUBSET Nat /\ \A r \in Heads : r \in DOMAIN reports /\ reports[r].op \in Nat
  BY <1>1, LastOf, SomeReports
<1>3. PICK new \in Seq(Row) : list = Baselines(Chronological(Heads), new)
  BY DEF PublishedRows
<1>4. /\ list \in Distinct /\ MergedAreShut(list)
      /\ \A r \in Heads : Represented(reports[r].rows) \subseteq Represented(list)
  BY <1>2, <1>3, PublishedKeeps
<1> QED BY <1>2, <1>4 DEF PublishedRows

LEMMA StepKeepsAll ==
  ASSUME ContentAssumption, ContentInv, [ContentNext]_contentVars, NEW n, Made(n)
  PROVE  IF IsPublication(n) THEN \A r \in Heads : Shown(RowsOf(r)) \subseteq Shown(NewRows(n))
         ELSE EventsOf(reports[reports'[n].parent].rows) \subseteq EventsOf(reports'[n].rows)
<1>1. CASE \E list, keys : PublishedRows(n, list, keys)
  <2>1. PICK list, keys : PublishedRows(n, list, keys)
    BY <1>1
  <2>2. /\ \A r \in Heads : Represented(reports[r].rows) \subseteq Represented(list)
        /\ \E parent : DraftOf(reports'[n], parent, n, list, keys)
    BY <2>1, PublishedFacts
  <2>3. Represented(reports'[n].rows) = Represented(list) /\ IsPublication(n)
    BY <2>1, <2>2 DEF DraftOf, PublishedRows
  <2>4. ASSUME NEW r \in Heads PROVE Shown(RowsOf(r)) \subseteq Shown(NewRows(n))
    <3>1. Shown(RowsOf(r)) = Represented(reports[r].rows) /\ Shown(NewRows(n)) = Represented(reports'[n].rows)
      BY ShownIs DEF RowsOf, NewRows
    <3> QED BY <2>2, <2>3, <3>1
  <2> QED BY <2>3, <2>4
<1>2. CASE \E r \in DOMAIN reports : \E list : RevisedRows(n, r, list)
  <2>0. PICK r \in DOMAIN reports : \E list : RevisedRows(n, r, list)
    BY <1>2
  <2>1. PICK list : RevisedRows(n, r, list)
    BY <2>0
  <2>2. EventsOf(Inherited(r)) = EventsOf(reports[r].rows)
    BY ReportIs, InheritedIs DEF ContentInv
  <2>3. EventsOf(Inherited(r)) \subseteq EventsOf(list)
    BY <2>1 DEF RevisedRows, Accumulated, Grown
  <2>4. EventsOf(reports'[n].rows) = EventsOf(list) /\ reports'[n].parent = r /\ ~IsPublication(n)
    BY <2>1 DEF RevisedRows, DraftOf
  <2> QED BY <2>2, <2>3, <2>4
<1> QED BY <1>1, <1>2, MadeIs

(* An item is of a row that is not shut.                                   *)
LEMMA ItemHasRow ==
  ASSUME ContentInv, NEW n, NEW list, NEW keys, PublishedRows(n, list, keys), NEW item \in reports'[n].items
  PROVE  \E x \in DOMAIN list : /\ Key(list[x]) = Key(item) /\ ~Shut(list[x]) /\ ~list[x].degraded
                                /\ Survivor(item.event) = item.event
<1>1. Keys(reports'[n].items) = keys /\ keys \subseteq Keys(Candidates(list)) /\ MergedAreShut(list)
  BY PublishedFacts DEF PublishedRows, DraftOf
<1>2. Key(item) \in keys
  BY <1>1 DEF Keys
<1>3. PICK row \in Candidates(list) : Key(row) = Key(item)
  BY <1>1, <1>2 DEF Keys
<1>4. PICK x \in DOMAIN list : list[x] = row /\ ~Shut(row) /\ ~row.degraded
  BY DEF Candidates, ToSet
<1>5. list[x].event = item.event
  BY <1>3, <1>4 DEF Key
<1>6. Survivor(list[x].event) = list[x].event
  BY <1>1, <1>4 DEF MergedAreShut
<1> QED BY <1>3, <1>4, <1>5, <1>6

LEMMA StepHasOneItemPerEvent ==
  ASSUME ContentAssumption, ContentInv, [ContentNext]_contentVars, NEW n, Made(n), IsPublication(n),
         NEW items, items = reports'[n].items
  PROVE  /\ Cardinality(Shown(items)) = Cardinality(items)
         /\ Keys(items) = Keys({row \in NewRows(n) : row.disp = "selected"})
         /\ \A row \in NewRows(n) : row.disp = "selected" => ~row.degraded
<1>1. PICK list, keys : PublishedRows(n, list, keys)
  BY MadeIs DEF RevisedRows
<1>2. list \in Distinct /\ \E parent : DraftOf(reports'[n], parent, n, list, keys)
  BY <1>1, PublishedFacts
<1>3. OneRowPerEvent(list)
  BY <1>2 DEF Distinct
<1>4. PICK after : after = reports'[n].rows
  OBVIOUS
<1>5. /\ SoundItems(items) /\ Keys(items) = keys /\ DOMAIN after = DOMAIN list
      /\ \A i \in DOMAIN list :
           /\ Alike(after[i], list[i])
           /\ after[i].disp = "selected" <=>
                ~Shut(list[i]) /\ ~list[i].degraded /\ Key(list[i]) \in keys
  BY <1>2, <1>4 DEF DraftOf
<1>6. IsFiniteSet(items) /\ \A a, b \in items : Key(a) = Key(b) => a = b
  BY <1>5 DEF SoundItems
<1>7. \A item \in items :
        \E x \in DOMAIN list : /\ Key(list[x]) = Key(item) /\ ~Shut(list[x]) /\ ~list[x].degraded
                               /\ Survivor(item.event) = item.event
  BY <1>1, ItemHasRow
<1>8. ASSUME NEW a \in items, NEW b \in items, Survivor(a.event) = Survivor(b.event) PROVE a = b
  <2>1. PICK x \in DOMAIN list : Key(list[x]) = Key(a) /\ Survivor(a.event) = a.event
    BY <1>7
  <2>2. PICK y \in DOMAIN list : Key(list[y]) = Key(b) /\ Survivor(b.event) = b.event
    BY <1>7
  <2>3. list[x].event = list[y].event
    BY <1>8, <2>1, <2>2 DEF Key
  <2>4. x = y
    BY <1>3, <2>3 DEF OneRowPerEvent
  <2> QED BY <1>6, <2>1, <2>2, <2>4
<1>9. Cardinality(Shown(items)) = Cardinality(items)
  <2> DEFINE g == [item \in items |-> Survivor(item.event)]
  <2>1. g \in [items -> Shown(items)] /\ \A s \in Shown(items) : \E item \in items : g[item] = s
    BY DEF Shown
  <2>2. \A a, b \in items : g[a] = g[b] => a = b
    BY <1>8
  <2> HIDE DEF g
  <2>3. g \in Bijection(items, Shown(items))
    BY <2>1, <2>2, Fun_IsBij
  <2>4. ExistsBijection(items, Shown(items))
    BY <2>3 DEF ExistsBijection
  <2> QED BY <1>6, <2>4, FS_Bijection
<1>10. NewRows(n) = {after[i] : i \in DOMAIN list}
  BY <1>4, <1>5 DEF NewRows, ToSet
<1>11. \A i \in DOMAIN list : Key(after[i]) = Key(list[i]) /\ after[i].degraded = list[i].degraded
  BY <1>5 DEF Alike, Key
<1> DEFINE selected == {row \in NewRows(n) : row.disp = "selected"}
<1>12. ASSUME NEW k \in Keys(items) PROVE k \in Keys(selected)
  <2>1. PICK item \in items : k = Key(item)
    BY DEF Keys
  <2>2. PICK x \in DOMAIN list : Key(list[x]) = k /\ ~Shut(list[x]) /\ ~list[x].degraded
    BY <1>7, <2>1
  <2>3. after[x] \in selected /\ Key(after[x]) = k
    BY <1>5, <1>10, <1>11, <2>2
  <2> HIDE DEF selected
  <2> QED BY <2>3 DEF Keys
<1>13. ASSUME NEW k \in Keys(selected) PROVE k \in Keys(items)
  <2>1. PICK row \in selected : k = Key(row)
    BY DEF Keys
  <2>2. PICK i \in DOMAIN list : row = after[i] /\ after[i].disp = "selected"
    BY <1>10
  <2> QED BY <1>5, <1>11, <2>1, <2>2
<1>14. \A row \in NewRows(n) : row.disp = "selected" => ~row.degraded
  BY <1>5, <1>10, <1>11
<1> QED BY <1>9, <1>12, <1>13, <1>14

LEMMA RowsNoWorse ==
  ASSUME NEW r, NEW after, NEW list, NoWorseThan(reports[r].rows, list), DOMAIN after = DOMAIN list,
         \A i \in DOMAIN list : Alike(after[i], list[i]),
         NEW row \in RowsOf(r), NEW new \in ToSet(after), new.event = row.event
  PROVE  new.version >= row.version /\ (new.degraded => row.degraded)
<1>1. PICK p \in DOMAIN reports[r].rows : reports[r].rows[p] = row
  BY DEF RowsOf, ToSet
<1>2. PICK x \in DOMAIN list : after[x] = new
  BY DEF ToSet
<1>3. Alike(new, list[x])
  BY <1>2
<1> QED BY <1>1, <1>2, <1>3 DEF NoWorseThan, Alike

LEMMA StepKeepsComplete ==
  ASSUME ContentAssumption, ContentInv, [ContentNext]_contentVars, NEW n, Made(n),
         NEW r \in DOMAIN reports, IF IsPublication(n) THEN Heads = {r} ELSE r = reports'[n].parent,
         NEW row \in RowsOf(r), NEW new \in NewRows(n), new.event = row.event
  PROVE  new.version >= row.version /\ (new.degraded => row.degraded)
<1>1. CASE \E list, keys : PublishedRows(n, list, keys)
  <2>1. PICK list, keys : PublishedRows(n, list, keys)
    BY <1>1
  <2>2. Heads = {r}
    BY <2>1 DEF PublishedRows
  <2>3. PICK added \in Seq(Row) : list = Baselines(Chronological(Heads), added)
    BY <2>1 DEF PublishedRows
  <2>4. NoWorseThan(reports[r].rows, list)
    BY <2>1, <2>2, <2>3, PublishedFacts, PublishedOnOne
  <2>5. DOMAIN reports'[n].rows = DOMAIN list /\ \A i \in DOMAIN list : Alike(reports'[n].rows[i], list[i])
    BY <2>1 DEF PublishedRows, DraftOf
  <2> QED BY <2>4, <2>5, RowsNoWorse DEF NewRows
<1>2. CASE \E q \in DOMAIN reports : \E list : RevisedRows(n, q, list)
  <2>0. PICK q \in DOMAIN reports : \E list : RevisedRows(n, q, list)
    BY <1>2
  <2>1. PICK list : RevisedRows(n, q, list)
    BY <2>0
  <2>2. q = r
    BY <2>1 DEF RevisedRows
  <2>3. PICK old, map : old = Inherited(r) /\ map = VerdictsOf(r)
    OBVIOUS
  <2>4. NoWorse(old, list, map)
    BY <2>1, <2>2, <2>3 DEF RevisedRows, Accumulated, Grown
  <2>5. /\ DOMAIN old = DOMAIN reports[r].rows
        /\ \A i \in DOMAIN reports[r].rows : Alike(old[i], reports[r].rows[i])
    BY <2>3, ReportIs, InheritedIs DEF ContentInv
  <2>6. NoWorseThan(reports[r].rows, list)
    BY <2>4, <2>5 DEF NoWorse, NoWorseThan, Alike
  <2>7. DOMAIN reports'[n].rows = DOMAIN list /\ \A i \in DOMAIN list : Alike(reports'[n].rows[i], list[i])
    BY <2>1 DEF RevisedRows, DraftOf
  <2> QED BY <2>6, <2>7, RowsNoWorse DEF NewRows
<1> QED BY <1>1, <1>2, MadeIs

LEMMA StepKeepsOut ==
  ASSUME ContentAssumption, ContentInv, [ContentNext]_contentVars, NEW n, Made(n), IsPublication(n),
         NEW item \in reports'[n].items, NEW r \in Heads,
         \A s \in Heads : Before(r, s) => item.event \notin EventsOf(reports[s].rows),
         \E row \in RowsOf(r) : row.event = item.event /\ ~row.degraded /\ Rejected(row.review),
         NEW row \in RowsOf(r), row.event = item.event
  PROVE  item.version > row.version
<1>1. PICK list, keys : PublishedRows(n, list, keys)
  BY MadeIs DEF RevisedRows
<1>2. /\ InOrderOf(Chronological(Heads), Heads) /\ AllDistinct
      /\ Heads \in SUBSET Nat /\ \A s \in Heads : s \in DOMAIN reports /\ reports[s].op \in Nat
  BY <1>1, PublishedFacts
<1>3. PICK new \in Seq(Row) : list = Baselines(Chronological(Heads), new)
  BY <1>1 DEF PublishedRows
<1>4. PICK x \in DOMAIN list : Key(list[x]) = Key(item) /\ ~Shut(list[x])
  BY <1>1, ItemHasRow
<1>5. list[x].event = item.event /\ list[x].version = item.version
  BY <1>4 DEF Key
<1>6. PICK other \in RowsOf(r) : other.event = item.event /\ ~other.degraded /\ Rejected(other.review)
  OBVIOUS
<1>7. other = row
  BY <1>2, <1>6, OneOfEach DEF AllDistinct
<1>8. PICK p \in DOMAIN reports[r].rows : row = reports[r].rows[p]
  BY DEF RowsOf, ToSet
<1>9. \A s \in Heads : Before(r, s) => row.event \notin EventsOf(reports[s].rows)
  OBVIOUS
<1>10. /\ ~row.degraded /\ Rejected(row.review) /\ list[x].event = row.event
       /\ \A s \in Heads : reports[s].op \in Nat
  BY <1>2, <1>5, <1>6, <1>7
<1>11. list[x].version > row.version
  BY ONLY <1>2, <1>3, <1>4, <1>8, <1>9, <1>10, PublishedRejects, r \in Heads
<1> QED BY <1>5, <1>11

---------------------------------------------------------------------------
(* What holds of the reports of a day.                                     *)

LEMMA ContentInvariant == ContentSpec => []ContentInv
<1>1. ContentInit => ContentInv
  BY ContentAssumption, ContentInvInit
<1>2. ContentInv /\ [ContentNext]_contentVars => ContentInv'
  BY ContentAssumption, ContentInvNext
<1> QED BY <1>1, <1>2, PTL DEF ContentSpec

(* Reports are what the type invariant says: one row per event, one item   *)
(* per version, and each is of a parent and an operation before it.        *)
THEOREM ContentTypeOK == ContentSpec => []TypeOK
<1>1. ContentInv => TypeOK
  <2> SUFFICES ASSUME ContentInv PROVE TypeOK
    OBVIOUS
  <2>1. ASSUME NEW r \in DOMAIN reports
        PROVE  /\ reports[r].parent < r /\ reports[r].op <= r /\ OneRowPerEvent(reports[r].rows)
               /\ Cardinality(Keys(reports[r].items)) = Cardinality(reports[r].items)
    <3>1. reports[r].rows \in Distinct /\ SoundItems(reports[r].items)
      BY DEF ContentInv, ReportsSound
    <3> QED BY <3>1, KeysOfItems DEF ContentInv, ReportsSound, Distinct
  <2> QED BY <2>1 DEF ContentInv, ReportsSound, TypeOK
<1> QED BY <1>1, ContentInvariant, PTL

(* The overview of a day accumulates (accumulate_daily_overview): nothing  *)
(* is lost, told twice or made worse from one report to the next.          *)
THEOREM DaysAccumulate == ContentSpec => DayIsCumulative
<1>1. ContentInv /\ [ContentNext]_contentVars =>
        \A n \in 1..MaxReports : Made(n) =>
          IF IsPublication(n) THEN \A r \in Heads : Shown(RowsOf(r)) \subseteq Shown(NewRows(n))
          ELSE EventsOf(reports[reports'[n].parent].rows) \subseteq EventsOf(reports'[n].rows)
  BY ContentAssumption, StepKeepsAll
<1>2. ContentInv /\ [ContentNext]_contentVars =>
        \A n \in 1..MaxReports : Made(n) /\ IsPublication(n) =>
          LET items == reports'[n].items IN
            /\ Cardinality(Shown(items)) = Cardinality(items)
            /\ Keys(items) = Keys({row \in NewRows(n) : row.disp = "selected"})
            /\ \A row \in NewRows(n) : row.disp = "selected" => ~row.degraded
  BY ContentAssumption, StepHasOneItemPerEvent
<1>3. ContentInv /\ [ContentNext]_contentVars =>
        \A n \in 1..MaxReports, r \in DOMAIN reports :
          Made(n) /\ (IF IsPublication(n) THEN Heads = {r} ELSE r = reports'[n].parent) =>
            \A row \in RowsOf(r), new \in NewRows(n) :
              new.event = row.event => new.version >= row.version /\ (new.degraded => row.degraded)
  BY ContentAssumption, StepKeepsComplete
<1>4. ContentSpec => NothingIsLost
  BY <1>1, ContentInvariant, PTL DEF ContentSpec, NothingIsLost
<1>5. ContentSpec => OneItemPerEvent
  BY <1>2, ContentInvariant, PTL DEF ContentSpec, OneItemPerEvent
<1>6. ContentSpec => CompleteIsKept
  BY <1>3, ContentInvariant, PTL DEF ContentSpec, CompleteIsKept
<1> QED BY <1>4, <1>5, <1>6 DEF DayIsCumulative

(* What the latest review of the day rejects stays out of the next         *)
(* decision edition until it has a newer version.                          *)
THEOREM RejectionStands == ContentSpec => RejectedStaysOut
<1>1. ContentInv /\ [ContentNext]_contentVars =>
        \A n \in 1..MaxReports : Made(n) /\ IsPublication(n) =>
          \A item \in reports'[n].items, r \in Heads :
            /\ \A s \in Heads : Before(r, s) => item.event \notin EventsOf(reports[s].rows)
            /\ \E row \in RowsOf(r) : row.event = item.event /\ ~row.degraded /\ Rejected(row.review)
            => \A row \in RowsOf(r) : row.event = item.event => item.version > row.version
  BY ContentAssumption, StepKeepsOut
<1> QED BY <1>1, ContentInvariant, PTL DEF ContentSpec, RejectedStaysOut
=============================================================================
