----------------------------- MODULE ModelCalls -----------------------------
(***************************************************************************)
(* How the text of a language model comes into events and daily reports:   *)
(* the calls of MiniMaxClient.structured (ai/minimax.py), the batch of     *)
(* events of a pipeline (EventEnrichmentBatch, events/minimax.py) and the  *)
(* batches of the report of a run of the autopilot                         *)
(* (DailyReportChineseEnricher, daily_reports/chinese_enrichment.py, and   *)
(* DailyAutopilotHandler._write_reviews), with their fallbacks, their      *)
(* limits, their checkpoints and a worker that dies.                       *)
(*                                                                         *)
(* The candidates of a batch are tasks of one event loop: they interleave  *)
(* where they await a slot or an answer.  There is one handler at a time:  *)
(* what a handler that lost its lease goes on asking beside the next       *)
(* attempt is not counted.                                                 *)
(***************************************************************************)
EXTENDS Naturals, SequencesExt, FiniteSetsExt

CONSTANTS
  Candidates,  \* in their order: a set 1 .. n
  Budget,      \* of candidates of a report the model is asked about
  Slots,       \* calls at a time
  MaxCrashes   \*                                                   (bound)

ASSUME CallsAssumption ==
  /\ IsFiniteSet(Candidates) /\ Candidates = 1 .. Cardinality(Candidates)
  /\ Budget \in Nat /\ Slots \in {1, 2} /\ MaxCrashes \in Nat

VARIABLES
  job,      \* "none", "events" or "report"
  batch,    \* the candidates of the batch
  task,     \* of each: "out", "waiting", "first", "second", "done", "stopped"
  usages,   \* of each: the outcomes of its calls that were recorded
  origin,   \* of each: of its text
  stored,   \* what is kept of each: <<>> or <<origin, usages>>
  aborted,  \* a checkpoint of the batch raised
  requests, \* to the model, for each                            (history)
  crashes
calls == <<task, usages, origin>>
callVars == <<job, batch, task, usages, origin, stored, aborted, requests, crashes>>

CallInit ==
  /\ job = "none" /\ batch = {} /\ aborted = FALSE /\ crashes = 0
  /\ task = [c \in Candidates |-> "out"] /\ usages = [c \in Candidates |-> <<>>]
  /\ origin = [c \in Candidates |-> "none"]
  /\ stored = [c \in Candidates |-> <<>>] /\ requests = [c \in Candidates |-> 0]

Pending == {c \in Candidates : stored[c] = <<>>}
Lowest(n, set) == {c \in set : Cardinality({d \in set : d < c}) < n}

(* A wrong one: the budget is that of the candidates that are left. *)
AffordableOfPending(c) == c \in Lowest(Budget, Pending)

(* model_keys: the first candidates of the report, stored or not.          *)
Affordable(c) == c \in Lowest(Budget, Candidates)

(* The batch: all events that are not published with their present items,  *)
(* or the next two candidates of the report; those over the budget get a   *)
(* text made by the rules and no call.                                     *)
Open(j) ==
  /\ task' = [c \in Candidates |->
       IF c \notin batch' THEN "out" ELSE IF j = "report" /\ ~Affordable(c) THEN "done" ELSE "waiting"]
  /\ origin' = [c \in Candidates |-> IF task'[c] = "done" THEN "budget_limit" ELSE "none"]
  /\ usages' = [c \in Candidates |-> <<>>]
  /\ UNCHANGED <<stored, requests, crashes>>
Begin(j) ==
  /\ job \in {"none", j} /\ batch = {} /\ Pending # {}
  /\ job' = j /\ batch' = IF j = "events" THEN Pending ELSE Lowest(2, Pending)
  /\ aborted' = FALSE /\ Open(j)

Asking == {c \in batch : task[c] \in {"first", "second"}}

(* A task gets its slot and passes the checkpoint: it asks, or finds that  *)
(* no key is configured.  The batch of the events looks at the flag first. *)
Enter(c) ==
  /\ c \in batch /\ task[c] = "waiting" /\ Cardinality(Asking) < Slots
  /\ job = "events" => ~aborted
  /\ \/ /\ task' = [task EXCEPT ![c] = "first"] /\ requests' = [requests EXCEPT ![c] = @ + 1]
        /\ UNCHANGED <<usages, origin>>
     \/ /\ task' = [task EXCEPT ![c] = "done"] /\ usages' = [usages EXCEPT ![c] = <<"fallback">>]
        /\ origin' = [origin EXCEPT ![c] = "rule_fallback"] /\ UNCHANGED requests
  /\ UNCHANGED <<job, batch, stored, aborted, crashes>>

(* The checkpoint raises: for a request to cancel, or a lease that is lost.*)
Raise(c) ==
  /\ c \in batch /\ task[c] = "waiting" /\ Cardinality(Asking) < Slots
  /\ task' = [task EXCEPT ![c] = "stopped"] /\ aborted' = TRUE
  /\ UNCHANGED <<job, batch, usages, origin, stored, requests, crashes>>

End(c, recorded, by) ==
  /\ task' = [task EXCEPT ![c] = "done"] /\ usages' = [usages EXCEPT ![c] = recorded]
  /\ origin' = [origin EXCEPT ![c] = by]

(* _fallback_result *)
Replaced(recorded) ==
  IF recorded = <<>> THEN <<"fallback">> ELSE [recorded EXCEPT ![Len(recorded)] = "fallback"]

(* An answer that fits the schema.  That of a report is checked field by   *)
(* field for Chinese: what does not pass is replaced, all or in part.      *)
Answered(c) ==
  /\ c \in Asking
  /\ LET recorded == Append(usages[c], "success") IN
       \/ End(c, recorded, "model")
       \/ job = "report" /\ End(c, recorded, "model_partial")
       \/ job = "report" /\ End(c, Replaced(recorded), "rule_fallback")
  /\ UNCHANGED <<job, batch, stored, aborted, requests, crashes>>

(* One that is no JSON or not of the schema is sent back for a repair,     *)
(* once, if time is left.                                                  *)
Repair(c) ==
  /\ task[c] = "first"
  /\ LET recorded == Append(usages[c], "retry") IN
       \/ /\ task' = [task EXCEPT ![c] = "second"] /\ usages' = [usages EXCEPT ![c] = recorded]
          /\ requests' = [requests EXCEPT ![c] = @ + 1] /\ UNCHANGED origin
       \/ End(c, Append(recorded, "fallback"), "rule_fallback") /\ UNCHANGED requests
  /\ UNCHANGED <<job, batch, stored, aborted, crashes>>

(* An error of the connection, the provider or the shape of the answer, a  *)
(* second answer that does not fit, or the time of the call is over; and   *)
(* the time of a candidate of a report, which leaves no record of the call *)
(* it ends.                                                                *)
Fail(c) ==
  /\ c \in Asking
  /\ \/ End(c, Append(usages[c], "fallback"), "rule_fallback")
     \/ job = "report" /\ End(c, Replaced(usages[c]), "rule_fallback")
  /\ UNCHANGED <<job, batch, stored, aborted, requests, crashes>>

Kept(c) == <<origin[c], usages[c]>>

(* Once all tasks have ended the events are published and the candidates   *)
(* of a report saved one by one, each in a transaction, after a checkpoint.*)
Save(c) ==
  /\ ~aborted /\ \A d \in batch : task[d] = "done"
  /\ c \in Lowest(1, batch \cap Pending)
  /\ stored' = [stored EXCEPT ![c] = Kept(c)]
  /\ UNCHANGED <<job, batch, calls, aborted, requests, crashes>>
NextBatch ==
  /\ job = "report" /\ batch \cap Pending = {} /\ Pending # {}
  /\ batch' = Lowest(2, Pending) /\ Open(job) /\ UNCHANGED <<job, aborted>>

(* What a checkpoint that raised, or the death of the worker, leaves: the  *)
(* tasks are cancelled, and the operation may be tried again.              *)
Die ==
  /\ batch # {} /\ crashes < MaxCrashes
  /\ batch' = {} /\ aborted' = FALSE /\ crashes' = crashes + 1
  /\ task' = [c \in Candidates |-> "out"] /\ UNCHANGED <<job, usages, origin, stored, requests>>

CallNext ==
  \/ Begin("events") \/ Begin("report") \/ NextBatch \/ Die
  \/ \E c \in Candidates : Enter(c) \/ Raise(c) \/ Answered(c) \/ Repair(c) \/ Fail(c) \/ Save(c)
CallSpec == CallInit /\ [][CallNext]_callVars

---------------------------------------------------------------------------
(* The audit of a report (rebuild_chinese_enrichment_summary), made anew   *)
(* with each text that is saved, and what the page makes of it: it shows   *)
(* none whose counts do not agree.                                         *)
Count(by) == Cardinality({c \in Candidates : stored[c] # <<>> /\ stored[c][1] = by})
Summary ==
  [total |-> Cardinality(Candidates), processed |-> Cardinality(Candidates \ Pending),
   model |-> Count("model"), partial |-> Count("model_partial"),
   rule |-> Count("rule_fallback"), budget |-> Count("budget_limit")]
Recorded(s) ==
  /\ s.processed <= s.total
  /\ s.model + s.partial + s.rule + s.budget = s.processed
  /\ s.model + s.partial + s.rule <= Min({s.total, Budget})
  /\ s.budget + Budget <= Max({s.total, Budget})

---------------------------------------------------------------------------
(* Properties.                                                             *)

(* What is kept says who wrote it: a text of the model has the record of a *)
(* call that succeeded, one of the rules that of a call that fell back,    *)
(* after at most one repair.                                               *)
TextIsAttributed ==
  \A c \in Candidates : stored[c] # <<>> =>
    LET by == stored[c][1]  recorded == stored[c][2] IN
      /\ by \in {"model", "model_partial"} => recorded # <<>> /\ Last(recorded) = "success"
      /\ by = "rule_fallback" => recorded # <<>> /\ Last(recorded) = "fallback"
      /\ by = "budget_limit" => recorded = <<>>
      /\ Len(recorded) <= 2

(* The model is asked about no more candidates of a report than its budget *)
(* allows, even if the report is written in several attempts; at most      *)
(* twice for each in an attempt, never again about a candidate or an event *)
(* whose text is kept, also if an attempt ends between two publications;   *)
(* and no batch has more than its calls at a time.  So the page never      *)
(* finds the audit of a report at odds with its budget.                    *)
BudgetIsKept ==
  /\ job = "report" => Recorded(Summary)
  /\ job = "report" => Cardinality({c \in Candidates : requests[c] > 0}) <= Budget
  /\ \A c \in Candidates : requests[c] <= 2 * (crashes + 1)
  /\ \A c \in Asking : stored[c] = <<>>
  /\ Cardinality(Asking) <= Slots

(* Calls of the model agree with what is recorded and paid for.            *)
CallsAreAccounted == TextIsAttributed /\ BudgetIsKept
=============================================================================
