-------------------------- MODULE SourceRemediation --------------------------
(***************************************************************************)
(* The repair of sources whose probe failed: a frozen batch of failures,   *)
(* one bounded acquisition probe per requested operation                   *)
(* (SourceRemediationHandler), a content probe linked to its evidence, a   *)
(* trial fetch linked to the content probe, and the report that draws its  *)
(* conclusion from these rows.                                             *)
(*                                                                         *)
(* Rows of a table are a sequence; the id of a row is its position, and    *)
(* rows are saved in the order in which their probes end.  Operations are  *)
(* those of OperationContract.                                             *)
(***************************************************************************)
EXTENDS Naturals, SequencesExt

CONSTANTS
  Sources, Keys,          \* catalog: source ids, candidate keys of a source
  Remedies, Trials,       \* operations: source_remediation, fetch with --trial
  Clerks,                 \* processes that run the remediate commands
  None,
  MaxAttempts,            \* MAX_ATTEMPTS
  MaxProbes,              \* source_probe_runs               (bound)
  MaxEvidence,            \* source_acquisition_probe_runs   (bound)
  MaxFaults               \* crashes, lost leases, cancellations  (bound)

ASSUME RemediationAssumption ==
  /\ Remedies \cap Trials = {}
  /\ None \notin Sources \cup Keys \cup Remedies \cup Trials
  /\ {MaxAttempts, MaxProbes, MaxEvidence, MaxFaults} \subseteq Nat

VARIABLES
  status, attempts, cancel,   \* operation_runs
  scope,                      \* requested_scope of a submitted operation
  transient,                  \* operations whose result_summary says network_transient
  faults,
  frozen,                     \* source_remediation_members: source -> original probe
  probes,                     \* source_probe_runs: source, outcome, evidence it is linked to
  evidence,                   \* source_acquisition_probe_runs
  fetches,                    \* fetch_runs of the trial operations
  clerk,                      \* commands under way
  at, outcome                 \* handlers, and what they return

operation == <<status, attempts, cancel>>
rows == <<frozen, probes, evidence, fetches>>
handler == <<at, outcome>>
vars == <<operation, scope, transient, faults, rows, clerk, handler>>

Operations == Remedies \cup Trials
Attempts == 1..MaxAttempts
Jobs == Operations \X Attempts
RemedyJobs == Remedies \X Attempts
Idle == [at |-> "idle"]
Ended == {"succeeded", "partial", "failed", "cancelled"}

Queue == INSTANCE OperationContract

Remedy(s, k, p, o) == [source |-> s, key |-> k, original |-> p, retryOf |-> o]
Trial(s, p) == [source |-> s, content |-> p]

TypeOK ==
  /\ faults \in 0..MaxFaults
  /\ \A o \in Operations : status[o] \in {"absent", "queued", "running"} \cup Ended
  /\ transient \subseteq Remedies
  /\ frozen \in [Sources -> 0..MaxProbes]
  /\ probes \in Seq([source : Sources, outcome : {"success", "failure"}, link : 0..MaxEvidence])
  /\ evidence \in Seq([source : Sources, key : Keys, original : 0..MaxProbes,
                       op : Remedies \cup {None}, outcome : {"succeeded", "blocked"}])
  /\ fetches \in Seq([op : Trials, outcome : {"running", "succeeded", "failed"}])
  /\ clerk \in [Clerks -> {Idle} \cup
       [at : {"clear"}, scope : {Remedy(s, k, p, o) : s \in Sources, k \in Keys, p \in 1..MaxProbes,
                                                  o \in Remedies \cup {None}}]]
  /\ at \in [Jobs -> {"none", "starting", "probing", "fetching", "returned", "over"}]
  /\ outcome \in [Jobs -> Ended \cup {"none", "transient", "error"}]

Init ==
  /\ Queue!ContractInit
  /\ scope = [o \in Operations |-> None]
  /\ transient = {}
  /\ faults = 0
  /\ frozen = [s \in Sources |-> 0]
  /\ probes = <<>> /\ evidence = <<>> /\ fetches = <<>>
  /\ clerk = [c \in Clerks |-> Idle]
  /\ at = [j \in Jobs |-> "none"]
  /\ outcome = [j \in Jobs |-> "none"]

---------------------------------------------------------------------------
(* Probes of the sources, and the batch of those that failed.              *)

Newest(indices) == IF indices = {} THEN 0 ELSE CHOOSE i \in indices : \A h \in indices : h <= i

(* latest_probe_snapshots                                                  *)
LatestProbe(s) == Newest({i \in DOMAIN probes : probes[i].source = s})

(* The commands probe and health-wave, a catalog refresh: probe a source,  *)
(* for no reason or to follow up evidence about it.                        *)
EvidenceAbout(s, e) == evidence[e].source = s
ProbeContent(s, e, result) ==
  /\ Len(probes) < MaxProbes
  /\ e # 0 => EvidenceAbout(s, e)
  /\ probes' = Append(probes, [source |-> s, outcome |-> result, link |-> e])
  /\ UNCHANGED <<operation, scope, transient, faults, frozen, evidence, fetches, clerk, handler>>

(* _build_manifest and freeze_manifest: the failures of the baseline, once.*)
Failure(s) ==
  LET p == LatestProbe(s) IN IF p # 0 /\ probes[p].outcome # "success" THEN p ELSE 0
Freeze ==
  /\ \A s \in Sources : frozen[s] = 0
  /\ frozen' = [s \in Sources |-> Failure(s)]
  /\ UNCHANGED <<operation, scope, transient, faults, probes, evidence, fetches, clerk, handler>>

(* The research command probes a candidate outside any operation (with     *)
(* another outcome its row is of no use to a link anyway).                 *)
ResearchProbe(s, k) ==
  /\ Len(evidence) < MaxEvidence
  /\ evidence' = Append(evidence, [source |-> s, key |-> k, original |-> 0, op |-> None,
                                   outcome |-> "succeeded"])
  /\ UNCHANGED <<operation, scope, transient, faults, frozen, probes, fetches, clerk, handler>>

---------------------------------------------------------------------------
(* enqueue_source_remediation.  The advisory lock does not reach from the  *)
(* check to the insert: OperationRepository.enqueue commits the open       *)
(* transaction before it begins its own, and thereby gives the lock back.  *)

Active(o) == status[o] \in {"queued", "running"}

InBatch(s, p) == frozen[s] = p

NoneActive == \A o \in Remedies : ~Active(o)

Cleared(c, s) == clerk' = [clerk EXCEPT ![c] = [at |-> "clear", scope |-> s]]

AskRemedy(c, s, k, p) ==
  /\ clerk[c] = Idle
  /\ InBatch(s, p) /\ NoneActive
  /\ Cleared(c, Remedy(s, k, p, None))
  /\ UNCHANGED <<operation, scope, transient, faults, rows, handler>>

(* retry_source_remediation                                                *)
AskRetry(c, o) ==
  /\ clerk[c] = Idle
  /\ status[o] \in Ended /\ o \in transient
  /\ \A r \in Remedies : scope[r] # None => scope[r].retryOf # o
  /\ NoneActive
  /\ Cleared(c, [scope[o] EXCEPT !.retryOf = o])
  /\ UNCHANGED <<operation, scope, transient, faults, rows, handler>>

InsertRemedy(c, o) ==
  /\ clerk[c].at = "clear"
  /\ Queue!Submit(o)
  /\ scope' = [scope EXCEPT ![o] = clerk[c].scope]
  /\ clerk' = [clerk EXCEPT ![c] = Idle]
  /\ UNCHANGED <<transient, faults, rows, handler>>

---------------------------------------------------------------------------
(* Attempts; as in ReportAudio, a handler outlives a lease it has lost.    *)

Current(j) == j[2] = attempts[j[1]] /\ status[j[1]] = "running"
Alive(j) == at[j] \notin {"none", "over"}

RequestCancel(o) ==
  /\ faults < MaxFaults /\ faults' = faults + 1
  /\ Queue!AskCancel(o)
  /\ UNCHANGED <<scope, transient, rows, clerk, handler>>

Lease(o) ==
  /\ Queue!Begin(o)
  /\ faults' = IF status[o] = "running" THEN faults + 1 ELSE faults
  /\ faults' <= MaxFaults
  /\ at' = [at EXCEPT ![<<o, attempts'[o]>>] = "starting"]
  /\ UNCHANGED <<scope, transient, rows, clerk, outcome>>

(* finish_attempt; a probe that failed in transit ends as partial.         *)
Conclude(j, result) ==
  LET o == j[1]
      decides == Current(j) /\ ~cancel[o]
      again == result = "error" /\ j[2] < MaxAttempts
      verdict == CASE result = "transient" -> "partial"
                   [] result \in {"error", "cancelled"} -> "failed"
                   [] OTHER -> result IN
    /\ CASE ~Current(j) -> UNCHANGED operation
         [] Current(j) /\ cancel[o] -> Queue!Decide(o, "cancelled")
         [] decides /\ again -> Queue!GiveBack(o)
         [] decides /\ ~again -> Queue!Decide(o, verdict)
    /\ transient' = IF decides /\ result = "transient" THEN transient \cup {o} ELSE transient

Finish(j) ==
  /\ at[j] = "returned"
  /\ Conclude(j, outcome[j])
  /\ at' = [at EXCEPT ![j] = "over"]
  /\ outcome' = [outcome EXCEPT ![j] = "none"]
  /\ UNCHANGED <<scope, faults, rows, clerk>>

MonitorError(j) ==
  /\ Alive(j) /\ Current(j) /\ faults < MaxFaults
  /\ Conclude(j, "error")
  /\ faults' = faults + 1
  /\ UNCHANGED <<scope, rows, clerk, handler>>

Die(j) ==
  /\ Alive(j) /\ faults < MaxFaults
  /\ at' = [at EXCEPT ![j] = "over"]
  /\ outcome' = [outcome EXCEPT ![j] = "none"]
  /\ faults' = faults + 1
  /\ UNCHANGED <<operation, scope, transient, rows, clerk>>

Goes(j, step) == at' = [at EXCEPT ![j] = step] /\ UNCHANGED outcome
Returns(j, result) ==
  /\ at' = [at EXCEPT ![j] = "returned"]
  /\ outcome' = [outcome EXCEPT ![j] = result]

Passes(j) == status[j[1]] = "running" /\ ~cancel[j[1]]
Raises(j) == ~Current(j) \/ cancel[j[1]]
Checkpoint(j, next) ==
  \/ Passes(j) /\ Goes(j, next)
  \/ Raises(j) /\ Returns(j, "cancelled")

(* The candidate may be unknown, rejected or not synchronised, and the     *)
(* deadline may have passed; then nothing is sent.                         *)
SendProbe(j) ==
  /\ at[j] = "starting" /\ j \in RemedyJobs
  /\ \/ probes[scope[j[1]].original].source = scope[j[1]].source /\ Checkpoint(j, "probing")
     \/ Returns(j, "failed")
  /\ UNCHANGED <<operation, scope, transient, faults, rows, clerk>>

(* The probe is over the deadline or raises, or its evidence is saved in a *)
(* transaction of its own, before the verdict: an attempt cut off in       *)
(* between is followed by one that saves its own.                          *)
Saved(o, row) == Append(evidence, row)

(* A wrong one: the category of a retry for the outcome. *)
ResultOf(result) == result
OutcomeOf(result) == IF result = "succeeded" THEN result ELSE "blocked"

ProbeEnds(j) ==
  /\ at[j] = "probing"
  /\ \/ /\ Passes(j) /\ Len(evidence) < MaxEvidence
        /\ \E result \in {"succeeded", "partial", "transient"} :
             /\ evidence' = Saved(j[1],
                  [source |-> scope[j[1]].source, key |-> scope[j[1]].key,
                   original |-> scope[j[1]].original, op |-> j[1],
                   outcome |-> OutcomeOf(result)])
             /\ Returns(j, result)
     \/ Raises(j) /\ Returns(j, "cancelled") /\ UNCHANGED evidence
     \/ Returns(j, "failed") /\ UNCHANGED evidence
  /\ UNCHANGED <<operation, scope, transient, faults, frozen, probes, fetches, clerk>>

---------------------------------------------------------------------------
(* is_valid_remediation_content_link: the evidence chain of a trial fetch. *)

(* A wrong one: whatever became of the operation. *)
AnyVerdict(o) == TRUE
Confirmed(o) == status[o] = "succeeded"

ValidLink(s, p) ==
  LET content == probes[p]
      e == evidence[content.link]
      o == scope[e.op] IN
    /\ content.source = s /\ content.outcome = "success" /\ content.link # 0
    /\ e.outcome = "succeeded" /\ e.op # None
    /\ e.source = s
    /\ Confirmed(e.op)
    /\ o.source = s /\ o.key = e.key /\ o.original = e.original

(* evaluate_trial_eligibility of the probe that is the latest now, which   *)
(* need not be the linked one.                                             *)
Eligible(s) == LatestProbe(s) # 0 /\ probes[LatestProbe(s)].outcome = "success"
Admitted(s, p) == Eligible(s) /\ ValidLink(s, p)

(* fetch_sources and enqueue_fetch.                                        *)
EnqueueTrial(o, s, p) ==
  /\ Admitted(s, p)
  /\ Queue!Submit(o)
  /\ scope' = [scope EXCEPT ![o] = Trial(s, p)]
  /\ UNCHANGED <<transient, faults, rows, clerk, handler>>

(* execute_production_fetch checks again.                                  *)
AdmitTrial(j) ==
  /\ at[j] = "starting" /\ j \notin RemedyJobs
  /\ IF Admitted(scope[j[1]].source, scope[j[1]].content) THEN Checkpoint(j, "fetching")
     ELSE Returns(j, "partial")
  /\ UNCHANGED <<operation, scope, transient, faults, rows, clerk>>

(* fetch_source: a run without outcome, if a checkpoint raises within it.  *)
EndTrial(j) ==
  /\ at[j] = "fetching"
  /\ \/ /\ \E result \in {"succeeded", "failed"} :
             /\ fetches' = Append(fetches, [op |-> j[1], outcome |-> result])
             /\ Returns(j, IF result = "failed" THEN "error" ELSE result)
     \/ /\ Raises(j) /\ Returns(j, "cancelled")
        /\ fetches' = Append(fetches, [op |-> j[1], outcome |-> "running"])
  /\ UNCHANGED <<operation, scope, transient, faults, frozen, probes, evidence, clerk>>

---------------------------------------------------------------------------
(* enriched_manifest: the report reads the chain from its other end.       *)

(* _linked_candidate_probes                                                *)
LinkedEvidence(s) ==
  Newest({e \in DOMAIN evidence :
          /\ evidence[e].op # None
          /\ frozen[s] # 0 /\ evidence[e].original = frozen[s]
          /\ evidence[e].source = s /\ scope[evidence[e].op].source = s
          /\ scope[evidence[e].op].key = evidence[e].key})

(* _content_snapshot_after                                                 *)
(* A wrong one: the latest probe of the source. *)
AnyContent(s) == LatestProbe(s)
ContentAfter(s) ==
  LET e == LinkedEvidence(s) IN
    IF e = 0 THEN 0 ELSE Newest({p \in DOMAIN probes : probes[p].source = s /\ probes[p].link = e})

(* _trial_fetch_after                                                      *)
TrialAfter(s) ==
  LET p == ContentAfter(s) IN
    Newest({f \in DOMAIN fetches :
            LET o == fetches[f].op IN
              p # 0 /\ status[o] = "succeeded" /\ scope[o] = Trial(s, p)})

(* _final_conclusion: 试用抓取已验证                                       *)
Verified(s) ==
  /\ ContentAfter(s) # 0 /\ probes[ContentAfter(s)].outcome = "success"
  /\ TrialAfter(s) # 0 /\ fetches[TrialAfter(s)].outcome = "succeeded"

---------------------------------------------------------------------------
Next ==
  \/ \E s \in Sources : \E e \in 0..Len(evidence), r \in {"success", "failure"} :
       ProbeContent(s, e, r)
  \/ Freeze
  \/ \E s \in Sources, k \in Keys : ResearchProbe(s, k)
  \/ \E c \in Clerks :
       \/ \E s \in Sources, k \in Keys : \E p \in DOMAIN probes : AskRemedy(c, s, k, p)
       \/ \E o \in Remedies : AskRetry(c, o) \/ InsertRemedy(c, o)
  \/ \E o \in Trials, s \in Sources : \E p \in DOMAIN probes : EnqueueTrial(o, s, p)
  \/ \E o \in Operations : RequestCancel(o) \/ Lease(o)
  \/ \E j \in Jobs :
       \/ Finish(j) \/ MonitorError(j) \/ Die(j)
       \/ SendProbe(j) \/ ProbeEnds(j)
       \/ AdmitTrial(j) \/ EndTrial(j)

Spec == Init /\ [][Next]_vars

---------------------------------------------------------------------------
(* Properties.                                                             *)

Chain(s, p) ==
  \E e \in DOMAIN evidence, o \in Remedies :
    /\ probes[p] = [source |-> s, outcome |-> "success", link |-> e]
    /\ evidence[e].op = o /\ evidence[e].outcome = "succeeded"
    /\ status[o] = "succeeded" /\ scope[o].source = s
    /\ scope[o].original = frozen[s] /\ probes[frozen[s]].outcome = "failure"

(* A linked trial fetch that sends a request, and every run it leaves,     *)
(* rests on a complete chain: a failure of the frozen batch, an operation  *)
(* that repaired it, its evidence, a successful probe that follows it up.  *)
(* Commands, attempts of lost workers and cancelled operations also write  *)
(* evidence and probes; none of it gets a fetch admitted.                  *)
TrialsRestOnEvidence ==
  /\ \A j \in Jobs : at[j] = "fetching" => Chain(scope[j[1]].source, scope[j[1]].content)
  /\ \A f \in DOMAIN fetches : LET t == scope[fetches[f].op] IN Chain(t.source, t.content)

(* An operation that succeeded has successful evidence, whichever of its   *)
(* attempts were cut off between the evidence and the verdict.             *)
SuccessIsEvidenced ==
  \A o \in Remedies : status[o] = "succeeded" =>
    \E e \in DOMAIN evidence : evidence[e].op = o /\ evidence[e].outcome = "succeeded"

(* A source that the report calls verified can be traced: the rows that    *)
(* the report joins are one chain from the frozen failure to the fetch.    *)
VerifiedIsTraceable ==
  \A s \in Sources : Verified(s) =>
    /\ Chain(s, ContentAfter(s))
    /\ probes[ContentAfter(s)].link = LinkedEvidence(s)

(* What is called repaired or verified rests on rows that say so.          *)
VerdictsAreTraceable == TypeOK /\ SuccessIsEvidenced /\ VerifiedIsTraceable
=============================================================================
