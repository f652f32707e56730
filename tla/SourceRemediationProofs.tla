----------------------- MODULE SourceRemediationProofs -----------------------
(***************************************************************************)
(* What the repair of sources concludes rests on rows: a trial fetch on a  *)
(* complete chain of evidence, a verdict on evidence of its own.           *)
(***************************************************************************)
EXTENDS SourceRemediation, Integers, SequenceTheorems, WellFoundedInduction, TLAPS

ProbeRows == [source : Sources, outcome : {"success", "failure"}, link : 0..MaxEvidence]
EvidenceRows == [source : Sources, key : Keys, original : 0..MaxProbes,
                 op : Remedies \cup {None}, outcome : {"succeeded", "blocked"}]
FetchRows == [op : Trials, outcome : {"running", "succeeded", "failed"}]

(* What a command asks for: a failure of the frozen batch.                 *)
Asked(x) ==
  \E s \in Sources, k \in Keys, r \in Remedies \cup {None} :
    x = Remedy(s, k, frozen[s], r) /\ frozen[s] # 0
AskedTrial(x) == \E s \in Sources, p \in 1..Len(probes) : x = Trial(s, p)

OperationTypes ==
  /\ status \in [Operations -> {"absent", "queued", "running"} \cup Ended]
  /\ attempts \in [Operations -> 0..MaxAttempts]
  /\ cancel \in [Operations -> BOOLEAN]
  /\ transient \subseteq Remedies
  /\ faults \in 0..MaxFaults

RowTypes ==
  /\ probes \in Seq(ProbeRows) /\ Len(probes) \in 0..MaxProbes
  /\ evidence \in Seq(EvidenceRows) /\ Len(evidence) \in 0..MaxEvidence
  /\ fetches \in Seq(FetchRows)
  /\ frozen \in [Sources -> 0..MaxProbes]
  /\ \A p \in 1..Len(probes) : probes[p].link \in 0..Len(evidence)

HandlerTypes ==
  /\ at \in [Jobs -> {"none", "starting", "probing", "fetching", "returned", "over"}]
  /\ outcome \in [Jobs -> Ended \cup {"none", "transient", "error"}]

(* The batch is of failures, and stays as it is.                           *)
FrozenFailures ==
  \A s \in Sources : frozen[s] # 0 =>
    frozen[s] \in 1..Len(probes) /\ probes[frozen[s]].outcome = "failure"

AskedScopes ==
  {Remedy(s, k, p, o) : s \in Sources, k \in Keys, p \in 1..MaxProbes, o \in Remedies \cup {None}}
ClearRows == [at : {"clear"}, scope : AskedScopes]

(* Whoever asked for an operation asked for a member of the batch.         *)
Requests ==
  /\ DOMAIN scope = Operations
  /\ \A o \in Remedies : status[o] # "absent" => Asked(scope[o])
  /\ \A o \in Trials : status[o] # "absent" => AskedTrial(scope[o])
  /\ clerk \in [Clerks -> {Idle} \cup ClearRows]
  /\ \A c \in Clerks : clerk[c].at = "clear" => Asked(clerk[c].scope)
  /\ \A f \in 1..Len(fetches) : status[fetches[f].op] # "absent"

HasEvidence(o) == \E e \in 1..Len(evidence) : evidence[e].op = o /\ evidence[e].outcome = "succeeded"

(* A handler works for what was asked, and returns success with evidence.  *)
HandlerOK(j) ==
  /\ at[j] # "none" => status[j[1]] # "absent"
  /\ at[j] = "probing" => j \in RemedyJobs
  /\ at[j] = "fetching" => j \notin RemedyJobs
  /\ at[j] = "returned" => outcome[j] # "none"
  /\ outcome[j] = "transient" => j \in RemedyJobs
  /\ outcome[j] = "succeeded" /\ j \in RemedyJobs => HasEvidence(j[1])
Handlers == \A j \in Jobs : HandlerOK(j)

RemedyInv ==
  /\ OperationTypes /\ RowTypes /\ HandlerTypes /\ FrozenFailures /\ Requests /\ Handlers
  /\ SuccessIsEvidenced /\ TrialsRestOnEvidence

---------------------------------------------------------------------------
(* Lemmas about data.                                                      *)

LEMMA NewestIsOne ==
  ASSUME NEW n \in Nat, NEW S \in SUBSET (1..n)
  PROVE  /\ S = {} => Newest(S) = 0
         /\ S # {} => Newest(S) \in S
         /\ Newest(S) # 0 => Newest(S) \in S
         /\ Newest(S) \in 0..n
<1>1. CASE S = {} BY <1>1 DEF Newest
<1>2. CASE S # {}
  <2> DEFINE gaps == {n - i : i \in S}
             R == OpToRel(<, Nat)
  <2>0. \A i \in S : i \in Nat /\ n - i \in Nat OBVIOUS
  <2>1. gaps \subseteq Nat /\ gaps # {}
    <3>1. gaps \subseteq Nat BY <2>0
    <3>2. PICK i : i \in S BY <1>2
    <3> QED BY <3>1, <3>2
  <2>2. IsWellFoundedOn(R, Nat) BY NatLessThanWellFounded
  <2>3. \E x \in gaps : \A y \in gaps : ~ (<<y, x>> \in R) BY ONLY <2>1, <2>2, WFMin, Zenon
  <2>4. PICK x \in gaps : \A y \in gaps : ~ (<<y, x>> \in R) BY <2>3
  <2>5. PICK last \in S : x = n - last BY <2>4
  <2>6. \A h \in S : h <= last
    <3> SUFFICES ASSUME NEW h \in S PROVE h <= last
      OBVIOUS
    <3>1. n - h \in gaps /\ n - h \in Nat /\ n - last \in Nat OBVIOUS
    <3>2. <<n - h, n - last>> \notin R BY <2>4, <2>5, <3>1
    <3>3. ~(n - h < n - last) BY <3>1, <3>2 DEF OpToRel
    <3> QED BY <3>3
  <2>7. Newest(S) = CHOOSE j \in S : \A h \in S : h <= j BY <1>2 DEF Newest
  <2>8. Newest(S) \in S BY <2>6, <2>7
  <2>9. \A i \in S : i \in 0..n
    <3>1. \A i \in 1..n : i \in 0..n OBVIOUS
    <3> QED BY <3>1
  <2>10. Newest(S) \in 0..n BY ONLY <2>8, <2>9, Zenon
  <2> QED BY ONLY <1>2, <2>8, <2>10
<1> QED BY <1>1, <1>2

LEMMA JobKinds ==
  /\ \A j \in Jobs : j[1] \in Operations /\ j[2] \in Attempts
  /\ \A j \in RemedyJobs : j \in Jobs /\ j[1] \in Remedies /\ j[1] \notin Trials
  /\ \A j \in Jobs : j \notin RemedyJobs => j[1] \in Trials /\ j[1] \notin Remedies
  /\ Remedies \subseteq Operations /\ Trials \subseteq Operations
  /\ None \notin Remedies /\ None \notin Trials
BY RemediationAssumption DEF Jobs, RemedyJobs, Operations

LEMMA Bounds == MaxAttempts \in Nat /\ MaxProbes \in Nat /\ MaxEvidence \in Nat /\ MaxFaults \in Nat
BY RemediationAssumption

LEMMA RowFacts ==
  ASSUME RowTypes
  PROVE  /\ DOMAIN probes = 1..Len(probes) /\ DOMAIN evidence = 1..Len(evidence)
         /\ DOMAIN fetches = 1..Len(fetches)
         /\ Len(probes) \in Nat /\ Len(evidence) \in Nat /\ Len(fetches) \in Nat
         /\ \A p \in 1..Len(probes) : probes[p] \in ProbeRows
         /\ \A e \in 1..Len(evidence) : evidence[e] \in EvidenceRows
         /\ \A f \in 1..Len(fetches) : fetches[f] \in FetchRows
<1>1. probes \in [1..Len(probes) -> ProbeRows] /\ Len(probes) \in Nat BY LenProperties DEF RowTypes
<1>2. evidence \in [1..Len(evidence) -> EvidenceRows] /\ Len(evidence) \in Nat
  BY LenProperties DEF RowTypes
<1>3. fetches \in [1..Len(fetches) -> FetchRows] /\ Len(fetches) \in Nat
  BY LenProperties DEF RowTypes
<1> QED BY <1>1, <1>2, <1>3

---------------------------------------------------------------------------
(* What every step keeps.                                                  *)

Keeps ==
  /\ \A p \in 1..Len(probes) : p \in 1..Len(probes') /\ probes'[p] = probes[p]
  /\ \A e \in 1..Len(evidence) : e \in 1..Len(evidence') /\ evidence'[e] = evidence[e]
  /\ \A o \in Operations : status[o] = "succeeded" => status'[o] = "succeeded"
  /\ \A o \in Operations : status[o] # "absent" => scope'[o] = scope[o] /\ status'[o] # "absent"
  /\ \A s \in Sources : frozen[s] # 0 => frozen'[s] = frozen[s]

TrialRests(o) == Chain(scope[o].source, scope[o].content)

LEMMA AskedFacts ==
  ASSUME NEW x, Asked(x)
  PROVE  /\ x.source \in Sources /\ x.key \in Keys /\ x.retryOf \in Remedies \cup {None}
         /\ x.original = frozen[x.source] /\ frozen[x.source] # 0
         /\ x = Remedy(x.source, x.key, x.original, x.retryOf)
BY DEF Asked, Remedy

LEMMA AskedKept == ASSUME Keeps, NEW x, Asked(x) PROVE Asked(x)'
BY DEF Keeps, Asked

LEMMA AskedTrialKept == ASSUME Keeps, NEW x, AskedTrial(x) PROVE AskedTrial(x)'
BY DEF Keeps, AskedTrial

LEMMA ChainKept ==
  ASSUME RowTypes, RowTypes', FrozenFailures, Requests, Keeps, NEW s, NEW p \in 1..Len(probes), Chain(s, p)
  PROVE  Chain(s, p)'
<1>1. DOMAIN evidence = 1..Len(evidence) /\ (DOMAIN evidence = 1..Len(evidence))'
  BY RowFacts DEF RowTypes
<1>2. PICK e \in 1..Len(evidence), o \in Remedies :
        /\ probes[p] = [source |-> s, outcome |-> "success", link |-> e]
        /\ evidence[e].op = o /\ evidence[e].outcome = "succeeded"
        /\ status[o] = "succeeded" /\ scope[o].source = s
        /\ scope[o].original = frozen[s] /\ probes[frozen[s]].outcome = "failure"
  BY <1>1 DEF Chain
<1>3. o \in Operations /\ Asked(scope[o]) BY <1>2, JobKinds DEF Requests
<1>4. s \in Sources /\ frozen[s] # 0 BY <1>2, <1>3, AskedFacts
<1>5. frozen[s] \in 1..Len(probes) BY <1>4 DEF FrozenFailures
<1>6. /\ frozen'[s] = frozen[s] /\ probes'[frozen[s]] = probes[frozen[s]] /\ probes'[p] = probes[p]
      /\ evidence'[e] = evidence[e] /\ e \in 1..Len(evidence') /\ status'[o] = "succeeded"
      /\ scope'[o] = scope[o]
  BY <1>2, <1>3, <1>4, <1>5 DEF Keeps
<1> QED BY <1>1, <1>2, <1>6 DEF Chain

(* A step that keeps these, and adds only what is asked or has evidence.   *)
LEMMA KeptInv ==
  ASSUME RemedyInv, Keeps, OperationTypes', RowTypes', HandlerTypes', FrozenFailures',
         (DOMAIN scope)' = Operations, clerk' \in [Clerks -> {Idle} \cup ClearRows],
         \A o \in Remedies : status'[o] # "absent" => status[o] # "absent" \/ Asked(scope[o])',
         \A o \in Trials : status'[o] # "absent" => status[o] # "absent" \/ AskedTrial(scope[o])',
         \A c \in Clerks : clerk'[c] = clerk[c] \/ (clerk'[c].at = "clear" => Asked(clerk[c].scope)'),
         \A j \in Jobs : (at'[j] = at[j] /\ outcome'[j] = outcome[j]) \/ HandlerOK(j)',
         \A o \in Remedies : status'[o] = "succeeded" => status[o] = "succeeded" \/ HasEvidence(o),
         \A j \in Jobs : at'[j] = "fetching" =>
           at[j] = "fetching" \/ (TrialRests(j[1]) /\ status[j[1]] # "absent"),
         \A f \in 1..Len(fetches') :
           \/ f \in 1..Len(fetches) /\ fetches'[f] = fetches[f]
           \/ \E o \in Trials : fetches'[f].op = o /\ TrialRests(o) /\ status[o] # "absent"
  PROVE  RemedyInv'
<1>0. /\ OperationTypes /\ RowTypes /\ HandlerTypes /\ FrozenFailures /\ Requests /\ Handlers
      /\ SuccessIsEvidenced /\ TrialsRestOnEvidence
  BY DEF RemedyInv
<1>1. /\ DOMAIN evidence = 1..Len(evidence) /\ DOMAIN fetches = 1..Len(fetches)
      /\ (DOMAIN evidence = 1..Len(evidence))' /\ (DOMAIN fetches = 1..Len(fetches))'
      /\ \A f \in 1..Len(fetches) : fetches[f].op \in Trials
      /\ \A f \in 1..Len(fetches) : TrialRests(fetches[f].op) /\ status[fetches[f].op] # "absent"
  <2>1. \A f \in 1..Len(fetches) : fetches[f] \in FetchRows BY <1>0, RowFacts
  <2>2. \A f \in 1..Len(fetches) : fetches[f].op \in Trials BY <2>1 DEF FetchRows
  <2>3. DOMAIN evidence = 1..Len(evidence) /\ DOMAIN fetches = 1..Len(fetches) BY <1>0, RowFacts
  <2>4. DOMAIN evidence' = 1..Len(evidence') /\ DOMAIN fetches' = 1..Len(fetches')
    BY DEF RowTypes
  <2>5. \A f \in 1..Len(fetches) : TrialRests(fetches[f].op) /\ status[fetches[f].op] # "absent"
    BY <1>0, <2>3 DEF TrialsRestOnEvidence, TrialRests, Requests
  <2> QED BY <2>2, <2>3, <2>4, <2>5
<1>2. ASSUME NEW o \in Trials, TrialRests(o), status[o] # "absent" PROVE TrialRests(o)'
  <2>1. AskedTrial(scope[o]) /\ scope'[o] = scope[o] BY <1>0, <1>2, JobKinds DEF Requests, Keeps
  <2>2. PICK s \in Sources, p \in 1..Len(probes) : scope[o] = Trial(s, p) BY <2>1 DEF AskedTrial
  <2>3. Chain(s, p) BY <1>2, <2>2 DEF TrialRests, Trial
  <2>4. Chain(s, p)' BY <1>0, <2>3, ChainKept
  <2> QED BY <2>1, <2>2, <2>4 DEF TrialRests, Trial
<1>3. ASSUME NEW o, HasEvidence(o) PROVE HasEvidence(o)' BY <1>3 DEF HasEvidence, Keeps
<1>4. Requests'
  <2>1. \A o \in Remedies : status'[o] # "absent" => Asked(scope[o])'
    <3> SUFFICES ASSUME NEW o \in Remedies, status'[o] # "absent", status[o] # "absent"
                 PROVE  Asked(scope[o])'
      OBVIOUS
    <3>1. PICK x : x = scope[o] OBVIOUS
    <3>2. Asked(x) /\ scope'[o] = x BY <1>0, <3>1, JobKinds DEF Requests, Keeps
    <3> QED BY <3>2, AskedKept
  <2>2. \A o \in Trials : status'[o] # "absent" => AskedTrial(scope[o])'
    <3> SUFFICES ASSUME NEW o \in Trials, status'[o] # "absent", status[o] # "absent"
                 PROVE  AskedTrial(scope[o])'
      OBVIOUS
    <3>1. PICK x : x = scope[o] OBVIOUS
    <3>2. AskedTrial(x) /\ scope'[o] = x BY <1>0, <3>1, JobKinds DEF Requests, Keeps
    <3> QED BY <3>2, AskedTrialKept
  <2>3. \A c \in Clerks : clerk'[c].at = "clear" => Asked(clerk[c].scope)'
    <3> SUFFICES ASSUME NEW c \in Clerks, clerk'[c] = clerk[c], clerk'[c].at = "clear"
                 PROVE  Asked(clerk[c].scope)'
      OBVIOUS
    <3>1. PICK x : x = clerk[c].scope OBVIOUS
    <3>2. Asked(x) /\ clerk'[c].scope = x BY <1>0, <3>1 DEF Requests
    <3> QED BY <3>2, AskedKept
  <2>4. \A f \in 1..Len(fetches') : status'[fetches'[f].op] # "absent"
    BY <1>1, JobKinds DEF Keeps
  <2> QED BY <2>1, <2>2, <2>3, <2>4 DEF Requests
<1>5. Handlers'
  <2> SUFFICES ASSUME NEW j \in Jobs PROVE HandlerOK(j)'
    BY DEF Handlers
  <2>1. HandlerOK(j) /\ j[1] \in Operations BY <1>0, JobKinds DEF Handlers
  <2> QED BY <1>3, <2>1 DEF HandlerOK, Keeps
<1>6. SuccessIsEvidenced'
  <2> SUFFICES ASSUME NEW o \in Remedies, status'[o] = "succeeded" PROVE HasEvidence(o)'
    BY <1>1 DEF SuccessIsEvidenced, HasEvidence
  <2>1. HasEvidence(o) BY <1>0, <1>1 DEF SuccessIsEvidenced, HasEvidence
  <2> QED BY <1>3, <2>1
<1>7. TrialsRestOnEvidence'
  <2>1. ASSUME NEW j \in Jobs, at'[j] = "fetching" PROVE TrialRests(j[1])'
    <3>1. j \notin RemedyJobs /\ at'[j] # "none" BY <1>5, <2>1 DEF Handlers, HandlerOK
    <3>2. j[1] \in Trials BY <3>1, JobKinds
    <3>3. TrialRests(j[1]) /\ status[j[1]] # "absent"
      <4>1. CASE at[j] = "fetching"
        BY <1>0, <4>1 DEF TrialsRestOnEvidence, TrialRests, Handlers, HandlerOK
      <4>2. CASE at[j] # "fetching" BY <2>1, <4>2
      <4> QED BY <4>1, <4>2
    <3> QED BY <1>2, <3>2, <3>3
  <2>2. ASSUME NEW f \in 1..Len(fetches') PROVE \E o \in Trials : o = fetches'[f].op /\ TrialRests(o)'
    <3>1. PICK o \in Trials : o = fetches'[f].op /\ TrialRests(o) /\ status[o] # "absent"
      BY <1>1, <2>2
    <3> QED BY <1>2, <3>1
  <2> QED BY <1>1, <2>1, <2>2 DEF TrialsRestOnEvidence, TrialRests
<1> QED BY <1>4, <1>5, <1>6, <1>7 DEF RemedyInv

(* A step of operations and handlers.                                      *)
LEMMA HandledInv ==
  ASSUME RemedyInv, UNCHANGED <<rows, scope, clerk>>, OperationTypes', HandlerTypes',
         \A o \in Operations : status[o] # "absent" <=> status'[o] # "absent",
         \A o \in Operations : status[o] = "succeeded" => status'[o] = "succeeded",
         \A o \in Remedies : status'[o] = "succeeded" => status[o] = "succeeded" \/ HasEvidence(o),
         \A j \in Jobs : (at'[j] = at[j] /\ outcome'[j] = outcome[j]) \/ HandlerOK(j)',
         \A j \in Jobs : at'[j] = "fetching" =>
           at[j] = "fetching" \/ (TrialRests(j[1]) /\ status[j[1]] # "absent")
  PROVE  RemedyInv'
<1>0. RowTypes /\ FrozenFailures /\ Requests BY DEF RemedyInv
<1>1. UNCHANGED <<frozen, probes, evidence, fetches>> BY DEF rows
<1>2. RowTypes' /\ FrozenFailures' BY <1>0, <1>1 DEF RowTypes, FrozenFailures
<1>3. Keeps BY <1>1 DEF Keeps
<1>4. (DOMAIN scope)' = Operations /\ clerk' \in [Clerks -> {Idle} \cup ClearRows]
  BY <1>0 DEF Requests
<1> QED BY <1>1, <1>2, <1>3, <1>4, KeptInv, JobKinds

---------------------------------------------------------------------------
(* Probes, the batch, and what is asked for.                               *)

LEMMA Appended ==
  ASSUME NEW S, NEW s \in Seq(S), NEW x \in S, NEW t, t = Append(s, x)
  PROVE  /\ t \in Seq(S) /\ Len(t) = Len(s) + 1 /\ Len(s) \in Nat
         /\ \A i \in 1..Len(s) : i \in 1..Len(t) /\ t[i] = s[i]
         /\ t[Len(s) + 1] = x
         /\ \A i \in 1..Len(t) : i \in 1..Len(s) \/ i = Len(s) + 1
BY AppendProperties, LenProperties

LEMMA RowSteps ==
  ASSUME RemedyInv, UNCHANGED <<operation, scope, transient, faults, clerk, handler>>,
         Keeps, RowTypes', FrozenFailures', fetches' = fetches
  PROVE  RemedyInv'
<1>1. UNCHANGED <<status, attempts, cancel, at, outcome>> BY DEF operation, handler
<1>2. OperationTypes' /\ HandlerTypes'
  BY <1>1 DEF RemedyInv, OperationTypes, HandlerTypes
<1>3. (DOMAIN scope)' = Operations /\ clerk' \in [Clerks -> {Idle} \cup ClearRows]
  BY DEF RemedyInv, Requests
<1> QED BY <1>1, <1>2, <1>3, KeptInv

LEMMA ProbeStep ==
  ASSUME RemedyInv, NEW s \in Sources, NEW e \in 0..Len(evidence), NEW r \in {"success", "failure"},
         ProbeContent(s, e, r)
  PROVE  RemedyInv'
<1>0. RowTypes /\ FrozenFailures BY DEF RemedyInv
<1> DEFINE x == [source |-> s, outcome |-> r, link |-> e]
<1>1. /\ Len(probes) < MaxProbes /\ probes' = Append(probes, x)
      /\ UNCHANGED <<operation, scope, transient, faults, frozen, evidence, fetches, clerk, handler>>
  BY DEF ProbeContent
<1>2. x \in ProbeRows /\ x.link = e BY <1>0, Bounds DEF ProbeRows, RowTypes
<1> HIDE DEF x
<1>3. /\ probes' \in Seq(ProbeRows) /\ Len(probes') = Len(probes) + 1 /\ Len(probes) \in Nat
      /\ \A i \in 1..Len(probes) : i \in 1..Len(probes') /\ probes'[i] = probes[i]
      /\ probes'[Len(probes) + 1] = x
      /\ \A i \in 1..Len(probes') : i \in 1..Len(probes) \/ i = Len(probes) + 1
  BY <1>0, <1>1, <1>2, Appended DEF RowTypes
<1>4. RowTypes' BY <1>0, <1>1, <1>2, <1>3, Bounds DEF RowTypes
<1>5. FrozenFailures' BY <1>0, <1>1, <1>3 DEF FrozenFailures
<1>6. Keeps BY <1>1, <1>3 DEF Keeps, operation
<1> QED BY <1>1, <1>4, <1>5, <1>6, RowSteps

LEMMA ResearchStep ==
  ASSUME RemedyInv, NEW s \in Sources, NEW k \in Keys, ResearchProbe(s, k) PROVE RemedyInv'
<1>0. RowTypes /\ FrozenFailures BY DEF RemedyInv
<1> DEFINE x == [source |-> s, key |-> k, original |-> 0, op |-> None, outcome |-> "succeeded"]
<1>1. /\ Len(evidence) < MaxEvidence /\ evidence' = Append(evidence, x)
      /\ UNCHANGED <<operation, scope, transient, faults, frozen, probes, fetches, clerk, handler>>
  BY DEF ResearchProbe
<1>2. x \in EvidenceRows BY Bounds DEF EvidenceRows
<1> HIDE DEF x
<1>3. /\ evidence' \in Seq(EvidenceRows) /\ Len(evidence') = Len(evidence) + 1
      /\ Len(evidence) \in Nat
      /\ \A i \in 1..Len(evidence) : i \in 1..Len(evidence') /\ evidence'[i] = evidence[i]
  BY <1>0, <1>1, <1>2, Appended DEF RowTypes
<1>4. RowTypes' BY <1>0, <1>1, <1>3, Bounds DEF RowTypes
<1>5. FrozenFailures' BY <1>0, <1>1 DEF FrozenFailures
<1>6. Keeps BY <1>1, <1>3 DEF Keeps, operation
<1> QED BY <1>1, <1>4, <1>5, <1>6, RowSteps

(* The batch is made of probes that are there, and only once: an empty one *)
(* may be made again.                                                      *)
LEMMA FreezeStep == ASSUME RemedyInv, Freeze PROVE RemedyInv'
<1>0. RowTypes /\ FrozenFailures BY DEF RemedyInv
<1>1. /\ \A s \in Sources : frozen[s] = 0
      /\ frozen' = [s \in Sources |-> Failure(s)]
      /\ UNCHANGED <<operation, scope, transient, faults, probes, evidence, fetches, clerk, handler>>
  BY DEF Freeze
<1>2. ASSUME NEW s \in Sources
      PROVE  /\ Failure(s) \in 0..Len(probes)
             /\ Failure(s) # 0 => Failure(s) \in 1..Len(probes) /\ probes[Failure(s)].outcome = "failure"
  <2> DEFINE S == {i \in DOMAIN probes : probes[i].source = s}
  <2>1. S \subseteq 1..Len(probes) /\ Len(probes) \in Nat BY <1>0, RowFacts
  <2>2. LatestProbe(s) = Newest(S) BY DEF LatestProbe
  <2> HIDE DEF S
  <2>3. LatestProbe(s) \in 0..Len(probes) /\ (LatestProbe(s) # 0 => LatestProbe(s) \in 1..Len(probes))
    BY <2>1, <2>2, NewestIsOne
  <2>4. CASE LatestProbe(s) # 0 /\ probes[LatestProbe(s)].outcome # "success"
    <3>1. Failure(s) = LatestProbe(s) BY <2>4 DEF Failure
    <3>2. probes[LatestProbe(s)] \in ProbeRows BY <1>0, <2>3, <2>4, RowFacts
    <3>3. probes[LatestProbe(s)].outcome \in {"success", "failure"} BY <3>2 DEF ProbeRows
    <3> QED BY <2>3, <2>4, <3>1, <3>3
  <2>5. CASE ~(LatestProbe(s) # 0 /\ probes[LatestProbe(s)].outcome # "success")
    BY <2>1, <2>5 DEF Failure
  <2> QED BY <2>4, <2>5
<1>3. \A s \in Sources : frozen'[s] = Failure(s) BY <1>1
<1>4. RowTypes'
  <2>1. \A s \in Sources : Failure(s) \in 0..MaxProbes BY <1>0, <1>2, Bounds DEF RowTypes
  <2>2. frozen' \in [Sources -> 0..MaxProbes] BY <1>1, <2>1
  <2> QED BY <1>0, <1>1, <2>2 DEF RowTypes
<1>5. FrozenFailures' BY <1>1, <1>2, <1>3 DEF FrozenFailures
<1>6. Keeps BY <1>1 DEF Keeps, operation
<1> QED BY <1>1, <1>4, <1>5, <1>6, RowSteps

(* A command clears what it asks for, and submits it later.                *)
LEMMA ClearStep ==
  ASSUME RemedyInv, NEW c \in Clerks, NEW x, Asked(x), Cleared(c, x),
         UNCHANGED <<operation, scope, transient, faults, rows, handler>>
  PROVE  RemedyInv'
<1>0. OperationTypes /\ RowTypes /\ FrozenFailures /\ Requests /\ HandlerTypes BY DEF RemedyInv
<1>1. UNCHANGED <<status, attempts, cancel, at, outcome, frozen, probes, evidence, fetches>>
  BY DEF operation, handler, rows
<1>2. OperationTypes' /\ HandlerTypes' /\ RowTypes' /\ FrozenFailures'
  BY <1>0, <1>1 DEF OperationTypes, HandlerTypes, RowTypes, FrozenFailures
<1>3. Keeps BY <1>1 DEF Keeps
<1>4. x \in AskedScopes
  <2>1. PICK s \in Sources, k \in Keys, r \in Remedies \cup {None} :
          x = Remedy(s, k, frozen[s], r) /\ frozen[s] # 0
    BY DEF Asked
  <2>2. frozen[s] \in 1..MaxProbes BY <1>0, <2>1, Bounds DEF RowTypes
  <2> QED BY <2>1, <2>2 DEF AskedScopes
<1>5. [at |-> "clear", scope |-> x] \in ClearRows BY <1>4 DEF ClearRows
<1>6. /\ clerk' \in [Clerks -> {Idle} \cup ClearRows]
      /\ clerk'[c] = [at |-> "clear", scope |-> x]
      /\ \A d \in Clerks : d # c => clerk'[d] = clerk[d]
  BY <1>0, <1>5 DEF Requests, Cleared
<1>7. Asked(x)' BY <1>3, AskedKept
<1>8. Asked(clerk[c].scope)'
  <2>1. clerk'[c].scope = x BY <1>6
  <2> QED BY <1>7, <2>1
<1> QED BY <1>0, <1>1, <1>2, <1>3, <1>6, <1>8, KeptInv DEF Requests

LEMMA AskSteps ==
  ASSUME RemedyInv, NEW c \in Clerks,
         \/ \E s \in Sources, k \in Keys : \E p \in DOMAIN probes : AskRemedy(c, s, k, p)
         \/ \E o \in Remedies : AskRetry(c, o)
  PROVE  RemedyInv'
<1>0. RowTypes /\ Requests /\ OperationTypes /\ DOMAIN probes = 1..Len(probes)
  BY RowFacts DEF RemedyInv
<1>1. ASSUME NEW s \in Sources, NEW k \in Keys, NEW p \in DOMAIN probes, AskRemedy(c, s, k, p)
      PROVE  RemedyInv'
  <2>1. frozen[s] = p /\ p # 0 BY <1>0, <1>1 DEF AskRemedy, InBatch
  <2>2. Asked(Remedy(s, k, p, None)) BY <2>1 DEF Asked
  <2> QED BY <1>1, <2>2, ClearStep DEF AskRemedy
<1>2. ASSUME NEW o \in Remedies, AskRetry(c, o) PROVE RemedyInv'
  <2>1. status[o] # "absent" /\ Asked(scope[o]) BY <1>0, <1>2 DEF AskRetry, Ended, Requests
  <2>2. PICK s \in Sources, k \in Keys, r \in Remedies \cup {None} :
          scope[o] = Remedy(s, k, frozen[s], r) /\ frozen[s] # 0
    BY <2>1 DEF Asked
  <2>3. PICK p : p = frozen[s] OBVIOUS
  <2>4. [scope[o] EXCEPT !.retryOf = o] = Remedy(s, k, p, o) BY <2>2, <2>3 DEF Remedy
  <2>5. Asked(Remedy(s, k, p, o)) BY <2>2, <2>3 DEF Asked
  <2>6. Cleared(c, Remedy(s, k, p, o)) BY <1>2, <2>4 DEF AskRetry, Cleared
  <2> QED BY <1>2, <2>5, <2>6, ClearStep DEF AskRetry
<1> QED BY <1>1, <1>2

LEMMA SubmitFacts ==
  ASSUME RemedyInv, NEW o \in Operations, NEW x, Queue!Submit(o), scope' = [scope EXCEPT ![o] = x],
         UNCHANGED <<transient, faults, rows, handler>>
  PROVE  /\ Keeps /\ OperationTypes' /\ RowTypes' /\ HandlerTypes' /\ FrozenFailures'
         /\ (DOMAIN scope)' = Operations /\ scope'[o] = x
         /\ \A p \in Operations : p # o => status'[p] = status[p]
         /\ status'[o] = "queued"
<1>0. OperationTypes /\ RowTypes /\ HandlerTypes /\ FrozenFailures /\ Requests BY DEF RemedyInv
<1>1. UNCHANGED <<attempts, cancel, at, outcome, frozen, probes, evidence, fetches>>
  BY DEF handler, rows, Queue!Submit
<1>2. status[o] = "absent" /\ status' = [status EXCEPT ![o] = "queued"] BY DEF Queue!Submit
<1>3. OperationTypes' BY <1>0, <1>1, <1>2 DEF OperationTypes
<1>4. RowTypes' /\ FrozenFailures' /\ HandlerTypes'
  BY <1>0, <1>1 DEF RowTypes, FrozenFailures, HandlerTypes
<1>5. /\ (DOMAIN scope)' = Operations /\ scope'[o] = x
      /\ \A p \in Operations : p # o => scope'[p] = scope[p]
  BY <1>0 DEF Requests
<1>6. status'[o] = "queued" /\ \A p \in Operations : p # o => status'[p] = status[p]
  BY <1>0, <1>2 DEF OperationTypes
<1>7. Keeps BY <1>1, <1>2, <1>5, <1>6 DEF Keeps
<1> QED BY <1>3, <1>4, <1>5, <1>6, <1>7

LEMMA SubmitSteps ==
  ASSUME RemedyInv,
         \/ \E c \in Clerks, o \in Remedies : InsertRemedy(c, o)
         \/ \E o \in Trials, s \in Sources : \E p \in DOMAIN probes : EnqueueTrial(o, s, p)
  PROVE  RemedyInv'
<1>0. RowTypes /\ Requests /\ DOMAIN probes = 1..Len(probes) BY RowFacts DEF RemedyInv
<1>1. ASSUME NEW c \in Clerks, NEW o \in Remedies, InsertRemedy(c, o) PROVE RemedyInv'
  <2>1. PICK x : x = clerk[c].scope OBVIOUS
  <2>2. /\ Queue!Submit(o) /\ scope' = [scope EXCEPT ![o] = x] /\ Asked(x)
        /\ clerk' = [clerk EXCEPT ![c] = Idle] /\ UNCHANGED <<transient, faults, rows, handler>>
    BY <1>0, <1>1, <2>1 DEF InsertRemedy, Requests
  <2>3. /\ clerk' \in [Clerks -> {Idle} \cup ClearRows] /\ clerk'[c].at # "clear"
        /\ \A d \in Clerks : d # c => clerk'[d] = clerk[d]
    BY <1>0, <2>2 DEF Requests, Idle
  <2>4. o \in Operations /\ o \notin Trials BY JobKinds, RemediationAssumption
  <2>5. /\ Keeps /\ OperationTypes' /\ RowTypes' /\ HandlerTypes' /\ FrozenFailures'
        /\ (DOMAIN scope)' = Operations /\ scope'[o] = x
        /\ \A p \in Operations : p # o => status'[p] = status[p]
        /\ status'[o] = "queued"
    BY <2>2, <2>4, SubmitFacts
  <2>6. Asked(scope[o])'
    <3>1. Asked(x)' BY <2>2, <2>5, AskedKept
    <3> QED BY <2>5, <3>1
  <2>7. UNCHANGED <<at, outcome, fetches>> BY <2>2 DEF handler, rows
  <2> QED BY <2>3, <2>4, <2>5, <2>6, <2>7, KeptInv, JobKinds
<1>2. ASSUME NEW o \in Trials, NEW s \in Sources, NEW p \in DOMAIN probes, EnqueueTrial(o, s, p)
      PROVE  RemedyInv'
  <2>1. /\ Queue!Submit(o) /\ scope' = [scope EXCEPT ![o] = Trial(s, p)] /\ clerk' = clerk
        /\ UNCHANGED <<transient, faults, rows, handler>>
    BY <1>2 DEF EnqueueTrial
  <2>2. o \in Operations /\ o \notin Remedies BY JobKinds, RemediationAssumption
  <2>3. /\ Keeps /\ OperationTypes' /\ RowTypes' /\ HandlerTypes' /\ FrozenFailures'
        /\ (DOMAIN scope)' = Operations /\ scope'[o] = Trial(s, p)
        /\ \A q \in Operations : q # o => status'[q] = status[q]
        /\ status'[o] = "queued"
    BY <2>1, <2>2, SubmitFacts
  <2>4. AskedTrial(scope[o])'
    <3>1. p \in 1..Len(probes') BY <1>0, <2>3 DEF Keeps
    <3> QED BY <2>3, <3>1 DEF AskedTrial
  <2>5. UNCHANGED <<at, outcome, fetches>> BY <2>1 DEF handler, rows
  <2> QED BY <1>0, <2>1, <2>2, <2>3, <2>4, <2>5, KeptInv, JobKinds DEF Requests
<1> QED BY <1>1, <1>2

---------------------------------------------------------------------------
(* Attempts.                                                               *)

(* finish_attempt: it succeeds only if the handler returned success.       *)
LEMMA ConcludeFacts ==
  ASSUME OperationTypes, NEW j \in Jobs, NEW result \in Ended \cup {"none", "transient", "error"},
         Conclude(j, result), result = "transient" => j \in RemedyJobs, result # "none"
  PROVE  /\ status' \in [Operations -> {"absent", "queued", "running"} \cup Ended]
         /\ UNCHANGED <<attempts, cancel>> /\ transient' \subseteq Remedies
         /\ \A o \in Operations : status[o] # "absent" <=> status'[o] # "absent"
         /\ \A o \in Operations : status[o] = "succeeded" => status'[o] = "succeeded"
         /\ \A o \in Operations :
              status'[o] = "succeeded" => status[o] = "succeeded" \/ (o = j[1] /\ result = "succeeded")
<1>0. j[1] \in Operations /\ (j \in RemedyJobs => j[1] \in Remedies) BY JobKinds
<1>1. transient' \subseteq Remedies BY <1>0 DEF Conclude, OperationTypes
<1> DEFINE o == j[1]
           decides == Current(j) /\ ~cancel[o]
           again == result = "error" /\ j[2] < MaxAttempts
           verdict == CASE result = "transient" -> "partial"
                        [] result \in {"error", "cancelled"} -> "failed"
                        [] OTHER -> result
<1>2. verdict \in Ended /\ (verdict = "succeeded" => result = "succeeded")
  <2>1. CASE result = "transient" BY <2>1 DEF Ended
  <2>2. CASE result \in {"error", "cancelled"} BY <2>2 DEF Ended
  <2>3. CASE result \notin {"transient", "error", "cancelled"}
    <3>1. verdict = result BY <2>3
    <3> QED BY <2>3, <3>1 DEF Ended
  <2> QED BY <2>1, <2>2, <2>3
<1>3. \/ UNCHANGED operation \/ Queue!Decide(o, "cancelled") \/ Queue!GiveBack(o)
      \/ Queue!Decide(o, verdict)
  <2> HIDE DEF verdict
  <2>1. CASE ~Current(j) BY <2>1 DEF Conclude, verdict
  <2>2. CASE Current(j) /\ cancel[o] BY <2>2 DEF Conclude, verdict
  <2>3. CASE decides /\ again BY <2>3 DEF Conclude, verdict
  <2>4. CASE decides /\ ~again BY <2>4 DEF Conclude, verdict
  <2>5. cancel[o] \in BOOLEAN BY <1>0 DEF OperationTypes
  <2> QED BY <2>1, <2>2, <2>3, <2>4, <2>5
<1> HIDE DEF verdict
<1>4. CASE UNCHANGED operation BY <1>1, <1>4 DEF operation, OperationTypes
<1>5. CASE Queue!Decide(o, "cancelled")
  BY <1>0, <1>1, <1>5 DEF Queue!Decide, OperationTypes, Ended
<1>6. CASE Queue!GiveBack(o) BY <1>0, <1>1, <1>6 DEF Queue!GiveBack, OperationTypes
<1>7. CASE Queue!Decide(o, verdict)
  <2>1. /\ status[o] = "running" /\ status' = [status EXCEPT ![o] = verdict]
        /\ UNCHANGED <<attempts, cancel>>
    BY <1>7 DEF Queue!Decide
  <2>2. verdict # "absent" BY <1>2 DEF Ended
  <2> QED BY <1>0, <1>1, <1>2, <2>1, <2>2 DEF OperationTypes
<1> QED BY <1>3, <1>4, <1>5, <1>6, <1>7

LEMMA HandlerMoves ==
  ASSUME HandlerTypes, NEW j \in Jobs,
         NEW step \in {"none", "starting", "probing", "fetching", "returned", "over"},
         NEW result \in Ended \cup {"none", "transient", "error"},
         at' = [at EXCEPT ![j] = step], outcome' \in {outcome, [outcome EXCEPT ![j] = result]}
  PROVE  /\ HandlerTypes' /\ at'[j] = step /\ outcome'[j] \in {outcome[j], result}
         /\ \A i \in Jobs : i # j => at'[i] = at[i] /\ outcome'[i] = outcome[i]
<1>1. CASE outcome' = outcome BY <1>1 DEF HandlerTypes
<1>2. CASE outcome' = [outcome EXCEPT ![j] = result] BY <1>2 DEF HandlerTypes
<1> QED BY <1>1, <1>2

LEMMA EndSteps ==
  ASSUME RemedyInv, NEW j \in Jobs, Finish(j) \/ MonitorError(j) \/ Die(j)
  PROVE  RemedyInv'
<1>0. OperationTypes /\ HandlerTypes /\ Handlers BY DEF RemedyInv
<1>1. HandlerOK(j) /\ outcome[j] \in Ended \cup {"none", "transient", "error"}
  BY <1>0 DEF Handlers, HandlerTypes
<1>2. ASSUME at' = [at EXCEPT ![j] = "over"], outcome' = [outcome EXCEPT ![j] = "none"],
             at[j] # "none", \A o \in Operations : status[o] # "absent" <=> status'[o] # "absent"
      PROVE  /\ HandlerTypes' /\ \A i \in Jobs : at'[i] = "fetching" => at[i] = "fetching"
             /\ \A i \in Jobs : (at'[i] = at[i] /\ outcome'[i] = outcome[i]) \/ HandlerOK(i)'
  <2>1. /\ HandlerTypes' /\ at'[j] = "over" /\ outcome'[j] = "none"
        /\ \A i \in Jobs : i # j => at'[i] = at[i] /\ outcome'[i] = outcome[i]
    BY <1>0, <1>2 DEF HandlerTypes
  <2> QED BY <1>1, <1>2, <2>1, JobKinds DEF HandlerOK
<1>3. CASE Finish(j)
  <2>1. /\ at[j] = "returned" /\ Conclude(j, outcome[j])
        /\ at' = [at EXCEPT ![j] = "over"] /\ outcome' = [outcome EXCEPT ![j] = "none"]
        /\ UNCHANGED <<scope, faults, rows, clerk>>
    BY <1>3 DEF Finish
  <2>2. outcome[j] = "transient" => j \in RemedyJobs BY <1>1 DEF HandlerOK
  <2>3. PICK r \in Ended \cup {"none", "transient", "error"} : r = outcome[j] BY <1>1
  <2>4. CASE r # "none"
    <3>1. /\ status' \in [Operations -> {"absent", "queued", "running"} \cup Ended]
          /\ UNCHANGED <<attempts, cancel>> /\ transient' \subseteq Remedies
          /\ \A o \in Operations : status[o] # "absent" <=> status'[o] # "absent"
          /\ \A o \in Operations : status[o] = "succeeded" => status'[o] = "succeeded"
          /\ \A o \in Operations :
               status'[o] = "succeeded" => status[o] = "succeeded" \/ (o = j[1] /\ r = "succeeded")
      BY <1>0, <2>1, <2>2, <2>3, <2>4, ConcludeFacts
    <3>2. OperationTypes' BY <1>0, <2>1, <3>1 DEF OperationTypes
    <3>3. \A o \in Remedies : status'[o] = "succeeded" => status[o] = "succeeded" \/ HasEvidence(o)
      <4> SUFFICES ASSUME NEW o \in Remedies, status'[o] = "succeeded", status[o] # "succeeded"
                   PROVE  HasEvidence(o)
        OBVIOUS
      <4>1. o = j[1] /\ outcome[j] = "succeeded" BY <2>3, <3>1, JobKinds
      <4>2. j \in RemedyJobs BY <4>1, JobKinds
      <4> QED BY <1>1, <4>1, <4>2 DEF HandlerOK
    <3> QED BY <1>2, <2>1, <3>1, <3>2, <3>3, HandledInv
  <2>5. r # "none" BY <1>1, <2>1, <2>3 DEF HandlerOK
  <2> QED BY <2>4, <2>5
<1>4. CASE MonitorError(j)
  <2>1. /\ Conclude(j, "error") /\ faults' = faults + 1 /\ faults < MaxFaults
        /\ UNCHANGED <<scope, rows, clerk, handler>>
        /\ "error" \in Ended \cup {"none", "transient", "error"}
    BY <1>4 DEF MonitorError
  <2>2. /\ status' \in [Operations -> {"absent", "queued", "running"} \cup Ended]
        /\ UNCHANGED <<attempts, cancel>> /\ transient' \subseteq Remedies
        /\ \A o \in Operations : status[o] # "absent" <=> status'[o] # "absent"
        /\ \A o \in Operations : status[o] = "succeeded" => status'[o] = "succeeded"
        /\ \A o \in Operations : status'[o] = "succeeded" => status[o] = "succeeded"
    BY <1>0, <2>1, ConcludeFacts
  <2>3. faults' \in 0..MaxFaults BY <1>0, <2>1, Bounds DEF OperationTypes
  <2>4. OperationTypes' BY <1>0, <2>2, <2>3 DEF OperationTypes
  <2>5. UNCHANGED <<at, outcome>> BY <2>1 DEF handler
  <2>6. HandlerTypes' BY <1>0, <2>5 DEF HandlerTypes
  <2> QED BY <2>1, <2>2, <2>4, <2>5, <2>6, HandledInv, JobKinds
<1>5. CASE Die(j)
  <2>1. /\ at[j] # "none" /\ at' = [at EXCEPT ![j] = "over"] /\ outcome' = [outcome EXCEPT ![j] = "none"]
        /\ faults' = faults + 1 /\ faults < MaxFaults
        /\ UNCHANGED <<status, attempts, cancel, scope, transient, rows, clerk>>
    BY <1>5 DEF Die, Alive, operation
  <2>2. faults' \in 0..MaxFaults BY <1>0, <2>1, Bounds DEF OperationTypes
  <2>3. OperationTypes' BY <1>0, <2>1, <2>2 DEF OperationTypes
  <2> QED BY <1>2, <2>1, <2>3, HandledInv
<1> QED BY <1>3, <1>4, <1>5

LEMMA OperationSteps ==
  ASSUME RemedyInv, NEW o \in Operations, RequestCancel(o) \/ Lease(o) PROVE RemedyInv'
<1>0. OperationTypes /\ HandlerTypes BY DEF RemedyInv
<1>1. CASE RequestCancel(o)
  <2>1. /\ Queue!AskCancel(o) /\ faults' = faults + 1 /\ faults < MaxFaults
        /\ UNCHANGED <<scope, transient, rows, clerk, handler>>
    BY <1>1 DEF RequestCancel
  <2>2. /\ status' \in [Operations -> {"absent", "queued", "running"} \cup Ended]
        /\ attempts' = attempts /\ cancel' \in [Operations -> BOOLEAN]
        /\ \A p \in Operations : status[p] # "absent" <=> status'[p] # "absent"
        /\ \A p \in Operations : status[p] = "succeeded" <=> status'[p] = "succeeded"
    BY <1>0, <2>1 DEF Queue!AskCancel, OperationTypes, Ended
  <2>3. faults' \in 0..MaxFaults BY <1>0, <2>1, Bounds DEF OperationTypes
  <2>4. OperationTypes' BY <1>0, <2>1, <2>2, <2>3 DEF OperationTypes
  <2>5. UNCHANGED <<at, outcome>> BY <2>1 DEF handler
  <2>6. HandlerTypes' BY <1>0, <2>5 DEF HandlerTypes
  <2> QED BY <2>1, <2>2, <2>4, <2>5, <2>6, HandledInv, JobKinds
<1>2. CASE Lease(o)
  <2>1. /\ Queue!Begin(o) /\ attempts[o] < MaxAttempts /\ status[o] # "absent"
        /\ UNCHANGED <<scope, transient, rows, clerk, outcome>>
    BY <1>2 DEF Lease, Queue!Begin
  <2>2. /\ status' \in [Operations -> {"absent", "queued", "running"} \cup Ended]
        /\ attempts' = [attempts EXCEPT ![o] = @ + 1] /\ attempts' \in [Operations -> 0..MaxAttempts]
        /\ cancel' = cancel
        /\ \A p \in Operations : status[p] # "absent" <=> status'[p] # "absent"
        /\ \A p \in Operations : status[p] = "succeeded" <=> status'[p] = "succeeded"
    BY <1>0, <2>1, Bounds DEF Queue!Begin, OperationTypes, Ended
  <2>3. faults' \in 0..MaxFaults BY <1>0, <1>2, Bounds DEF Lease, OperationTypes
  <2>4. OperationTypes' BY <1>0, <2>1, <2>2, <2>3 DEF OperationTypes
  <2>5. PICK n \in Attempts : n = attempts'[o]
    BY <1>0, <2>1, <2>2, Bounds DEF OperationTypes, Attempts
  <2> DEFINE j == <<o, n>>
  <2>6. j \in Jobs /\ j[1] = o /\ at' = [at EXCEPT ![j] = "starting"] BY <1>2, <2>5 DEF Jobs, Lease
  <2> HIDE DEF j
  <2>7. /\ HandlerTypes' /\ at'[j] = "starting"
        /\ \A i \in Jobs : i # j => at'[i] = at[i]
    BY <1>0, <2>1, <2>6 DEF HandlerTypes
  <2>8. HandlerOK(j)'
    <3>1. HandlerOK(j) BY <2>6 DEF RemedyInv, Handlers
    <3>2. evidence' = evidence /\ outcome' = outcome /\ status'[j[1]] # "absent"
      BY <2>1, <2>2, <2>6 DEF rows
    <3> QED BY <2>7, <3>1, <3>2 DEF HandlerOK, HasEvidence
  <2>9. \A i \in Jobs : (at'[i] = at[i] /\ outcome'[i] = outcome[i]) \/ HandlerOK(i)'
    BY <2>1, <2>7, <2>8
  <2>10. \A i \in Jobs : at'[i] = "fetching" => at[i] = "fetching" BY <2>7
  <2> QED BY <2>1, <2>2, <2>4, <2>7, <2>9, <2>10, HandledInv, JobKinds
<1> QED BY <1>1, <1>2

---------------------------------------------------------------------------
(* The handlers.                                                           *)

(* A step of one handler at operations that stay as they are.              *)
LEMMA HandlerStep ==
  ASSUME RemedyInv, NEW j \in Jobs, at[j] # "none",
         NEW step \in {"none", "starting", "probing", "fetching", "returned", "over"},
         NEW result \in Ended \cup {"transient", "error"},
         Goes(j, step) \/ (step = "returned" /\ Returns(j, result)),
         step = "probing" => j \in RemedyJobs, step = "fetching" => j \notin RemedyJobs,
         step = "returned" => Returns(j, result),
         result = "transient" => j \in RemedyJobs,
         result = "succeeded" /\ j \in RemedyJobs => HasEvidence(j[1])',
         UNCHANGED <<operation>>, HasEvidence(j[1]) => HasEvidence(j[1])'
  PROVE  /\ HandlerTypes' /\ at'[j] = step
         /\ \A i \in Jobs : (at'[i] = at[i] /\ outcome'[i] = outcome[i]) \/ HandlerOK(i)'
         /\ \A i \in Jobs : i # j => at'[i] = at[i]
<1>0. HandlerTypes /\ HandlerOK(j) BY DEF RemedyInv, Handlers
<1>1. result \in Ended \cup {"none", "transient", "error"} OBVIOUS
<1>2. /\ at' = [at EXCEPT ![j] = step] /\ outcome' \in {outcome, [outcome EXCEPT ![j] = result]}
      /\ step = "returned" => outcome' = [outcome EXCEPT ![j] = result]
  BY DEF Goes, Returns
<1>3. /\ HandlerTypes' /\ at'[j] = step /\ outcome'[j] \in {outcome[j], result}
      /\ \A i \in Jobs : i # j => at'[i] = at[i] /\ outcome'[i] = outcome[i]
  BY <1>0, <1>1, <1>2, HandlerMoves
<1>4. step = "returned" => outcome'[j] = result BY <1>0, <1>2 DEF HandlerTypes
<1>5. status' = status /\ result # "none" BY DEF operation, Ended
<1>6. HandlerOK(j)' BY <1>0, <1>3, <1>4, <1>5 DEF HandlerOK
<1> QED BY <1>3, <1>6

LEMMA QuietStep ==
  ASSUME RemedyInv, NEW j \in Jobs, at[j] # "none",
         NEW step \in {"none", "starting", "probing", "fetching", "returned", "over"},
         NEW result \in {"cancelled", "failed", "partial"},
         Goes(j, step) \/ (step = "returned" /\ Returns(j, result)),
         step = "probing" => j \in RemedyJobs,
         step = "fetching" => j \notin RemedyJobs /\ TrialRests(j[1]),
         step = "returned" => Returns(j, result),
         UNCHANGED <<operation, scope, transient, faults, rows, clerk>>
  PROVE  RemedyInv'
<1>0. OperationTypes /\ HandlerOK(j) BY DEF RemedyInv, Handlers
<1>1. UNCHANGED <<status, attempts, cancel, evidence>> BY DEF operation, rows
<1>2. /\ result \in Ended \cup {"transient", "error"} /\ result \notin {"transient", "succeeded"}
      /\ HasEvidence(j[1]) => HasEvidence(j[1])'
  BY <1>1 DEF Ended, HasEvidence
<1>3. /\ HandlerTypes' /\ at'[j] = step
      /\ \A i \in Jobs : (at'[i] = at[i] /\ outcome'[i] = outcome[i]) \/ HandlerOK(i)'
      /\ \A i \in Jobs : i # j => at'[i] = at[i]
  BY <1>2, HandlerStep
<1>4. OperationTypes' BY <1>0, <1>1 DEF OperationTypes
<1>5. status[j[1]] # "absent" BY <1>0 DEF HandlerOK
<1>6. \A i \in Jobs : at'[i] = "fetching" =>
        at[i] = "fetching" \/ (TrialRests(i[1]) /\ status[i[1]] # "absent")
  BY <1>3, <1>5
<1> QED BY <1>1, <1>3, <1>4, <1>6, HandledInv, JobKinds

(* A checkpoint either lets the handler on or ends it.                     *)
LEMMA CheckpointStep ==
  ASSUME RemedyInv, NEW j \in Jobs, at[j] # "none", NEW next \in {"probing", "fetching"},
         Checkpoint(j, next) \/ Returns(j, "failed") \/ Returns(j, "partial"),
         next = "probing" => j \in RemedyJobs,
         next = "fetching" => j \notin RemedyJobs,
         next = "fetching" /\ Goes(j, next) => TrialRests(j[1]),
         UNCHANGED <<operation, scope, transient, faults, rows, clerk>>
  PROVE  RemedyInv'
<1>1. CASE Goes(j, next) BY <1>1, QuietStep
<1>2. ASSUME NEW r \in {"cancelled", "failed", "partial"}, Returns(j, r) PROVE RemedyInv'
  BY <1>2, QuietStep
<1> QED BY <1>1, <1>2 DEF Checkpoint

LEMMA LinkIsChain ==
  ASSUME RemedyInv, NEW s \in Sources, NEW p \in 1..Len(probes), ValidLink(s, p)
  PROVE  Chain(s, p)
<1>0. RowTypes /\ Requests /\ FrozenFailures BY DEF RemedyInv
<1> DEFINE e == probes[p].link
           o == evidence[e].op
<1>1. /\ probes[p].source = s /\ probes[p].outcome = "success" /\ e # 0
      /\ evidence[e].outcome = "succeeded" /\ o # None /\ evidence[e].source = s
      /\ status[o] = "succeeded" /\ scope[o].source = s /\ scope[o].original = evidence[e].original
  BY DEF ValidLink, Confirmed
<1>2. probes[p] \in ProbeRows /\ e \in 1..Len(evidence) BY <1>0, <1>1, RowFacts DEF RowTypes
<1>3. probes[p] = [source |-> s, outcome |-> "success", link |-> e] BY <1>1, <1>2 DEF ProbeRows
<1>4. evidence[e] \in EvidenceRows /\ DOMAIN evidence = 1..Len(evidence) BY <1>0, <1>2, RowFacts
<1>5. o \in Remedies BY <1>1, <1>4 DEF EvidenceRows
<1> HIDE DEF e, o
<1>6. Asked(scope[o]) BY <1>0, <1>1, <1>5 DEF Requests
<1>7. scope[o].original = frozen[s] /\ frozen[s] # 0 BY <1>1, <1>6, AskedFacts
<1>8. probes[frozen[s]].outcome = "failure" BY <1>0, <1>7 DEF FrozenFailures
<1> QED BY <1>1, <1>2, <1>3, <1>4, <1>5, <1>7, <1>8 DEF Chain, e, o

LEMMA StartSteps ==
  ASSUME RemedyInv, NEW j \in Jobs, SendProbe(j) \/ AdmitTrial(j) PROVE RemedyInv'
<1>1. CASE SendProbe(j)
  <2>1. /\ at[j] # "none" /\ j \in RemedyJobs
        /\ Checkpoint(j, "probing") \/ Returns(j, "failed")
        /\ UNCHANGED <<operation, scope, transient, faults, rows, clerk>>
    BY <1>1 DEF SendProbe
  <2> QED BY <1>1, <2>1, CheckpointStep DEF SendProbe
<1>2. CASE AdmitTrial(j)
  <2>1. /\ at[j] # "none" /\ j \notin RemedyJobs
        /\ UNCHANGED <<operation, scope, transient, faults, rows, clerk>>
    BY <1>2 DEF AdmitTrial
  <2>2. j[1] \in Trials /\ status[j[1]] # "absent"
    BY <2>1, JobKinds DEF RemedyInv, Handlers, HandlerOK
  <2>3. AskedTrial(scope[j[1]]) BY <2>2 DEF RemedyInv, Requests
  <2>4. CASE Admitted(scope[j[1]].source, scope[j[1]].content)
    <3>1. PICK s \in Sources, p \in 1..Len(probes) : scope[j[1]] = Trial(s, p)
      BY <2>3 DEF AskedTrial
    <3>2. scope[j[1]].source = s /\ scope[j[1]].content = p BY <3>1 DEF Trial
    <3>3. Chain(s, p) BY <2>4, <3>2, LinkIsChain DEF Admitted
    <3>4. TrialRests(j[1]) BY <3>2, <3>3 DEF TrialRests
    <3>5. Checkpoint(j, "fetching") BY <1>2, <2>4 DEF AdmitTrial
    <3> QED BY <2>1, <3>4, <3>5, CheckpointStep
  <2>5. CASE ~Admitted(scope[j[1]].source, scope[j[1]].content)
    <3>1. Returns(j, "partial") BY <1>2, <2>5 DEF AdmitTrial
    <3> QED BY <2>1, <3>1, QuietStep
  <2> QED BY <2>4, <2>5
<1> QED BY <1>1, <1>2

(* The evidence of an attempt is there before its result.                  *)
LEMMA ProbeEndsStep == ASSUME RemedyInv, NEW j \in Jobs, ProbeEnds(j) PROVE RemedyInv'
<1>0. /\ OperationTypes /\ RowTypes /\ FrozenFailures /\ Requests /\ HandlerOK(j)
      /\ at[j] = "probing" /\ at[j] # "none"
      /\ UNCHANGED <<operation, scope, transient, faults, frozen, probes, fetches, clerk>>
  BY DEF RemedyInv, Handlers, ProbeEnds
<1>1. j \in RemedyJobs /\ status[j[1]] # "absent" /\ j[1] \in Remedies
  BY <1>0, JobKinds DEF HandlerOK
<1>2. CASE UNCHANGED evidence /\ (Returns(j, "cancelled") \/ Returns(j, "failed"))
  <2>1. UNCHANGED rows BY <1>0, <1>2 DEF rows
  <2> QED BY <1>0, <1>2, <2>1, QuietStep
<1>3. ASSUME NEW result \in {"succeeded", "partial", "transient"}, Len(evidence) < MaxEvidence,
             evidence' = Saved(j[1],
               [source |-> scope[j[1]].source, key |-> scope[j[1]].key,
                original |-> scope[j[1]].original, op |-> j[1], outcome |-> OutcomeOf(result)]),
             Returns(j, result)
      PROVE  RemedyInv'
  <2>1. PICK s \in Sources, k \in Keys, r \in Remedies \cup {None} :
          scope[j[1]] = Remedy(s, k, frozen[s], r)
    BY <1>0, <1>1 DEF Requests, Asked
  <2>2. PICK p \in 0..MaxProbes : p = frozen[s] BY <1>0 DEF RowTypes
  <2>3. PICK v \in {"succeeded", "blocked"} :
          v = OutcomeOf(result) /\ (result = "succeeded" => v = "succeeded")
    BY DEF OutcomeOf
  <2> DEFINE x == [source |-> s, key |-> k, original |-> p, op |-> j[1], outcome |-> v]
  <2>4. evidence' = Append(evidence, x) BY <1>3, <2>1, <2>2, <2>3 DEF Saved, Remedy
  <2>5. x \in EvidenceRows /\ x.op = j[1] /\ x.outcome = v BY <1>1 DEF EvidenceRows
  <2> HIDE DEF x
  <2>6. /\ evidence' \in Seq(EvidenceRows) /\ Len(evidence') = Len(evidence) + 1
        /\ Len(evidence) \in Nat /\ evidence'[Len(evidence) + 1] = x
        /\ \A i \in 1..Len(evidence) : i \in 1..Len(evidence') /\ evidence'[i] = evidence[i]
    BY <1>0, <2>4, <2>5, Appended DEF RowTypes
  <2>7. UNCHANGED <<status, attempts, cancel>> BY <1>0 DEF operation
  <2>8. OperationTypes' BY <1>0, <2>7 DEF OperationTypes
  <2>9. RowTypes'
    <3>1. /\ Len(evidence) < MaxEvidence /\ MaxEvidence \in Nat /\ Len(evidence) \in Nat
          /\ Len(evidence') = Len(evidence) + 1
      BY <1>3, <2>6, Bounds
    <3>2. Len(evidence') \in 0..MaxEvidence BY ONLY <3>1
    <3>3. RowTypes /\ UNCHANGED <<probes, fetches, frozen>> BY <1>0
    <3>4. ASSUME NEW q \in 1..Len(probes') PROVE probes'[q].link \in 0..Len(evidence')
      <4>1. q \in 1..Len(probes) /\ probes'[q] = probes[q] BY <3>3
      <4>2. probes[q].link \in 0..Len(evidence) BY <3>3, <4>1 DEF RowTypes
      <4> QED BY ONLY <3>1, <4>1, <4>2
    <3>5. evidence' \in Seq(EvidenceRows) BY <2>6
    <3> QED BY ONLY <3>2, <3>3, <3>4, <3>5 DEF RowTypes
  <2>10. FrozenFailures' BY <1>0 DEF FrozenFailures
  <2>11. Keeps BY <1>0, <2>6, <2>7 DEF Keeps
  <2>12. HasEvidence(j[1]) => HasEvidence(j[1])' BY <2>6 DEF HasEvidence
  <2>13. result = "succeeded" => HasEvidence(j[1])'
    <3> SUFFICES ASSUME result = "succeeded" PROVE HasEvidence(j[1])'
      OBVIOUS
    <3>1. Len(evidence) + 1 \in 1..Len(evidence') BY <2>6
    <3>2. evidence'[Len(evidence) + 1].op = j[1] /\ evidence'[Len(evidence) + 1].outcome = "succeeded"
      BY <2>3, <2>5, <2>6
    <3> QED BY <3>1, <3>2 DEF HasEvidence
  <2>14. result \in Ended \cup {"transient", "error"} BY DEF Ended
  <2>15. /\ HandlerTypes' /\ at'[j] = "returned"
         /\ \A i \in Jobs : (at'[i] = at[i] /\ outcome'[i] = outcome[i]) \/ HandlerOK(i)'
         /\ \A i \in Jobs : i # j => at'[i] = at[i]
    BY <1>0, <1>1, <1>3, <2>12, <2>13, <2>14, HandlerStep
  <2>16. (DOMAIN scope)' = Operations /\ clerk' \in [Clerks -> {Idle} \cup ClearRows]
    BY <1>0 DEF Requests
  <2> QED BY <1>0, <2>7, <2>8, <2>9, <2>10, <2>11, <2>15, <2>16, KeptInv
<1> QED BY <1>0, <1>2, <1>3 DEF ProbeEnds

LEMMA EndTrialStep == ASSUME RemedyInv, NEW j \in Jobs, EndTrial(j) PROVE RemedyInv'
<1>0. /\ OperationTypes /\ RowTypes /\ FrozenFailures /\ Requests /\ HandlerOK(j)
      /\ at[j] = "fetching" /\ at[j] # "none"
      /\ UNCHANGED <<operation, scope, transient, faults, frozen, probes, evidence, clerk>>
  BY DEF RemedyInv, Handlers, EndTrial
<1>1. j \notin RemedyJobs /\ status[j[1]] # "absent" /\ j[1] \in Trials
  BY <1>0, JobKinds DEF HandlerOK
<1>2. TrialRests(j[1]) BY <1>0 DEF RemedyInv, TrialsRestOnEvidence, TrialRests
<1>3. PICK end \in {"running", "succeeded", "failed"}, result \in {"cancelled", "error", "succeeded"} :
        fetches' = Append(fetches, [op |-> j[1], outcome |-> end]) /\ Returns(j, result)
  <2>1. ASSUME NEW r \in {"succeeded", "failed"}, fetches' = Append(fetches, [op |-> j[1], outcome |-> r]),
               Returns(j, IF r = "failed" THEN "error" ELSE r)
        PROVE  \E end \in {"running", "succeeded", "failed"}, result \in {"cancelled", "error", "succeeded"} :
                 fetches' = Append(fetches, [op |-> j[1], outcome |-> end]) /\ Returns(j, result)
    <3>1. CASE r = "failed" BY <2>1, <3>1
    <3>2. CASE r = "succeeded" BY <2>1, <3>2
    <3> QED BY <3>1, <3>2
  <2> QED BY <2>1 DEF EndTrial
<1> DEFINE x == [op |-> j[1], outcome |-> end]
<1>4. x \in FetchRows /\ x.op = j[1] BY <1>1 DEF FetchRows
<1> HIDE DEF x
<1>5. /\ fetches' \in Seq(FetchRows) /\ Len(fetches) \in Nat
      /\ fetches'[Len(fetches) + 1] = x
      /\ \A i \in 1..Len(fetches) : fetches'[i] = fetches[i]
      /\ \A i \in 1..Len(fetches') : i \in 1..Len(fetches) \/ i = Len(fetches) + 1
  BY <1>0, <1>3, <1>4, Appended DEF RowTypes, x
<1>6. UNCHANGED <<status, attempts, cancel>> BY <1>0 DEF operation
<1>7. OperationTypes' /\ RowTypes' /\ FrozenFailures'
  BY <1>0, <1>5, <1>6 DEF OperationTypes, RowTypes, FrozenFailures
<1>8. Keeps BY <1>0, <1>6 DEF Keeps
<1>9. \A f \in 1..Len(fetches') :
        \/ f \in 1..Len(fetches) /\ fetches'[f] = fetches[f]
        \/ \E o \in Trials : fetches'[f].op = o /\ TrialRests(o) /\ status[o] # "absent"
  BY <1>1, <1>2, <1>4, <1>5
<1>10. result \in Ended \cup {"transient", "error"} /\ result # "transient" BY DEF Ended
<1>11. HasEvidence(j[1]) => HasEvidence(j[1])' BY <1>0 DEF HasEvidence
<1>12. /\ HandlerTypes' /\ at'[j] = "returned"
       /\ \A i \in Jobs : (at'[i] = at[i] /\ outcome'[i] = outcome[i]) \/ HandlerOK(i)'
       /\ \A i \in Jobs : i # j => at'[i] = at[i]
  BY <1>0, <1>1, <1>3, <1>10, <1>11, HandlerStep
<1>13. (DOMAIN scope)' = Operations /\ clerk' \in [Clerks -> {Idle} \cup ClearRows]
  BY <1>0 DEF Requests
<1> QED BY <1>0, <1>6, <1>7, <1>8, <1>9, <1>12, <1>13, KeptInv

---------------------------------------------------------------------------
LEMMA RemedyInvInit == Init => RemedyInv
<1> SUFFICES ASSUME Init PROVE RemedyInv
  OBVIOUS
<1>1. OperationTypes BY Bounds DEF Init, Queue!ContractInit, OperationTypes
<1>2. probes = <<>> /\ evidence = <<>> /\ fetches = <<>> BY DEF Init
<1>3. Len(probes) = 0 /\ Len(evidence) = 0 /\ Len(fetches) = 0 BY <1>2
<1>4. RowTypes
  <2>1. probes \in Seq(ProbeRows) /\ evidence \in Seq(EvidenceRows) /\ fetches \in Seq(FetchRows)
    BY <1>2
  <2>2. frozen \in [Sources -> 0..MaxProbes] BY Bounds DEF Init
  <2> QED BY <1>3, <2>1, <2>2, Bounds DEF RowTypes
<1>5. HandlerTypes BY DEF Init, HandlerTypes
<1>6. FrozenFailures BY DEF Init, FrozenFailures
<1>7. Requests
  <2>1. DOMAIN scope = Operations BY DEF Init
  <2>2. \A o \in Operations : status[o] = "absent" BY DEF Init, Queue!ContractInit
  <2>3. clerk \in [Clerks -> {Idle} \cup ClearRows] /\ \A c \in Clerks : clerk[c].at = "idle"
    BY DEF Init, Idle
  <2> QED BY <1>3, <2>1, <2>2, <2>3, JobKinds DEF Requests
<1>8. Handlers BY DEF Init, Handlers, HandlerOK
<1>9. SuccessIsEvidenced BY JobKinds DEF Init, Queue!ContractInit, SuccessIsEvidenced
<1>10. TrialsRestOnEvidence
  <2>1. DOMAIN fetches = {} BY <1>2
  <2> QED BY <2>1 DEF Init, TrialsRestOnEvidence
<1> QED BY <1>1, <1>4, <1>5, <1>6, <1>7, <1>8, <1>9, <1>10 DEF RemedyInv

LEMMA RemedyInvNext == RemedyInv /\ [Next]_vars => RemedyInv'
<1> SUFFICES ASSUME RemedyInv, [Next]_vars PROVE RemedyInv'
  OBVIOUS
<1>1. CASE UNCHANGED vars
  <2>1. UNCHANGED <<operation, scope, transient, faults, rows, clerk, handler,
                    status, attempts, cancel, at, outcome>>
    BY <1>1 DEF vars, operation, handler
  <2>2. OperationTypes' /\ HandlerTypes'
    BY <2>1 DEF RemedyInv, OperationTypes, HandlerTypes
  <2> QED BY <2>1, <2>2, HandledInv, JobKinds
<1>2. CASE \E s \in Sources : \E e \in 0..Len(evidence), r \in {"success", "failure"} : ProbeContent(s, e, r)
  BY <1>2, ProbeStep
<1>3. CASE Freeze BY <1>3, FreezeStep
<1>4. CASE \E s \in Sources, k \in Keys : ResearchProbe(s, k) BY <1>4, ResearchStep
<1>5. CASE \E c \in Clerks :
             \/ \E s \in Sources, k \in Keys : \E p \in DOMAIN probes : AskRemedy(c, s, k, p)
             \/ \E o \in Remedies : AskRetry(c, o)
  BY <1>5, AskSteps
<1>6. CASE \/ \E c \in Clerks : \E o \in Remedies : InsertRemedy(c, o)
           \/ \E o \in Trials, s \in Sources : \E p \in DOMAIN probes : EnqueueTrial(o, s, p)
  BY <1>6, SubmitSteps
<1>7. CASE \E o \in Operations : RequestCancel(o) \/ Lease(o) BY <1>7, OperationSteps
<1>8. CASE \E j \in Jobs : Finish(j) \/ MonitorError(j) \/ Die(j) BY <1>8, EndSteps
<1>9. CASE \E j \in Jobs : SendProbe(j) \/ AdmitTrial(j) BY <1>9, StartSteps
<1>10. CASE \E j \in Jobs : ProbeEnds(j) BY <1>10, ProbeEndsStep
<1>11. CASE \E j \in Jobs : EndTrial(j) BY <1>11, EndTrialStep
<1> QED BY <1>1, <1>2, <1>3, <1>4, <1>5, <1>6, <1>7, <1>8, <1>9, <1>10, <1>11 DEF Next

LEMMA Invariance == Spec => []RemedyInv
BY RemedyInvInit, RemedyInvNext, PTL DEF Spec

(* Every trial fetch that sends a request, and every run it leaves, rests  *)
(* on a chain of evidence (is_valid_remediation_content_link), for any     *)
(* number of sources, operations, attempts and faults.                     *)
THEOREM EvidencedTrials == Spec => []TrialsRestOnEvidence
<1>1. RemedyInv => TrialsRestOnEvidence BY DEF RemedyInv
<1> QED BY <1>1, Invariance, PTL

(* What the report calls verified can be traced through the rows it joins, *)
(* and an operation that succeeded has evidence (enriched_manifest).       *)
THEOREM TraceableVerdicts == Spec => []VerdictsAreTraceable
<1>1. RemedyInv => VerdictsAreTraceable
  <2> SUFFICES ASSUME RemedyInv PROVE VerdictsAreTraceable
    OBVIOUS
  <2>0. /\ OperationTypes /\ RowTypes /\ HandlerTypes /\ FrozenFailures /\ Requests
        /\ SuccessIsEvidenced /\ TrialsRestOnEvidence
    BY DEF RemedyInv
  <2>1. TypeOK
    <3>1. \A o \in Operations : status[o] \in {"absent", "queued", "running"} \cup Ended
      BY <2>0 DEF OperationTypes
    <3> QED BY <2>0, <3>1 DEF TypeOK, OperationTypes, RowTypes, HandlerTypes, Requests,
                 ProbeRows, EvidenceRows, FetchRows, ClearRows, AskedScopes
  <2>2. ASSUME NEW s \in Sources, Verified(s)
        PROVE  Chain(s, ContentAfter(s)) /\ probes[ContentAfter(s)].link = LinkedEvidence(s)
    <3> DEFINE e == LinkedEvidence(s)
               contents == {p \in DOMAIN probes : probes[p].source = s /\ probes[p].link = e}
               p == ContentAfter(s)
               runs == {f \in DOMAIN fetches :
                          status[fetches[f].op] = "succeeded" /\ scope[fetches[f].op] = Trial(s, p)}
    <3>1. p # 0 /\ TrialAfter(s) # 0 BY <2>2 DEF Verified
    <3>2. p = Newest(contents) BY <3>1 DEF ContentAfter
    <3>3. contents \subseteq 1..Len(probes) /\ Len(probes) \in Nat BY <2>0, RowFacts
    <3>4. p \in contents
      <4> HIDE DEF contents, p
      <4> QED BY <3>1, <3>2, <3>3, NewestIsOne
    <3>5. TrialAfter(s) = Newest(runs)
      <4>1. runs = {f \in DOMAIN fetches :
                      LET o == fetches[f].op IN
                        p # 0 /\ status[o] = "succeeded" /\ scope[o] = Trial(s, p)}
        BY <3>1
      <4> QED BY <4>1 DEF TrialAfter
    <3>6. runs \subseteq 1..Len(fetches) /\ Len(fetches) \in Nat BY <2>0, RowFacts
    <3>7. TrialAfter(s) \in runs
      <4> HIDE DEF runs
      <4> QED BY <3>1, <3>5, <3>6, NewestIsOne
    <3>8. Chain(s, p)
      <4>1. TrialAfter(s) \in DOMAIN fetches /\ scope[fetches[TrialAfter(s)].op] = Trial(s, p)
        BY <3>7
      <4>2. scope[fetches[TrialAfter(s)].op].source = s /\ scope[fetches[TrialAfter(s)].op].content = p
        BY <4>1 DEF Trial
      <4> HIDE DEF p
      <4> QED BY <2>0, <4>1, <4>2 DEF TrialsRestOnEvidence
    <3> QED BY <3>4, <3>8
  <2> QED BY <2>0, <2>1, <2>2 DEF VerdictsAreTraceable, VerifiedIsTraceable
<1> QED BY <1>1, Invariance, PTL
=============================================================================
