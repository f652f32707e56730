---------------------------- MODULE SourceRules ----------------------------
(***************************************************************************)
(* What may be done with a source, as the parts of the program that touch  *)
(* it decide each for itself: the plan of a news wave (waves/planning.py), *)
(* the gate of a fetch (ingestion/eligibility.py), the gate of a trial     *)
(* (ingestion/trial.py) and the fetchers it may use                        *)
(* (ingestion/fetchers/base.py), the lanes of a catalog refresh            *)
(* (sources/catalog_refresh.py) and the health wave                        *)
(* (sources/health_wave.py); and what the answers of its server are taken  *)
(* for, by the probes of a refresh and by a fetch.                         *)
(*                                                                         *)
(* They are functions without state; the specification enumerates what     *)
(* they are applied to.                                                    *)
(***************************************************************************)
EXTENDS Naturals, Sequences, FiniteSetsExt

CONSTANTS
  Definitions,  \* of sources
  Credentials,  \* that may be configured
  MaxAnswers    \* asked for by one probe or fetch               (bound)

NoProbe == [kind |-> "none", outcome |-> "none", sound |-> FALSE]
NoKind == "none"
Refused == [kind |-> "none", host |-> "none", approval |-> TRUE, auth |-> {}, secret |-> FALSE]

(* A method has a kind ("rss": any feed, "timeline": a public API at a     *)
(* path of Mastodon's, "api" any other), a kind of host ("site",           *)
(* "audited": one with a fetcher of its own, "keyed": one whose fetcher    *)
(* reads credentials by itself), needs an approval or not, names           *)
(* credentials, and may carry headers that are secret.  A definition lists *)
(* its methods by priority: one at least; HTML needs an approval           *)
(* (AccessMethod), and any kind may be at any host.                        *)
ASSUME SourcesAssumption ==
  /\ MaxAnswers \in Nat
  /\ \A d \in Definitions :
       /\ Len(d.methods) \in Nat \ {0} /\ DOMAIN d.methods = 1..Len(d.methods)
       /\ \A i \in DOMAIN d.methods : LET m == d.methods[i] IN
            /\ m.kind # NoKind /\ m.approval \in BOOLEAN
            /\ m.kind = "html" => m.approval

Automatic(m) == m.kind # "html" /\ ~m.approval

(* The first of some of the methods of a definition.                       *)
First(d, ids) == IF ids = {} THEN Refused ELSE d.methods[Min(ids)]

---------------------------------------------------------------------------
(* The gates.                                                              *)

Barred(d) ==
  \/ d.blocked \/ d.status \in {"paused", "disabled"}
  \/ d.availability \notin {"ready", "requires_credentials"}
  \/ d.coverage = "catalog_only"

(* evaluate_fetch_eligibility: the method that is fetched.                 *)
Allowed(d, free) ==
  {i \in DOMAIN d.methods : LET m == d.methods[i] IN
     Automatic(m) /\ (free => m.auth = {} /\ ~m.secret)}
Configured(d, ids, creds) == {i \in ids : d.methods[i].auth \subseteq creds}
Keyed(d, ids) == {i \in ids : d.methods[i].auth # {}}
Fallback(d, ids) == {i \in ids \ Keyed(d, ids) : ~d.methods[i].secret}

Fetched(d, approvedOnly, creds, free) ==
  LET allowed == Allowed(d, free)  keyed == Keyed(d, allowed) IN
    IF Barred(d) \/ (approvedOnly /\ ~d.enabled) THEN Refused
    ELSE IF d.availability = "ready" THEN First(d, Configured(d, allowed, creds))
    ELSE IF Configured(d, keyed, creds) # {} THEN First(d, Configured(d, keyed, creds))
    ELSE IF keyed # {} THEN First(d, Fallback(d, allowed)) ELSE Refused

(* evaluate_trial_eligibility, from the latest probe.                      *)
TrialEligible(d, probe) ==
  /\ probe # NoProbe
  /\ d.coverage = "direct" /\ d.availability = "ready" /\ ~d.blocked
  /\ \E i \in DOMAIN d.methods : LET m == d.methods[i] IN Automatic(m) /\ m.auth = {} /\ ~m.secret
  /\ probe.outcome = "success" /\ probe.sound

(* FetcherFactory.for_method: what fetches it.  For a trial the method     *)
(* must be declared free of credentials; the fetcher is the one of the     *)
(* host all the same, if the host has one.                                 *)
AnyHost == {"rss", "timeline"}   \* kinds that have a fetcher on any host
CredentialFree(m) == m.host = "audited" \/ m.kind \in AnyHost
Fetcher(m, free) ==
  IF free /\ (m.secret \/ ~CredentialFree(m)) THEN "refused"
  ELSE IF m.host = "keyed" THEN "keyed"
  ELSE IF m.host = "audited" \/ m.kind \in AnyHost THEN "open"
  ELSE "unsupported"

(* execute_production_fetch of a trial: its two gates, and the refusal of  *)
(* the factory, which looks at the one method that the gates let through.  *)
Passed(d, probe, creds) ==
  IF ~TrialEligible(d, probe) THEN Refused ELSE Fetched(d, FALSE, creds, TRUE)
Tried(d, probe, creds) ==
  LET m == Passed(d, probe, creds) IN IF Fetcher(m, TRUE) = "refused" THEN Refused ELSE m

---------------------------------------------------------------------------
(* The plan of a wave.                                                     *)

MethodOf(d, kind) == First(d, {i \in DOMAIN d.methods : d.methods[i].kind = kind})

(* _pick_method: the one that was probed, or else the one fetched before.  *)
Picked(d, probe, before) ==
  IF probe.outcome = "success" THEN MethodOf(d, probe.kind)
  ELSE IF before # NoKind THEN MethodOf(d, before) ELSE Refused

(* _member: it is fetchable.                                               *)
Planned(d, probe, before, creds) ==
  LET m == Picked(d, probe, before) IN
    /\ m # Refused /\ m.auth \subseteq creds /\ ~m.approval
    /\ d.availability \in {"ready", "requires_credentials"}
    /\ d.enabled /\ d.coverage = "direct"

---------------------------------------------------------------------------
(* Health waves and catalog refreshes.                                     *)

(* select_health_wave; the provider it names is left out.                  *)
HealthCandidate(d, probe, creds) ==
  LET m == Head(d.methods) IN
    /\ d.coverage # "catalog_only" /\ Automatic(m)
    /\ m.auth \subseteq creds /\ d.availability = "ready"
    /\ probe = NoProbe \/ (probe.outcome = "failed" /\ probe.kind = "rss")

(* _route *)
Lane(d, creds) ==
  LET m == Head(d.methods) IN
    IF d.coverage = "catalog_only" \/ d.availability = "manual_only" \/ m.kind = "html" THEN "catalog"
    ELSE IF d.availability # "ready" \/ ~(m.auth \subseteq creds) THEN "capability"
    ELSE "content"

(* _run_catalog_member, and _run_capability_group once the platform is     *)
(* there; the definition has not changed.  Either calls a member stale     *)
(* whose source is not ready (_source_is_unavailable_or_archived).         *)
Verified(d, creds, complete) ==
  IF d.availability # "ready" THEN "stale_result"
  ELSE IF Lane(d, creds) = "catalog"
    THEN IF complete THEN "catalog_verified" ELSE "catalog_incomplete"
  ELSE "missing_credentials"

---------------------------------------------------------------------------
(* The answers of a server.                                                *)

Answers == {"good", "unchanged", "empty", "thin", "gone", "denied", "limited", "busy",
            "lost", "unreachable", "slow", "garbled"}
NoCode == "none"

(* BaseProbe.probe, RssProbe and JsonApiProbe: the outcome and the error   *)
(* of a probe, and what result_code_for_probe makes of them.               *)
OutcomeOf(a) ==
  CASE a = "good" -> "success" [] a \in {"empty", "thin"} -> "degraded"
    [] a \in {"denied", "limited"} -> "blocked" [] OTHER -> "failed"
CodeOf(a) ==
  CASE a = "empty" -> "no_content" [] a = "thin" -> "incomplete_fields"
    [] a = "limited" -> "rate_limited" [] a = "slow" -> "timeout"
    [] a = "unreachable" -> "connection_error" [] a = "denied" -> "requires_approval"
    [] OTHER -> NoCode
TransientCodes == {"timeout", "connection_error", "rate_limited"}
StateForCode(code) ==
  CASE code \in {"no_content", "incomplete_fields"} -> "degraded"
    [] code = "requires_approval" -> "blocked" [] OTHER -> "failed"

(* A wrong one: a transient error may be tried again every round. *)
RoundAgain(r, a) ==
  IF CodeOf(a) \in TransientCodes /\ r.good = 0 THEN [r EXCEPT !.retried = TRUE]
  ELSE IF OutcomeOf(a) # "success" THEN [r EXCEPT !.verdict = StateForCode(CodeOf(a))]
  ELSE [r EXCEPT !.good = @ + 1, !.verdict = IF r.good = 2 THEN "succeeded" ELSE "open"]

(* _run_content_member: three rounds, and one more probe after a transient *)
(* error; what the server asks to wait for does not reach it, since the    *)
(* result of a failed probe carries no headers.                            *)
Round(r, a) ==
  IF a # "lost" /\ CodeOf(a) \in TransientCodes /\ ~r.retried THEN [r EXCEPT !.retried = TRUE]
  ELSE IF a = "lost" \/ CodeOf(a) # NoCode \/ OutcomeOf(a) # "success"
    THEN [r EXCEPT !.verdict = StateForCode(CodeOf(a))]
  ELSE [r EXCEPT !.good = @ + 1, !.verdict = IF r.good = 2 THEN "succeeded" ELSE "open"]
NoRound == [good |-> 0, retried |-> FALSE, verdict |-> "open"]

(* HttpPolicy.get: it is asked again after a lost connection or a server   *)
(* that is busy, twice.                                                    *)
Transient == {"limited", "busy", "lost", "unreachable"}
Asked(s) == Len(s) < 3 /\ (s # <<>> => s[Len(s)] \in Transient)

(* The result of RssFetcher, which raises for every status from 400 on,    *)
(* or of a fetcher that knows the limit ("audited"), with the exception    *)
(* IngestionService._fetch_eligible makes a result of.                     *)
FetchResult(a, host) ==
  CASE a \in {"good", "empty", "thin"} -> [outcome |-> "succeeded", http |-> 200, category |-> NoCode, code |-> NoCode]
    [] a = "unchanged" -> [outcome |-> "no_change", http |-> 304, category |-> NoCode, code |-> NoCode]
    [] a = "limited" /\ host = "audited" ->
         [outcome |-> "failed", http |-> 429, category |-> NoCode, code |-> "rate_limited"]
    [] a = "slow" -> [outcome |-> "failed", http |-> 0, category |-> "transport", code |-> "source_timeout"]
    [] OTHER -> [outcome |-> "failed", http |-> 0, category |-> NoCode, code |-> "fetch_failed"]

(* _is_retryable_fetch_failure, of the codes above.                        *)
Retryable(r) ==
  /\ r.outcome = "failed"
  /\ \/ r.http \in {408, 425, 429} \/ r.http >= 500
     \/ r.http < 400 /\ r.category \in {NoCode, "transport"}

---------------------------------------------------------------------------
(* The inputs.                                                             *)

VARIABLES
  question,  \* "nothing", "source", "probes" or "fetch"
  about,     \* a definition, its latest probe, the kind that was fetched
             \* and the credentials; the answers so far
  weighed    \* what the rounds of a refresh made of them so far
sourceVars == <<question, about, weighed>>

SourceInit == question = "nothing" /\ about = <<>> /\ weighed = NoRound

LatestProbes(d) ==
  {NoProbe} \cup [kind : {d.methods[i].kind : i \in DOMAIN d.methods},
                  outcome : {"success", "failed"}, sound : {TRUE}]
            \cup [kind : {Head(d.methods).kind}, outcome : {"success"}, sound : {FALSE}]
Look ==
  /\ question = "nothing" /\ question' = "source"
  /\ \E d \in Definitions, creds \in SUBSET Credentials :
     \E p \in LatestProbes(d), k \in {NoKind, d.methods[1].kind} :
       about' = [def |-> d, probe |-> p, before |-> k, creds |-> creds]
  /\ UNCHANGED weighed
Probe ==
  /\ question \in {"nothing", "probes"} /\ Len(about) < MaxAnswers
  /\ weighed.verdict = "open" /\ question' = "probes"
  /\ \E a \in Answers \ {"unchanged"} : about' = Append(about, a) /\ weighed' = Round(weighed, a)
Get ==
  /\ question \in {"nothing", "fetch"} /\ Asked(about)
  /\ question' = "fetch" /\ \E a \in Answers : about' = Append(about, a)
  /\ UNCHANGED weighed

SourceNext == Look \/ Probe \/ Get
SourceSpec == SourceInit /\ [][SourceNext]_sourceVars

---------------------------------------------------------------------------
(* Properties.                                                             *)

(* What a wave calls fetchable its fetch does not refuse, though the two   *)
(* look at different things: only a source that was paused, disabled or    *)
(* blocked, which the plan does not look at, or one that requires          *)
(* credentials and was reached without them.  It is fetched without an     *)
(* approval or a credential that is missing.  What a health wave probes, a *)
(* refresh would probe too.                                                *)
PlannedIsFetched ==
  question = "source" => LET d == about.def  m == Fetched(d, TRUE, about.creds, FALSE) IN
    /\ Planned(d, about.probe, about.before, about.creds) =>
         /\ m = Refused => d.blocked \/ d.status # "active"
              \/ (d.availability = "requires_credentials"
                  /\ Picked(d, about.probe, about.before).auth = {})
         /\ m # Refused => Automatic(m) /\ m.auth \subseteq about.creds
    /\ HealthCandidate(d, about.probe, about.creds) => Lane(d, about.creds) = "content"

(* A trial is of a method that names no credential and sends no secret     *)
(* header, whatever is configured; its fetcher reads one only for a feed   *)
(* or a timeline that a platform with a fetcher of its own offers.  What   *)
(* may be tried is refused only if the source is paused or disabled, or if *)
(* the first method that may be tried is not declared free of credentials, *)
(* also when a later one is.                                               *)
TrialsUseNoCredentials ==
  question = "source" => LET d == about.def  m == Tried(d, about.probe, about.creds) IN
    /\ m # Refused => /\ m.auth = {} /\ ~m.secret
                      /\ Fetcher(m, TRUE) = "keyed" => m.host = "keyed" /\ m.kind \in AnyHost
    /\ TrialEligible(d, about.probe) /\ m = Refused =>
         d.status # "active" \/ ~CredentialFree(First(d, Allowed(d, TRUE)))

(* A refresh takes a source for readable after three good probes, with at  *)
(* most one that failed for a transient reason in between, and asks no     *)
(* more than that; a fetch asks at most three times, and again only after  *)
(* what may pass.  What may pass is tried again by the queue.              *)
AnswersAreWeighed ==
  /\ question = "probes" =>
       /\ Len(about) <= 4
       /\ weighed.verdict = "succeeded" =>
            /\ Cardinality({i \in DOMAIN about : about[i] = "good"}) = 3
            /\ \A i \in DOMAIN about : about[i] = "good" \/ CodeOf(about[i]) \in TransientCodes
  /\ question = "fetch" =>
       /\ Len(about) <= 3 /\ \A i \in 1 .. Len(about) - 1 : about[i] \in Transient
       /\ LET last == about[Len(about)] IN
            ~Asked(about) /\ last \in Transient \cup {"slow"}
              => \A host \in {"site", "audited"} : Retryable(FetchResult(last, host))

(* Sources are asked in the ways that are allowed, and as often as their   *)
(* answers call for.                                                       *)
AccessIsAsAllowed == PlannedIsFetched /\ TrialsUseNoCredentials /\ AnswersAreWeighed
=============================================================================
