----------------------------- MODULE EventRules -----------------------------
(***************************************************************************)
(* The rules by which raw items become events: which items are news of     *)
(* artificial intelligence (relevance, newsworthiness), which pairs report *)
(* the same event and what becomes of them (clustering, pairing), what a   *)
(* cluster of them proves (evidence, scoring, ranking), and which events   *)
(* are proposed for a merge (event_merges.rules).                          *)
(*                                                                         *)
(* They are functions without state; the specification only enumerates     *)
(* what they are applied to: a text, the items of a run in the order of    *)
(* their identifiers, or two events.  A text is the set of the terms found *)
(* in it, one term for each list of the rules.                             *)
(***************************************************************************)
EXTENDS Naturals, Sequences, FiniteSetsExt

CONSTANTS
  Texts,         \* what the text of a raw item may contain
  Stories,       \* what the item may tell of an event
  Witnesses,     \* what it may prove of it
  Facts1, Facts2, \* what may be known of two events
  MaxStories     \* items of one run                               (bound)

Absent == "absent"  \* no original URL, no publisher, no action
NoTime == 0      \* no time of publication
ASSUME RulesAssumption ==
  /\ MaxStories \in Nat
  /\ \A i \in Stories : i.at \in Nat /\ i.url # Absent  \* canonical_url is NOT NULL
  /\ \A w \in Witnesses : w.role \in {"official", "media", "research", "community"}

Window == 2  \* 48 hours; the times are in days

---------------------------------------------------------------------------
(* Relevance: terms of a text.                                             *)

Strong == {"ai"}
Contextual == {"inference"}
Native == {"openai"}
Cross == {"nvidia"}
CrossContext == {"gpu"}
Ambiguous == {"gpu"}
Research == {"paper"}
Acts == {"launch"}                       \* EVENT_ACTION_TERMS
NewsActs == {"launch", "paper", "acquire"} \* ACTION_GROUPS
Entertainment == {"film"}
Advertisement == {"deal"}
Repost == {"rt"}

Has(text, terms) == text \cap terms # {}
AllText(t) == t.title \cup t.body \cup t.rest
Subject(t) == IF t.title # {} THEN t.title ELSE AllText(t)

(* has_qualifying_signal, from the text, the title and the source's topics.*)
Qualified(t) ==
  LET text == AllText(t) IN
    \/ Has(text, Strong)
    \/ Has(text, Native) /\ Has(text, Acts)
    \/ Has(text, Cross) /\ Has(text, Acts) /\ Has(text, Contextual \cup CrossContext)
    \/ Has(text, Contextual) /\ Has(text, Native \cup Cross \cup Research)
    \/ /\ Has(t.title, Ambiguous) /\ Has(t.title, Acts)
       /\ Has(t.topics, Strong \cup Native)

ExplicitSubject(t) ==
  LET subject == Subject(t) IN
    /\ Has(subject, Acts)
    /\ \/ Has(subject, Strong \cup Native)
       \/ Has(subject, Cross) /\ Has(subject, Contextual \cup CrossContext)

(* _is_advertisement_or_subscription *)
Advertises(t) ==
  \/ Has(Subject(t), Advertisement)
  \/ Has(AllText(t), Advertisement) /\ ~ExplicitSubject(t)

Excluded(t) ==
  \/ AllText(t) = {}
  \/ Has(Subject(t), Entertainment) /\ ~ExplicitSubject(t)
  \/ Advertises(t)
  \/ Has(AllText(t), Repost)
  \/ ~Qualified(t)

(* evaluate_relevance; 60, 80 or 100 for what is relevant.                 *)
Relevance(t) ==
  (IF Qualified(t) THEN 60 ELSE 0)
    + (IF Has(AllText(t), Native \cup Cross) THEN 20 ELSE 0)
    + (IF Has(AllText(t), Acts) THEN 20 ELSE 0)
Relevant(t) == ~Excluded(t) /\ Relevance(t) >= 60

(* evaluate_newsworthiness, which reads less of the text.                  *)
Newsworthy(t) ==
  /\ Has(t.title \cup t.body, NewsActs)
  /\ \/ Relevant([t EXCEPT !.body = {}, !.rest = {}])
     \/ Has(t.title, NewsActs) /\ Has(t.title, Native)
     \/ "paper" \in t.topics /\ Relevant(t)

(* _select_and_classify_items *)
Selected(t) == Relevant(t) /\ Newsworthy(t)

---------------------------------------------------------------------------
(* Clustering: two items, the left one with the lower identifier.          *)

Identities(r) == {r.url, r.root} \ {Absent}
Near(l, r) ==
  l.at # NoTime /\ r.at # NoTime /\ l.at <= r.at + Window /\ r.at <= l.at + Window
Named(r) == r.objects \cup r.organizations

(* _immutable_identity_score *)
SameIdentity(l, r) == Identities(l) \cap Identities(r) # {}

ConflictingAct(l, r) == l.act # Absent /\ r.act # Absent /\ l.act # r.act
SamePublisher(l, r) == (l.by # Absent /\ l.by = r.by) \/ SameIdentity(l, r)

SameTitle(l, r) ==
  /\ ~ConflictingAct(l, r)
  /\ l.title = r.title /\ SamePublisher(l, r) /\ Near(l, r)

(* The same object does the same, or an organisation does what only it can *)
(* do; what is left is how alike the titles are.  A title is a number: the *)
(* nearer two are, the more alike.                                         *)
Anchored(l, r) ==
  /\ l.objects # {} /\ r.objects # {} => l.objects \cap r.objects # {}
  /\ Named(l) \cap Named(r) # {}
  /\ l.act # Absent /\ l.act = r.act
  /\ l.objects \cap r.objects # {} \/ l.act \in {"acquire", "fund"}
  /\ Near(l, r)
Within(d, l, r) == l.title <= r.title + d /\ r.title <= l.title + d
Likeness(l, r) ==
  IF Within(1, l, r) THEN "safe" ELSE IF Within(2, l, r) THEN "boundary" ELSE "low"

(* compare_items and evaluate_pair_rules *)
Rule(l, r) ==
  IF SameIdentity(l, r) THEN "strong"
  ELSE IF SameTitle(l, r) THEN "title"
  ELSE IF ~Anchored(l, r) \/ Likeness(l, r) = "low" THEN "separate"
  ELSE IF Likeness(l, r) = "safe" THEN "alike" ELSE "boundary"

(* finalize_pair_decision: the model decides at the boundary.              *)
Merges(l, r, says) ==
  Rule(l, r) \in {"strong", "title", "alike"} \/ (Rule(l, r) = "boundary" /\ says)

(* _candidate_pairs: items that share a key, and a time if it is weak.     *)
Candidate(l, r) ==
  \/ SameIdentity(l, r)
  \/ (l.title = r.title \/ Named(l) \cap Named(r) # {}) /\ Near(l, r)

Component(part, i) == CHOOSE c \in part : i \in c
Times(s, c) == {s[i].at : i \in c} \ {NoTime}
Spans(s, c) == Times(s, c) = {} \/ Max(Times(s, c)) <= Min(Times(s, c)) + Window

(* A wrong one: only the two items that make the pair are looked at. *)
FitsAnyway(s, a, b) == TRUE

(* _can_union_within_window *)
Fits(s, a, b) == a = b \/ (Times(s, a) # {} /\ Times(s, b) # {} /\ Spans(s, a \cup b))

(* The pairs of a run, and those of them that are looked at.               *)
PairsOf(s) == {p \in (DOMAIN s) \X (DOMAIN s) : p[1] < p[2]}
CandidatePairs(s) == {p \in PairsOf(s) : Candidate(s[p[1]], s[p[2]])}
Precedes(p, q) == p[1] < q[1] \/ (p[1] = q[1] /\ p[2] < q[2])

(* One of them is joined, or not: part is the partition so far.            *)
Joined(s, says, part, pair) ==
  LET l == s[pair[1]]  r == s[pair[2]]
      a == Component(part, pair[1])  b == Component(part, pair[2])
  IN IF Merges(l, r, says) /\ (Fits(s, a, b) \/ Rule(l, r) = "strong")
     THEN (part \ {a, b}) \cup {a \cup b} ELSE part

(* _candidate_key: that of the item with the lowest identifier.            *)
KeyOf(s, c) ==
  LET anchor == s[Min(c)] IN
    IF anchor.root # Absent THEN <<"root", anchor.root>> ELSE <<"url", anchor.url>>

---------------------------------------------------------------------------
(* Evidence.                                                               *)

(* _assess *)
Independent(r) ==
  /\ r.role \in {"official", "media", "research"} /\ r.evidence
  /\ ~(r.role \in {"official", "media"} /\ r.root # Absent /\ r.root # r.url)
Root(r) == IF r.root # Absent THEN r.root ELSE r.url

(* A wrong one: research before media. *)
PriorityOfResearch == [official |-> 3, media |-> 1, research |-> 2, community |-> 0]

Priority == [official |-> 3, media |-> 2, research |-> 1, community |-> 0]

(* _independent_roots: every root once, in its best role.                  *)
RootsAs(s, role) ==
  LET independent == {i \in DOMAIN s : Independent(s[i])} IN
    {Root(s[i]) : i \in {j \in independent : s[j].role = role /\
       \A k \in independent : Root(s[k]) = Root(s[j]) => Priority[s[k].role] <= Priority[role]}}

(* decide_publication and _credibility *)
Confirmed(s) == RootsAs(s, "official") # {} \/ Cardinality(RootsAs(s, "media")) >= 2
Credibility(s) ==
  IF RootsAs(s, "official") # {} THEN 90
  ELSE IF Cardinality(RootsAs(s, "media")) >= 2 THEN 80
  ELSE IF RootsAs(s, "media") # {} THEN 60
  ELSE IF RootsAs(s, "research") # {} THEN 65 ELSE 35
CONFIRMATION_THRESHOLD == 70

(* decide_event_tier takes the last role a root was reported in.           *)
LastRole(s, root) ==
  LET reports == {i \in DOMAIN s : Independent(s[i]) /\ Root(s[i]) = root} IN s[Max(reports)].role
IndependentRoots(s) == {Root(s[i]) : i \in {j \in DOMAIN s : Independent(s[j])}}
Hotspot(s) ==
  \/ \E r \in IndependentRoots(s) : LastRole(s, r) = "official"
  \/ Cardinality({r \in IndependentRoots(s) : LastRole(s, r) = "media"}) >= 2

(* The source coverage of _score_input, by the number of roots.            *)
Coverage(s) ==
  LET n == Cardinality(IndependentRoots(s)) IN CASE n = 0 -> 0 [] n = 1 -> 35 [] n = 2 -> 70 [] OTHER -> 100

---------------------------------------------------------------------------
(* Merge candidates.                                                       *)

Shares(a, b) == a \cap b # {}
Conflict(a, b) == a # {} /\ b # {} /\ ~Shares(a, b)

(* _exact_cross_algorithm_identity: one of the two is current, the other   *)
(* was published by another version of the algorithm.                      *)
Algorithm == "v2"
LegacyPair(l, r) ==
  /\ l.members = r.members /\ l.members # {}
  /\ \E c, old \in {l, r} : /\ Algorithm \in c.versions /\ c.captured
                           /\ Algorithm \notin old.versions /\ old.versions # {}

(* classify_pair *)
Classify(l, r) ==
  IF LegacyPair(l, r) THEN "legacy_identity"
  ELSE IF Shares(l.members, r.members) /\ l.members # r.members THEN "manual_review"
  ELSE IF Conflict(l.objects, r.objects) \/ Conflict(l.acts, r.acts) \/ Conflict(l.numbers, r.numbers)
    THEN "none"
  ELSE IF Shares(l.strong, r.strong) THEN "deterministic_merge"
  ELSE IF Shares(l.objects, r.objects) /\ Shares(l.acts, r.acts)
          /\ \E a \in l.times, b \in r.times : a <= b + Window /\ b <= a + Window
    THEN "manual_review"
  ELSE "none"

---------------------------------------------------------------------------
(* The inputs.                                                             *)

VARIABLES
  kind,     \* of the input: nothing yet, "text", "run", "clusters" (a run that is
            \* complete), "roots" or "pair"
  input,    \* the text of an item; the items of a run, by identifier;
            \* what the items of an event prove; two events
  clusters, \* of the run, as far as they are joined
  left      \* its pairs that were not looked at

ruleVars == <<kind, input, clusters, left>>

RuleInit == kind = "nothing" /\ input = <<>> /\ clusters = {} /\ left = {}

Fetch ==
  /\ kind = "nothing" /\ kind' = "text" /\ input' \in Texts
  /\ UNCHANGED <<clusters, left>>
Select ==
  /\ kind \in {"nothing", "run"} /\ Len(input) < MaxStories
  /\ kind' = "run" /\ \E i \in Stories : input' = Append(input, i)
  /\ UNCHANGED <<clusters, left>>
Assess ==
  /\ kind \in {"nothing", "roots"} /\ Len(input) < MaxStories
  /\ kind' = "roots" /\ \E w \in Witnesses : input' = Append(input, w)
  /\ UNCHANGED <<clusters, left>>
Scan ==
  /\ kind = "nothing" /\ kind' = "pair" /\ input' \in Facts1 \X Facts2
  /\ UNCHANGED <<clusters, left>>

(* cluster_candidates: every item is alone at first; then pair by pair, in *)
(* the order of their identifiers.                                         *)
Cluster ==
  /\ kind = "run" /\ kind' = "clusters"
  /\ clusters' = {{i} : i \in DOMAIN input} /\ left' = CandidatePairs(input)
  /\ UNCHANGED input
Join ==
  /\ kind = "clusters"
  /\ \E pair \in left, says \in BOOLEAN :
       /\ \A other \in left \ {pair} : Precedes(pair, other)
       /\ clusters' = Joined(input, says, clusters, pair)
       /\ left' = left \ {pair}
  /\ UNCHANGED <<kind, input>>

RuleNext == Fetch \/ Select \/ Cluster \/ Join \/ Assess \/ Scan
RuleSpec == RuleInit /\ [][RuleNext]_ruleVars

---------------------------------------------------------------------------
(* Properties.                                                             *)

(* What is selected is about artificial intelligence as its own text says: *)
(* it has a term of the field, a film is an event of the field in the      *)
(* title, and nothing that advertises in its title is ever selected.       *)
SelectionIsFocused ==
  kind = "text" /\ Selected(input) =>
    /\ Has(AllText(input) \cup input.topics, Strong \cup Native \cup Contextual \cup CrossContext)
    /\ Has(input.title, Entertainment) =>
         Has(input.title, Acts) /\ Has(input.title, Strong \cup Native \cup Cross)
    /\ ~Has(input.title, Advertisement)

(* The blocking keys lose no pair: what the rules would merge, or ask the  *)
(* model about, is a candidate.                                            *)
BlockingLosesNothing ==
  kind = "run" /\ Len(input) = 2 => (Rule(input[1], input[2]) # "separate" => Candidate(input[1], input[2]))

(* A run puts items of one identity into one event, never stretches an     *)
(* event beyond 48 hours along a chain of weaker links, and gives no two   *)
(* events the same canonical key.                                          *)
ClustersAreEvents ==
  kind = "clusters" /\ left = {} =>
    /\ \A p \in PairsOf(input) : SameIdentity(input[p[1]], input[p[2]])
         => Component(clusters, p[1]) = Component(clusters, p[2])
    /\ \A c \in clusters : Spans(input, c)
         \/ \E p \in PairsOf(input) : {p[1], p[2]} \subseteq c /\ SameIdentity(input[p[1]], input[p[2]])
    /\ \A c, d \in clusters : KeyOf(input, c) = KeyOf(input, d) => c = d

(* What repeats another root, or may not serve as evidence, confirms       *)
(* nothing: an event is confirmed by an official source of its own or by   *)
(* two media with different roots, and exactly then is it credible.  It is *)
(* a hotspot, or widely covered, only as far as its roots bear it out.     *)
EchoesConfirmNothing ==
  kind = "roots" =>
    /\ Confirmed(input) <=>
         \/ \E i \in DOMAIN input : Independent(input[i]) /\ input[i].role = "official"
         \/ \E i, j \in DOMAIN input : Independent(input[i]) /\ Independent(input[j])
              /\ input[i].role = "media" /\ input[j].role = "media" /\ input[i].url # input[j].url
    /\ Confirmed(input) <=> Credibility(input) >= CONFIRMATION_THRESHOLD
    /\ Hotspot(input) => Confirmed(input)
    /\ Coverage(input) < 70 /\ Confirmed(input) => RootsAs(input, "official") # {}

(* Two events are proposed for the same merge whichever is scanned first,  *)
(* and merged without a review only if nothing that is known of them is in *)
(* conflict.                                                               *)
ProposalsAreSymmetric ==
  kind = "pair" => LET l == input[1]  r == input[2] IN
    /\ Classify(l, r) = Classify(r, l)
    /\ Classify(l, r) = "deterministic_merge" =>
         ~Conflict(l.objects, r.objects) /\ ~Conflict(l.acts, r.acts)

(* The rules of selection, pairing, evidence and merging, taken together:  *)
(* what is selected, compared, confirmed and proposed is what the texts    *)
(* bear out.                                                               *)
RulesAreSound ==
  SelectionIsFocused /\ BlockingLosesNothing /\ EchoesConfirmNothing /\ ProposalsAreSymmetric
=============================================================================
