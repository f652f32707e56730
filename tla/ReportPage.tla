----------------------------- MODULE ReportPage -----------------------------
(***************************************************************************)
(* One daily report from its draft to its audio: what its page shows       *)
(* (DailyReportQueryService), what may be done with it                     *)
(* (DailyReportRepository, OperationCommandService), what is spoken        *)
(* (intelligence.py) and what the audio handler checks before it speaks    *)
(* (DailyReportAudioHandler).  Each of them works out for itself which     *)
(* rows of the overview count, from the latest reviews, and what is wrong  *)
(* with the report.                                                        *)
(*                                                                         *)
(* How rows, items and reviews get into a draft is in ReportContent; how   *)
(* an audio is made, in ReportAudio.                                       *)
(***************************************************************************)
EXTENDS Naturals, SequencesExt, FiniteSets

CONSTANTS Rows   \* of the overview, by position
ASSUME RowsAssumption == Rows \subseteq Nat \ {0} /\ IsFiniteSet(Rows)

Tiers == {"confirmed", "hotspot", "signal", "audit_only"}
Renditions == {"decision", "overview"}

(* The review that counts: "keep" is also needs_evidence, "exclude" also   *)
(* duplicate; "garbled" keeps, with a text that was damaged: only a review *)
(* from before the texts were checked is.                                  *)
RowReviews == {"none", "keep", "exclude", "garbled"}
EditorReviews == {"keep", "exclude"}
KeptBy(review) == review \in {"keep", "garbled"}

VARIABLES
  pageStatus,      \* "none", "draft" or "archived"
  overview,   \* row -> its tier and rank, whether its snapshot's texts are whole, its review
  decision,   \* sequence of items: row, whether it is included, review
  package,    \* it was archived with both its audios
  audio       \* rendition -> "none", "queued" or what came of it
pageState == <<pageStatus, overview, decision, package, audio>>

PageReportInit ==
  /\ pageStatus = "none" /\ overview = <<>> /\ decision = <<>> /\ package = FALSE
  /\ audio = [r \in Renditions |-> "none"]

(* Some of the rows, or of the items, in the order of their place: where   *)
(* they are in the report, or how they rank.                               *)
InOrder(ids, place) ==
  CHOOSE s \in [1 .. Cardinality(ids) -> ids] :
    \A i, j \in DOMAIN s : i < j => place[s[i]] < place[s[j]]
Position(ids) == [i \in ids |-> i]
Ranking == [i \in DOMAIN overview |-> overview[i].rank]

Chosen(row, review) == [row |-> row, included |-> TRUE, review |-> review]
(* A draft is there, revised from a report that was reviewed or new; an    *)
(* old one may have no rows.  Rows of earlier reports come first, and no   *)
(* two rows have the same rank: those with the same score rank by event.   *)
Drafted ==
  /\ pageStatus = "none" /\ pageStatus' = "draft"
  /\ \E rows \in {{}, Rows}, inherited \in RowReviews :
       /\ overview' \in [rows -> [tier : Tiers, rank : Rows, whole : BOOLEAN,
                                  review : {"none", inherited}]]
       /\ \A i, j \in rows : overview'[i].rank = overview'[j].rank => i = j
       /\ \E chosen \in SUBSET Rows :
            LET order == InOrder(chosen, Position(chosen)) IN
              decision' = [i \in DOMAIN order |-> Chosen(order[i], inherited)]
  /\ UNCHANGED <<package, audio>>

---------------------------------------------------------------------------
(* Editing a draft.                                                        *)
Edited == pageStatus = "draft" /\ UNCHANGED <<pageStatus, package, audio>>
ReviewOverview(i, review) ==
  /\ Edited /\ overview' = [overview EXCEPT ![i].review = review] /\ UNCHANGED decision
ReviewDecision(i, review) ==
  /\ Edited /\ decision' = [decision EXCEPT ![i].review = review, ![i].included = KeptBy(review)]
  /\ UNCHANGED overview
Include(i) ==
  /\ Edited /\ decision' = [decision EXCEPT ![i].included = ~@] /\ UNCHANGED overview

(* move_item: with the next one of its section.                            *)
Section(item) == IF overview = <<>> \/ overview[item.row].tier # "confirmed" THEN "emerging" ELSE "confirmed"
MoveDown(i) ==
  LET below == {j \in i + 1 .. Len(decision) : Section(decision[j]) = Section(decision[i])}
      j == CHOOSE j \in below : \A k \in below : j <= k
  IN /\ Edited /\ below # {}
     /\ decision' = [decision EXCEPT ![i] = decision[j], ![j] = decision[i]]
     /\ UNCHANGED overview

---------------------------------------------------------------------------
(* The page.                                                               *)

(* A wrong one: what nobody has rejected is listed. *)
ListedUnreviewed == {i \in DOMAIN overview : overview[i].review # "exclude"}
(* The rows that are listed as included ...                                *)
Listed == {i \in DOMAIN overview : KeptBy(overview[i].review)}
(* ... and the heading each is under: a kept row of no tier that is shown  *)
(* counts as a signal.                                                     *)
Heading(row) == IF row.tier \in Tiers \ {"audit_only"} THEN row.tier ELSE "signal"
Under(heading) == {i \in Listed : Heading(overview[i]) = heading}
Counts ==
  [total |-> Cardinality(DOMAIN overview), included |-> Cardinality(Listed),
   rejected |-> Cardinality({i \in DOMAIN overview : overview[i].review = "exclude"}),
   unreviewed |-> Cardinality({i \in DOMAIN overview : overview[i].review = "none"})]
(* An operation for this audio is queued or running.                       *)
Active(r) == audio[r] = "queued"
CorruptedRows == {i \in DOMAIN overview : overview[i].review = "garbled"}
CorruptedItems == {i \in DOMAIN decision : decision[i].review = "garbled"}
CorruptedReviews == CorruptedRows \cup CorruptedItems

---------------------------------------------------------------------------
(* The scripts: sequences of rows, and of positions in the decision        *)
(* edition.                                                                *)

(* _overview_section *)
ScriptSection(row) ==
  CASE row.tier = "confirmed" -> "confirmed" [] row.tier = "hotspot" -> "hotspot"
    [] row.tier = "signal" -> "signal" [] OTHER -> IF KeptBy(row.review) THEN "signal" ELSE "none"
OverviewScript ==
  LET Part(s) == InOrder({i \in Listed : ScriptSection(overview[i]) = s}, Ranking)
  IN Part("confirmed") \o Part("hotspot") \o Part("signal")
DecisionScript ==
  LET Part(s) == InOrder({i \in DOMAIN decision : decision[i].included /\ Section(decision[i]) = s},
                         Position(DOMAIN decision))
  IN Part("confirmed") \o Part("emerging")

(* What is spoken of a row beside its review is of its snapshot; of an     *)
(* item, only what its review does not say.                                *)
RowWhole(i) == overview[i].review # "garbled" /\ overview[i].whole
ItemWhole(item) ==
  item.review = "none" /\ overview # <<>> => overview[item.row].whole

---------------------------------------------------------------------------
(* What is asked before a report is archived and before it is spoken.      *)

(* overview_audio_readiness *)
Ready ==
  [total |-> Cardinality(DOMAIN overview),
   reviewed |-> Cardinality({i \in DOMAIN overview : overview[i].review # "none"}),
   included |-> Cardinality({i \in DOMAIN overview : KeptBy(overview[i].review)})]
MayBeSpoken == Ready.total > 0 /\ Ready.reviewed = Ready.total /\ Ready.included > 0
TextIntegrity == CorruptedReviews = {}

(* assert_audio_package_ready *)
PackageReady ==
  /\ decision # <<>> /\ \A i \in DOMAIN decision : decision[i].review # "none"
  /\ \E i \in DOMAIN decision : KeptBy(decision[i].review)
  /\ MayBeSpoken /\ TextIntegrity

(* By the autopilot, with both audios, or by the editor with one.          *)
ArchivePackage ==
  /\ pageStatus = "draft" /\ PackageReady
  /\ pageStatus' = "archived" /\ package' = TRUE /\ audio' = [r \in Renditions |-> "queued"]
  /\ UNCHANGED <<overview, decision>>
ArchiveWithDecision ==
  /\ pageStatus = "draft" /\ TextIntegrity
  /\ pageStatus' = "archived" /\ audio' = [audio EXCEPT !["decision"] = "queued"]
  /\ UNCHANGED <<overview, decision, package>>
Enqueue(r) ==
  /\ pageStatus = "archived" /\ ~Active(r) /\ (r = "overview" => MayBeSpoken)
  /\ audio' = [audio EXCEPT ![r] = "queued"]
  /\ UNCHANGED <<pageStatus, overview, decision, package>>

(* The handler: the first thing that is wrong, or the speech.              *)
OverviewOutcome ==
  LET grouped == Cardinality(Under("confirmed") \cup Under("hotspot") \cup Under("signal")) IN
    IF Ready.total = 0 \/ Ready.reviewed # Ready.total THEN "review_incomplete"
    ELSE IF Ready.included = 0 THEN "no_included_items"
    ELSE IF Cardinality(Listed) # Ready.included \/ grouped # Ready.included THEN "projection_mismatch"
    ELSE IF \E i \in ToSet(OverviewScript) : ~RowWhole(i) THEN "text_corrupted" ELSE "spoken"
DecisionOutcome ==
  IF \E i \in ToSet(DecisionScript) : ~ItemWhole(decision[i]) THEN "text_corrupted" ELSE "spoken"
Speak(r) ==
  /\ pageStatus = "archived" /\ Active(r)
  /\ audio' = [audio EXCEPT ![r] = IF r = "overview" THEN OverviewOutcome ELSE DecisionOutcome]
  /\ UNCHANGED <<pageStatus, overview, decision, package>>

PageReportNext ==
  \/ Drafted \/ ArchivePackage \/ ArchiveWithDecision
  \/ \E i \in DOMAIN overview, review \in EditorReviews : ReviewOverview(i, review)
  \/ \E i \in DOMAIN decision :
       Include(i) \/ MoveDown(i) \/ \E review \in EditorReviews : ReviewDecision(i, review)
  \/ \E r \in Renditions : Enqueue(r) \/ Speak(r)
PageReportSpec == PageReportInit /\ [][PageReportNext]_pageState

---------------------------------------------------------------------------
(* Properties.                                                             *)

(* What was accepted is made: an overview whose audio was enqueued is      *)
(* spoken, unless a text of its snapshots is damaged, which nobody looks   *)
(* at before; and both audios of a package, the decision edition always.   *)
AcceptedIsSpoken ==
  /\ audio["overview"] \in {"none", "queued", "spoken"}
       \/ (audio["overview"] = "text_corrupted" /\ \E i \in Listed : ~overview[i].whole)
  /\ package => audio["decision"] \in {"queued", "spoken"}

(* The overview speaks of every row the page lists as included, once, and  *)
(* of no other, under the page's headings; the page's counts add up.  The  *)
(* page lists rows by position, and they are spoken by rank.               *)
SpokenIsListed ==
  /\ OverviewScript = InOrder(Under("confirmed"), Ranking) \o InOrder(Under("hotspot"), Ranking)
                        \o InOrder(Under("signal"), Ranking)
  /\ ToSet(OverviewScript) = Listed /\ Len(OverviewScript) = Cardinality(Listed)
  /\ Counts.total = Counts.included + Counts.rejected + Counts.unreviewed

(* The audios of a report are those that its page promises.                *)
PageIsSpoken == AcceptedIsSpoken /\ SpokenIsListed
=============================================================================
