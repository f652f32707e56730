---------------------------- MODULE ReportContent ----------------------------
(***************************************************************************)
(* What the daily reports of one day say (DailyReportService, accumulation,*)
(* and the reviews kept by DailyReportRepository).  A report has rows, its *)
(* overview, and items, the decision edition chosen among them.  Each row  *)
(* shows one version of an event, has a disposition and at most one review *)
(* that counts, the latest.  A publication folds the rows of the heads of  *)
(* the day and those of a new operation, a revision those of one archived  *)
(* report; meanwhile the editor and the autopilot review drafts, and event *)
(* merges change which events are the same.                                *)
(*                                                                         *)
(* ReportRevisions has the locks and the rows of the reports themselves;   *)
(* here a publication or a revision is one step.                           *)
(***************************************************************************)
EXTENDS Naturals, SequencesExt, FiniteSetsExt

CONSTANTS
  Events,           \* events of the day, numbers
  MaxReports,       \* reports ever made on the day                      (bound)
  MaxItems,         \* MAX_ITEMS_PER_SECTION
  MaxRare           \* new versions, degraded displays, candidates not chosen,
                    \* merges, reviews of the editor, reports trashed   (bound)

ASSUME ContentAssumption ==
  /\ Events \subseteq Nat \ {0} /\ IsFiniteSet(Events)
  /\ MaxReports \in Nat /\ MaxItems \in Nat /\ MaxRare \in Nat

VARIABLES
  reports,          \* the reports, in the order of their ids
  versions,         \* the current version of each event, 0 if there is none
  current,          \* the events that are not LEGACY
  merges,           \* <<legacy, survivor>> of the merges applied
  rare              \* rare things that happened

contentVars == <<reports, versions, current, merges, rare>>

None == 0           \* no parent, no target
NoReview == "none"
Dispositions == {"none", "selected", "omitted", "excluded", "invalidated"}
Reviews == {NoReview, "keep", "exclude", "duplicate"}
  \* "keep" is also needs_evidence: both are spoken

Row == [event : Events, version : Nat, degraded : BOOLEAN, disp : Dispositions,
        review : Reviews, target : Events \cup {None}]
Item == [event : Events, version : Nat, included : BOOLEAN, review : Reviews]

Key(x) == <<x.event, x.version>>
Keys(xs) == {Key(x) : x \in xs}
RowsOf(r) == ToSet(reports[r].rows)
EventsOf(rows) == {rows[i].event : i \in DOMAIN rows}

Report == [parent : Nat, op : Nat, snapshot : [Events -> Nat],
           status : {"draft", "archived"}, deleted : BOOLEAN, rows : Seq(Row),
           items : SUBSET Item, audited : SUBSET (Events \X Nat)]
OneRowPerEvent(rows) == \A i, j \in DOMAIN rows : rows[i].event = rows[j].event => i = j

TypeOK ==
  /\ versions \in [Events -> Nat] /\ current \subseteq Events
  /\ merges \subseteq Events \X Events /\ rare \in 0..MaxRare
  /\ reports \in Seq(Report) /\ Len(reports) <= MaxReports
  /\ \A r \in DOMAIN reports : LET report == reports[r] IN
       /\ report.parent < r /\ report.op <= r
       /\ OneRowPerEvent(report.rows)
       /\ Cardinality(Keys(report.items)) = Cardinality(report.items)

ContentInit ==
  /\ reports = <<>> /\ versions = [e \in Events |-> 0]
  /\ current = {} /\ merges = {} /\ rare = 0

Spend(n) == rare + n <= MaxRare /\ rare' = rare + n

---------------------------------------------------------------------------
(* applied_event_survivors.  An event merged into two others counts as not *)
(* merged, and so does one that is part of a circle.                       *)

Into(e) == {s \in Events : <<e, s>> \in merges}
Onward(e) == IF Cardinality(Into(e)) = 1 THEN CHOOSE s \in Into(e) : TRUE ELSE e
Settled(e, last) == IF merges = {} \/ Onward(last) # last THEN e ELSE last
Survivor(e) == LET Follow(i, s) == Onward(s) IN Settled(e, FoldSet(Follow, e, Events))

---------------------------------------------------------------------------
(* accumulate_daily_overview.  "verdicts" maps keys to reviews.            *)

Verdict(verdicts, row) == IF Key(row) \in DOMAIN verdicts THEN verdicts[Key(row)] ELSE NoReview
Rejected(verdict) == verdict \in {"exclude", "duplicate"}

Disposed(row, verdicts) ==
  CASE Verdict(verdicts, row) = "exclude" -> [row EXCEPT !.disp = "invalidated"]
    [] Verdict(verdicts, row) = "duplicate" -> [row EXCEPT !.disp = "excluded"]
    [] OTHER -> row

(* Wrong ones: degraded displays replace complete ones; a rejected row     *)
(* comes back with its own version.                                        *)
SupersedesDegraded(new, row, verdicts) ==
  /\ new.version >= row.version
  /\ Rejected(Verdict(verdicts, row)) => new.version > row.version /\ ~new.degraded
SupersedesSame(new, row, verdicts) ==
  new.version >= row.version /\ (~new.degraded \/ row.degraded)

(* Does what is new about an event take the place of its row?  What the    *)
(* editor rejected comes back only with a newer, complete version.         *)
Supersedes(new, row, verdicts) ==
  /\ new.version >= row.version
  /\ ~new.degraded \/ row.degraded
  /\ Rejected(Verdict(verdicts, row)) => new.version > row.version /\ ~new.degraded
IndexOfEvent(rows, e) == {i \in DOMAIN rows : rows[i].event = e}
(* _canonical_indexes: the survivor's own row, else the first of its rows. *)
First(same, own) == IF own # {} THEN own ELSE {i \in same : \A j \in same : i <= j}
IndexOfCanonical(rows, c) ==
  First({i \in DOMAIN rows : Survivor(rows[i].event) = c},
        {i \in IndexOfEvent(rows, c) : Survivor(c) = c})

(* One item of "current" is added to the rows: to the row of its event, or *)
(* to that of its survivor c.                                              *)
AtEvent(rows, at, new, verdicts) ==
  IF Supersedes(new, rows[at], verdicts) THEN [rows EXCEPT ![at] = new] ELSE rows
AtSurvivor(rows, at, new, c, historical) ==
  IF new.event # c \/ rows[at].event = c THEN rows  \* only its evidence
  ELSE IF rows[at].event \in historical THEN Append(rows, new)
  ELSE [rows EXCEPT ![at] = new]
AddedAt(rows, exact, same, new, c, historical, verdicts) ==
  CASE exact # {} -> AtEvent(rows, CHOOSE i \in exact : TRUE, new, verdicts)
    [] exact = {} /\ same = {} -> Append(rows, new)
    [] exact = {} /\ same # {} -> AtSurvivor(rows, CHOOSE i \in same : TRUE, new, c, historical)
AddedFor(rows, new, c, historical, verdicts) ==
  AddedAt(rows, IndexOfEvent(rows, new.event), IndexOfCanonical(rows, c), new, c, historical, verdicts)
Added(rows, new, historical, verdicts) ==
  AddedFor(rows, new, Survivor(new.event), historical, verdicts)

Represented(rows) == {Survivor(rows[i].event) : i \in DOMAIN rows}
Merged(row, c, represented) ==
  IF c # row.event /\ c \in represented THEN [row EXCEPT !.disp = "excluded"] ELSE row
Duplicates(rows) ==
  [i \in DOMAIN rows |-> Merged(rows[i], Survivor(rows[i].event), Represented(rows))]

Accumulate(previous, new, verdicts) ==
  LET grown[n \in 0 .. Len(new)] ==
        IF n = 0 THEN [i \in DOMAIN previous |-> Disposed(previous[i], verdicts)]
        ELSE Added(grown[n - 1], new[n], EventsOf(previous), verdicts)
  IN  Duplicates(grown[Len(new)])

(* accumulate_daily_overview_baselines: the heads, then the operation.     *)
VerdictsOf(r) ==
  LET reviewed == {row \in RowsOf(r) : row.review # NoReview}
  IN  [k \in Keys(reviewed) |-> (CHOOSE row \in reviewed : Key(row) = k).review]
Updated(verdicts, later) ==
  [k \in DOMAIN verdicts \cup DOMAIN later |-> IF k \in DOMAIN later THEN later[k] ELSE verdicts[k]]
Outdated(verdicts, later) ==
  [k \in DOMAIN verdicts \ DOMAIN later |-> verdicts[k]]
Unreviewed(row) == [row EXCEPT !.review = NoReview, !.target = None]
Inherited(r) == [i \in DOMAIN reports[r].rows |-> Unreviewed(reports[r].rows[i])]

WithHead(folded, rows, verdicts) ==
  [rows |-> Accumulate(folded.rows, rows, Outdated(folded.verdicts, verdicts)),
   verdicts |-> Updated(folded.verdicts, verdicts)]
WithNew(folded, new) == Accumulate(folded.rows, new, folded.verdicts)
Baselines(heads, new) ==
  LET folded[n \in 0 .. Len(heads)] ==
        IF n = 0 THEN [rows |-> <<>>, verdicts |-> <<>>]
        ELSE WithHead(folded[n - 1], Inherited(heads[n]), VerdictsOf(heads[n]))
  IN  WithNew(folded[Len(heads)], new)
---------------------------------------------------------------------------
(* A draft.                                                                *)

Live == {r \in DOMAIN reports : ~reports[r].deleted}
Archived == {r \in Live : reports[r].status = "archived"}
Heads == {r \in Archived : \A c \in Archived : reports[c].parent # r}
Before(r, s) == reports[r].op < reports[s].op \/ (reports[r].op = reports[s].op /\ r < s)
Chronological(rs) ==
  CHOOSE s \in [1 .. Cardinality(rs) -> rs] :
    \A i, j \in DOMAIN s : i < j => Before(s[i], s[j])

Shut(row) == row.disp \in {"excluded", "invalidated"}
Candidates(rows) == {row \in ToSet(rows) : ~row.degraded /\ ~Shut(row)}

(* _overview_with_dispositions *)
WithDispositions(rows, decided) ==
  [i \in DOMAIN rows |->
     IF Shut(rows[i]) THEN rows[i]
     ELSE [rows[i] EXCEPT !.disp =
             IF ~rows[i].degraded /\ Key(rows[i]) \in decided THEN "selected" ELSE "omitted"]]

(* _copy_revision_reviews, from the latest of the originals that has the   *)
(* row reviewed.  A duplicate's target is looked up among the new rows.    *)
Originals(key, originals) ==
  {r \in originals : \E row \in RowsOf(r) : Key(row) = key /\ row.review # NoReview}
CopiedReview(row, originals) ==
  LET r == Last(Chronological(Originals(Key(row), originals)))
      from == CHOOSE old \in RowsOf(r) : Key(old) = Key(row)
  IN  IF Originals(Key(row), originals) = {} THEN row
      ELSE [row EXCEPT !.review = from.review, !.target = from.target]
ItemOriginals(key, originals) ==
  {r \in originals : \E item \in reports[r].items : Key(item) = key /\ item.review # NoReview}
CopiedItem(item, originals) ==
  LET r == Last(Chronological(ItemOriginals(Key(item), originals)))
  IN  IF ItemOriginals(Key(item), originals) = {} THEN item
      ELSE [item EXCEPT !.review = (CHOOSE old \in reports[r].items : Key(old) = Key(item)).review]

Draft(parent, op, snapshot, rows, items, audited, originals) ==
  [parent |-> parent, op |-> op, snapshot |-> snapshot, status |-> "draft", deleted |-> FALSE,
   rows |-> [i \in DOMAIN rows |-> CopiedReview(rows[i], originals)],
   items |-> {CopiedItem(item, originals) : item \in items}, audited |-> audited]

(* Else invalid_daily_report_overview_duplicate_target, and no draft.      *)
TargetsKept(draft) ==
  \A i \in DOMAIN draft.rows : draft.rows[i].target \in EventsOf(draft.rows) \cup {None}

(* _overview_drafts: the snapshot of an operation, with some displays      *)
(* degraded.  It has the version of each of its events, 0 for the others.  *)
Covered(snapshot) == {e \in Events : snapshot[e] > 0}
Ascending(events) ==
  CHOOSE s \in [1 .. Cardinality(events) -> events] :
    \A i, j \in DOMAIN s : i < j => s[i] < s[j]
Materialized(snapshot, degraded) ==
  LET NewRow(e) == [event |-> e, version |-> snapshot[e], degraded |-> e \in degraded,
                    disp |-> "none", review |-> NoReview, target |-> None]
      order == Ascending(Covered(snapshot))
  IN  [i \in DOMAIN order |-> NewRow(order[i])]

---------------------------------------------------------------------------
(* Publications and revisions.                                             *)

(* generate: the events of an operation have their current version or a    *)
(* newer one, and become current.                                          *)
Generate(snapshot, degraded) ==
  LET newer == {e \in Events : snapshot[e] > versions[e] /\ versions[e] > 0}
      rows == Baselines(Chronological(Heads), Materialized(snapshot, degraded))
      op == Len(reports) + 1
      parent == IF Heads = {} THEN None ELSE Last(Chronological(Heads))
  IN
  /\ Len(reports) < MaxReports
  /\ \A r \in Live : reports[r].status # "draft"
  /\ rare + Cardinality(newer) + Cardinality(degraded) <= MaxRare
  /\ \E decided \in SUBSET Candidates(rows) :
       LET items == {[event |-> row.event, version |-> row.version, included |-> TRUE,
                      review |-> NoReview] : row \in decided}
           draft == Draft(parent, op, snapshot, WithDispositions(rows, Keys(decided)), items, {}, Heads)
       IN
       /\ Cardinality(decided) <= MaxItems
       /\ Spend(Cardinality(newer) + Cardinality(degraded) + Cardinality(Candidates(rows) \ decided))
       /\ TargetsKept(draft)
       /\ reports' = Append(reports, draft)
  /\ versions' = [e \in Events |-> IF e \in Covered(snapshot) THEN snapshot[e] ELSE versions[e]]
  /\ current' = current \cup Covered(snapshot)
  /\ UNCHANGED merges

(* revise: the operation is read again, the items stay as they are.        *)
Revise(r, degraded) ==
  LET old == reports[r]
      rows == Accumulate(Inherited(r), Materialized(old.snapshot, degraded), VerdictsOf(r))
      draft == Draft(r, old.op, old.snapshot, WithDispositions(rows, Keys(old.items)),
                     {[item EXCEPT !.review = NoReview] : item \in old.items}, old.audited, {r})
  IN
  /\ Len(reports) < MaxReports
  /\ r \in Archived /\ \A c \in Live : reports[c].parent # r
  /\ degraded \subseteq Covered(old.snapshot) /\ Spend(Cardinality(degraded))
  /\ Len(rows) >= Len(old.rows)       \* else daily_report_overview_would_shrink
  /\ TargetsKept(draft)
  /\ reports' = Append(reports, draft)
  /\ UNCHANGED <<versions, current, merges>>

Archive(r) ==
  /\ r \in Live /\ reports[r].status = "draft"
  /\ reports' = [reports EXCEPT ![r].status = "archived"]
  /\ UNCHANGED <<versions, current, merges, rare>>

TrashReport(r) ==
  /\ r \in Archived /\ Spend(1)
  /\ reports' = [reports EXCEPT ![r].deleted = TRUE]
  /\ UNCHANGED <<versions, current, merges>>

RestoreReport(r) ==
  /\ r \in DOMAIN reports \ Live
  /\ reports[r].parent # None =>             \* _restore_conflict
       \A s \in Live : reports[s].parent # reports[r].parent
  /\ reports' = [reports EXCEPT ![r].deleted = FALSE]
  /\ UNCHANGED <<versions, current, merges, rare>>

---------------------------------------------------------------------------
(* Reviews of a draft.                                                     *)

IsDraft(r) == r \in Live /\ reports[r].status = "draft"
Included(review) == review = "keep"

(* save_overview_editorial_review *)
ReviewRow(r, i, review, target) ==
  /\ IsDraft(r) /\ Spend(1)
  /\ IF review = "duplicate"
       THEN target \in EventsOf(reports[r].rows) \ {reports[r].rows[i].event} ELSE target = None
  /\ reports' = [reports EXCEPT ![r].rows[i].review = review, ![r].rows[i].target = target]
  /\ UNCHANGED <<versions, current, merges>>

(* save_editorial_review *)
WithItem(r, key, review) ==
  {IF Key(item) = key THEN [item EXCEPT !.review = review, !.included = Included(review)]
   ELSE item : item \in reports[r].items}
ReviewItem(r, item, review) ==
  /\ IsDraft(r) /\ Spend(1)
  /\ reports' = [reports EXCEPT ![r].items = WithItem(r, Key(item), review)]
  /\ UNCHANGED <<versions, current, merges>>

SetIncluded(r, item) ==
  /\ IsDraft(r) /\ Spend(1)
  /\ reports' = [reports EXCEPT ![r].items = (@ \ {item}) \cup {[item EXCEPT !.included = ~@]}]
  /\ UNCHANGED <<versions, current, merges>>

(* _write_reviews of the autopilot, one row and its item at a time, with   *)
(* save_automatic_chinese_reviews.  Only the rows it reviewed in this      *)
(* report are done; it does not look at the reviews that are there.        *)
AutoReview(r) ==
  LET rows == reports[r].rows
      pending == {i \in DOMAIN rows : Key(rows[i]) \notin reports[r].audited}
      i == Min(pending)
  IN
  /\ IsDraft(r) /\ pending # {}
  /\ reports[r].parent # None => reports[reports[r].parent].op # reports[r].op
       \* a publication: no revision is of the autopilot
  /\ reports' = [reports EXCEPT
       ![r].rows[i].review = "keep", ![r].rows[i].target = None,
       ![r].items = WithItem(r, Key(rows[i]), "keep"),
       ![r].audited = @ \cup {Key(rows[i])}]
  /\ UNCHANGED <<versions, current, merges, rare>>

(* An event merge: external to the reports.                                *)
Merge(legacy, survivor) ==
  /\ {legacy, survivor} \subseteq current /\ legacy # survivor /\ Spend(1)
  /\ merges' = merges \cup {<<legacy, survivor>>}
  /\ current' = current \ {legacy}
  /\ versions' = [versions EXCEPT ![survivor] = @ + 1]
  /\ UNCHANGED reports

PublishOverview ==
  \E some \in SUBSET Events \ {{}} : \E degraded \in SUBSET some, step \in [some -> {0, 1}] :
    LET snapshot == [e \in Events |-> IF e \in some THEN versions[e] + step[e] ELSE 0] IN
      /\ some \subseteq Covered(snapshot)
      /\ Generate(snapshot, degraded)
Edit(r) ==
  \/ \E i \in DOMAIN reports[r].rows, review \in Reviews \ {NoReview}, target \in Events \cup {None} :
       ReviewRow(r, i, review, target)
  \/ \E item \in reports[r].items : ReviewItem(r, item, "exclude") \/ SetIncluded(r, item)

ContentNext ==
  \/ PublishOverview
  \/ \E r \in DOMAIN reports :
       \/ \E degraded \in SUBSET Events : Revise(r, degraded)
       \/ Archive(r) \/ TrashReport(r) \/ RestoreReport(r)
       \/ Edit(r) \/ AutoReview(r)
  \/ \E legacy, survivor \in Events : Merge(legacy, survivor)

ContentSpec == ContentInit /\ [][ContentNext]_contentVars

---------------------------------------------------------------------------
(* Properties.  "n" is the report that a step makes.                       *)

Made(n) == Len(reports) < Len(reports') /\ n = Len(reports')
IsPublication(n) == \A r \in DOMAIN reports : reports[r].op # reports'[n].op
NewRows(n) == ToSet(reports'[n].rows)
Shown(rows) == {Survivor(row.event) : row \in rows}

(* Whatever the heads of the day tell of, the next publication tells of:   *)
(* the code checks this itself and would refuse the publication            *)
(* (daily_report_cumulative_regression).  No check covers a revision.      *)
NothingIsLost ==
  [][\A n \in 1..MaxReports : Made(n) =>
       IF IsPublication(n) THEN \A r \in Heads : Shown(RowsOf(r)) \subseteq Shown(NewRows(n))
       ELSE EventsOf(reports[reports'[n].parent].rows) \subseteq EventsOf(reports'[n].rows)]_contentVars

(* The decision edition of a publication tells of an event once, whatever  *)
(* merges came between the reports, shows no degraded display, and every   *)
(* item of it is a row of the overview marked as selected.                 *)
OneItemPerEvent ==
  [][\A n \in 1..MaxReports : Made(n) /\ IsPublication(n) =>
       LET items == reports'[n].items IN
         /\ Cardinality(Shown(items)) = Cardinality(items)
         /\ Keys(items) = Keys({row \in NewRows(n) : row.disp = "selected"})
         /\ \A row \in NewRows(n) : row.disp = "selected" => ~row.degraded]_contentVars

(* A complete display is not lost to a degraded one, in a revision or in a *)
(* publication on one head.                                                *)
CompleteIsKept ==
  [][\A n \in 1..MaxReports, r \in DOMAIN reports :
       Made(n) /\ (IF IsPublication(n) THEN Heads = {r} ELSE r = reports'[n].parent) =>
         \A row \in RowsOf(r), new \in NewRows(n) :
           new.event = row.event => new.version >= row.version /\ (new.degraded => row.degraded)]_contentVars

(* An event whose complete display the latest review of the day rejects    *)
(* stays out of the next decision edition, unless it has a newer version   *)
(* by then.  (Of a degraded display an older head may have a complete one, *)
(* of an older version, which nobody rejected and which is shown again.)   *)
RejectedStaysOut ==
  [][\A n \in 1..MaxReports : Made(n) /\ IsPublication(n) =>
       \A item \in reports'[n].items, r \in Heads :
         /\ \A s \in Heads : Before(r, s) => item.event \notin EventsOf(reports[s].rows)
         /\ \E row \in RowsOf(r) : row.event = item.event /\ ~row.degraded /\ Rejected(row.review)
         => \A row \in RowsOf(r) : row.event = item.event => item.version > row.version]_contentVars

(* docs/superpowers/specs/2026-07-19-daily-report-lifecycle-closure-       *)
(* design.md:34: an item found to be a duplicate is marked as one, "rather *)
(* than disappearing from the cumulative list": the event of every row of  *)
(* a report has a row in the reports that follow it.                       *)
MergedRowsStay ==
  \A r \in DOMAIN reports : reports[r].parent # None =>
    EventsOf(reports[reports[r].parent].rows) \subseteq EventsOf(reports[r].rows)

(* The overview of a day accumulates: nothing is lost, told twice or made  *)
(* worse from one report to the next.                                      *)
DayIsCumulative == NothingIsLost /\ OneItemPerEvent /\ CompleteIsKept
=============================================================================
