-------------------------- MODULE ReportRevisions --------------------------
(***************************************************************************)
(* The daily reports of one day (DailyReportRepository, and the database   *)
(* part of DailyReportPurgeHandler).  A report supersedes another one: it  *)
(* is a publication that accumulates what the day has published so far, or *)
(* a revision of an archived report.  Reports go to the trash, come back,  *)
(* and are purged out of the middle of such chains while publications are  *)
(* being made.                                                             *)
(*                                                                         *)
(* A publication reads the day and writes its draft at different points of *)
(* one READ COMMITTED transaction, so it takes several steps; every other  *)
(* transaction decides on rows that it has locked, and is one step.        *)
(***************************************************************************)
EXTENDS Naturals, FiniteSets

CONSTANTS
  MaxReports,       \* reports ever made on the day                      (bound)
  Operations,       \* event snapshots published, each the time its window ends
  Windows,          \* window_hours
  Publishers,       \* callers of generate
  MaxScope,         \* reports of one purge operation (20 in the code)
  MaxPurges,        \* purge operations active at once                   (bound)
  MaxAttempts       \* MAX_REVISION_ATTEMPTS

ASSUME RevisionsAssumption ==
  /\ MaxReports \in Nat
  /\ Operations \subseteq Nat /\ IsFiniteSet(Operations) /\ Windows # {}
  /\ MaxScope \in Nat \ {0} /\ MaxPurges \in Nat /\ MaxAttempts \in Nat \ {0}

VARIABLES
  reports,          \* daily_reports; a purged row is kept as history
  counter,          \* daily_report_revision_counters
  publication,      \* what each caller of generate holds in memory
  purges            \* the scopes of the purge operations that are not terminal

vars == <<reports, counter, publication, purges>>

Ids == 1..MaxReports
NoReport == 0       \* SQL NULL

Report ==
  [status : {"none", "draft", "archived", "purged"}, op : Nat, window : Windows,
   parent : Ids \cup {NoReport}, revision : Nat, overview : SUBSET Operations,
   deleted : BOOLEAN]

Publication ==
  [at : {"idle", "began", "checked", "conflict"}, op : Nat, window : Windows,
   heads : SUBSET Ids, parent : Ids \cup {NoReport}, overview : SUBSET Operations,
   attempts : 0..(MaxAttempts - 1)]

TypeOK ==
  /\ reports \in [Ids -> Report]
  /\ counter \in [Windows -> Nat]
  /\ publication \in [Publishers -> Publication]
  /\ purges \subseteq SUBSET Ids

AnyWindow == CHOOSE h \in Windows : TRUE
Unborn == [status |-> "none", op |-> 0, window |-> AnyWindow, parent |-> NoReport,
           revision |-> 0, overview |-> {}, deleted |-> FALSE]
Idle == [at |-> "idle", op |-> 0, window |-> AnyWindow, heads |-> {}, parent |-> NoReport,
         overview |-> {}, attempts |-> 0]

Init ==
  /\ reports = [r \in Ids |-> Unborn]
  /\ counter = [h \in Windows |-> 0]
  /\ publication = [p \in Publishers |-> Idle]
  /\ purges = {}

---------------------------------------------------------------------------
(* Rows.                                                                   *)

Exists(r) == reports[r].status \in {"draft", "archived"}
Live(r) == Exists(r) /\ ~reports[r].deleted
Trash == {r \in Ids : Exists(r) /\ reports[r].deleted}
LiveDrafts == {r \in Ids : Live(r) /\ reports[r].status = "draft"}
Archived == {r \in Ids : Live(r) /\ reports[r].status = "archived"}
Children(r) == {c \in Ids : Exists(c) /\ reports[c].parent = r}
LiveChildren(r) == {c \in Children(r) : ~reports[c].deleted}
LiveRoots(op, h) ==
  {r \in Ids : Live(r) /\ reports[r].parent = NoReport
               /\ reports[r].op = op /\ reports[r].window = h}

(* archived_heads_for_day: what a publication of op accumulates.           *)
Earlier(op) == {r \in Archived : reports[r].op # op /\ reports[r].op <= op}
Heads(op) == {r \in Earlier(op) : \A c \in Earlier(op) : reports[c].parent # r}
Latest(heads) == {r \in heads : \A s \in heads : reports[s].op <= reports[r].op}

(* Ids come from a sequence: no id is given twice.                         *)
Fresh(r) == r \in Ids /\ \A s \in Ids : reports[s].status = "none" <=> s >= r

(* _next_revision: above everything the counter and the rows remember.     *)
Revisions(h) == {reports[r].revision : r \in {s \in Ids : Exists(s) /\ reports[s].window = h}}
Above(parent) == IF parent = NoReport THEN {} ELSE {reports[parent].revision}
NextRevision(h, parent) ==
  LET floor == {counter[h]} \cup Revisions(h) \cup Above(parent)
  IN  CHOOSE n \in {m + 1 : m \in floor} : \A m \in floor : m < n

Draft(op, h, parent, overview) ==
  [status |-> "draft", op |-> op, window |-> h, parent |-> parent,
   revision |-> NextRevision(h, parent), overview |-> overview, deleted |-> FALSE]

(* _record_revision_high_water, and the insert of _create_draft with it.   *)
HighWater(draft) ==
  [counter EXCEPT ![draft.window] = IF draft.revision > @ THEN draft.revision ELSE @]
Insert(r, draft) ==
  /\ reports' = [reports EXCEPT ![r] = draft]
  /\ counter' = HighWater(draft)

---------------------------------------------------------------------------
(* generate: begin_publication, then create_cumulative_draft on the heads  *)
(* found, or create_draft if there is none.                                *)

(* It supersedes the last head: the latest window, and of two of the same  *)
(* operation the one archived last, which the model leaves open.           *)
(* The advisory lock of the day is held to the end of the transaction.     *)
DayFree(p) == \A q \in Publishers \ {p} : publication[q].at \notin {"began", "checked"}

PublishBegin(p, op, h, above) ==
  /\ publication[p].at = "idle" /\ DayFree(p)
  /\ above \in IF Heads(op) = {} THEN {NoReport} ELSE Latest(Heads(op))
  /\ LiveDrafts = {}              \* else an answer or publication_in_progress
  /\ publication' = [publication EXCEPT ![p] =
       [at |-> "began", op |-> op, window |-> h, heads |-> Heads(op), parent |-> above,
        overview |-> {op} \cup UNION {reports[q].overview : q \in Heads(op)}, attempts |-> 0]]
  /\ UNCHANGED <<reports, counter, purges>>

(* match_or_validate_predecessor reads the heads again, at every attempt.  *)
PublishCheck(p) ==
  LET pub == publication[p]
      before == {c \in LiveChildren(pub.parent) : reports[c].op = pub.op}
  IN
  /\ pub.at \in {"began", "conflict"} /\ pub.heads # {} /\ DayFree(p)
  /\ publication' = [publication EXCEPT ![p] =
       IF before = {} /\ Heads(pub.op) = pub.heads THEN [@ EXCEPT !.at = "checked"] ELSE Idle]
  /\ UNCHANGED <<reports, counter, purges>>

(* A wrong one: no foreign key. *)
MayInsertDangling(p) ==
  LET pub == publication[p] IN
    IF pub.heads = {} THEN pub.at = "began" /\ LiveRoots(pub.op, pub.window) = {}
    ELSE pub.at = "checked" /\ LiveChildren(pub.parent) = {}
MayInsert(p) ==
  LET pub == publication[p] IN
    IF pub.heads = {} THEN pub.at = "began" /\ LiveRoots(pub.op, pub.window) = {}
    ELSE pub.at = "checked" /\ LiveChildren(pub.parent) = {} /\ Exists(pub.parent)

PublishInsert(p, r) ==
  LET pub == publication[p] IN
  /\ MayInsert(p)
  /\ Insert(r, Draft(pub.op, pub.window, pub.parent, pub.overview))
  /\ publication' = [publication EXCEPT ![p] = Idle]
  /\ UNCHANGED purges

(* A draft of the same operation is there already, or the predecessor is   *)
(* gone (a foreign key error).                                             *)
PublishEnds(p) ==
  LET pub == publication[p] IN
  /\ \/ pub.at = "began" /\ pub.heads = {} /\ LiveRoots(pub.op, pub.window) # {}
     \/ pub.at = "checked" /\ ~Exists(pub.parent)
     \/ pub.at = "checked" /\ \E c \in LiveChildren(pub.parent) : reports[c].op = pub.op
  /\ publication' = [publication EXCEPT ![p] = Idle]
  /\ UNCHANGED <<reports, counter, purges>>

(* The index on live successors refuses the draft: the transaction, and    *)
(* with it the lock of the day, is given up and it tries again.            *)
PublishConflict(p) ==
  LET pub == publication[p] IN
  /\ pub.at = "checked" /\ Exists(pub.parent) /\ LiveChildren(pub.parent) # {}
  /\ \A c \in LiveChildren(pub.parent) : reports[c].op # pub.op
  /\ publication' = [publication EXCEPT ![p] =
       IF pub.attempts + 1 = MaxAttempts THEN Idle
       ELSE [pub EXCEPT !.at = "conflict", !.attempts = pub.attempts + 1]]
  /\ UNCHANGED <<reports, counter, purges>>

---------------------------------------------------------------------------
(* revise: revision_target follows the live successors of the chosen       *)
(* report to the end, under the revision lock.  An open draft there is the *)
(* answer; otherwise the end, which may be the chosen report itself, is an *)
(* archived report without live successor, and is revised.                 *)
EndsChain(t) == LiveChildren(t) = {}

(* A wrong one: rebuilt from the event snapshot of its operation alone. *)
ReviseFromSnapshot(t, n) ==
  LET source == reports[t] IN
  /\ EndsChain(t)
  /\ Insert(n, Draft(source.op, source.window, t, {source.op}))
  /\ UNCHANGED <<publication, purges>>
Revise(t, n) ==
  LET source == reports[t] IN
  /\ EndsChain(t)
  /\ Insert(n, Draft(source.op, source.window, t, source.overview))
  /\ UNCHANGED <<publication, purges>>

(* archive, which the commands reject for a report in the trash.           *)
Archive(r) ==
  /\ reports' = [reports EXCEPT ![r].status = "archived"]
  /\ UNCHANGED <<counter, publication, purges>>

Purging(r) == \E scope \in purges : r \in scope

(* move_to_trash and the retention sweep (running audio, which also blocks *)
(* it, is not modelled here).                                              *)
MoveToTrash(r) ==
  /\ Live(r) /\ ~Purging(r)
  /\ reports' = [reports EXCEPT ![r].deleted = TRUE]
  /\ UNCHANGED <<counter, publication, purges>>

(* restore, under the revision lock.                                       *)
RestoreConflict(r) ==
  IF reports[r].parent # NoReport THEN LiveChildren(reports[r].parent) # {}
  ELSE LiveRoots(reports[r].op, reports[r].window) # {}

Restore(r) ==
  /\ ~RestoreConflict(r)
  /\ reports' = [reports EXCEPT ![r].deleted = FALSE]
  /\ UNCHANGED <<counter, publication, purges>>

---------------------------------------------------------------------------
(* Purge operations.  Attempts are retried, so a member is purged at any   *)
(* time, and tried any number of times, while its operation is active.     *)

(* _daily_report_purge_ids refuses other scopes.                           *)
PurgeIds(scope) == scope # {} /\ Cardinality(scope) <= MaxScope

EnqueuePurge(scope) ==
  /\ PurgeIds(scope) /\ Cardinality(purges) < MaxPurges
  /\ \A r \in scope : r \in Trash /\ ~Purging(r)
  /\ purges' = purges \cup {scope}
  /\ UNCHANGED <<reports, counter, publication>>

(* _raise_on_active_revision_conflict: the one live child, if there is     *)
(* one, finds the place of the purged report free.                         *)
PlaceIsFree(r) ==
  LET above == reports[r].parent IN
    \/ LiveChildren(r) = {}
    \/ \E c \in LiveChildren(r) :
         /\ LiveChildren(r) = {c}
         /\ IF above # NoReport THEN LiveChildren(above) = {}
            ELSE LiveRoots(reports[c].op, reports[c].window) = {}

(* _plan_revision_reparent.                                                *)
(* A wrong one: the place of the purged report is taken to be free. *)
MayReparentAnywhere(r) ==
  IF reports[r].status = "draft" THEN Children(r) = {}
  ELSE \A c, d \in LiveChildren(r) : c = d
MayReparent(r) == IF reports[r].status = "draft" THEN Children(r) = {} ELSE PlaceIsFree(r)

(* A wrong one: the children become roots. *)
ReparentedToNone(r) ==
  [c \in Ids |-> IF c \in Children(r) THEN [reports[c] EXCEPT !.parent = NoReport]
                 ELSE reports[c]]
Reparented(r) ==
  [c \in Ids |-> IF c \in Children(r) THEN [reports[c] EXCEPT !.parent = reports[r].parent]
                 ELSE reports[c]]

(* Of a purged row, the history keeps the number.                          *)
Gone(r) == [Unborn EXCEPT !.status = "purged", !.window = reports[r].window,
                          !.revision = reports[r].revision]

(* _purge_member: one transaction.  The detour of archived children over a *)
(* temporary parent, which the delete guard asks for, is inside of it.     *)
PurgeMember(scope, r) ==
  /\ scope \in purges /\ r \in scope /\ r \in Trash
  /\ \A other \in purges \ {scope} : r \notin other
  /\ MayReparent(r)
  /\ reports' = [Reparented(r) EXCEPT ![r] = Gone(r)]
  /\ UNCHANGED <<counter, publication, purges>>

PurgeEnds(scope) ==
  /\ scope \in purges
  /\ purges' = purges \ {scope}
  /\ UNCHANGED <<reports, counter, publication>>

---------------------------------------------------------------------------
Publish(p) ==
  \/ \E op \in Operations, h \in Windows, above \in 0..MaxReports : PublishBegin(p, op, h, above)
  \/ PublishCheck(p) \/ PublishEnds(p) \/ PublishConflict(p)
  \/ \E r \in Ids : Fresh(r) /\ PublishInsert(p, r)

Next ==
  \/ \E p \in Publishers : Publish(p)
  \/ \E n \in Ids : Fresh(n) /\ \E t \in Archived : Revise(t, n)
  \/ \E r \in LiveDrafts : Archive(r)
  \/ \E r \in Ids : MoveToTrash(r)
  \/ \E r \in Trash : Restore(r)
  \/ \E scope \in SUBSET Trash : EnqueuePurge(scope)
  \/ \E scope \in purges : PurgeEnds(scope) \/ \E r \in scope : PurgeMember(scope, r)

Spec == Init /\ [][Next]_vars

---------------------------------------------------------------------------
(* Properties.                                                             *)

(* No report supersedes a purged one or itself: the chain behind a report  *)
(* is made of archived reports of ever smaller revisions, however many     *)
(* reports have been purged out of it.                                     *)
LineageIsOrdered ==
  \A r \in Ids : Exists(r) /\ reports[r].parent # NoReport =>
    LET above == reports[r].parent IN
      /\ reports[above].status = "archived"
      /\ above < r /\ reports[above].revision < reports[r].revision

(* A revision number names one report of the day and window for ever, the  *)
(* purged ones included.                                                   *)
RevisionsAreUnique ==
  \A r, s \in Ids : r # s /\ reports[r].status # "none" /\ reports[s].status # "none"
                    /\ reports[r].window = reports[s].window
    => reports[r].revision # reports[s].revision

(* docs/superpowers/specs/2026-07-19-daily-report-repeatable-revision-     *)
(* design.md: at any time at most one live successor, and one live root of *)
(* an operation; restoring and purging keep it so by their own checks.     *)
OneLiveSuccessor ==
  \A r, s \in Ids : r # s /\ Live(r) /\ Live(s) /\ reports[r].parent = reports[s].parent
    => /\ reports[r].parent = NoReport
       /\ <<reports[r].op, reports[r].window>> # <<reports[s].op, reports[s].window>>

(* "A revision does not shrink": a report shows every operation that what  *)
(* it supersedes shows, after the reports between them have been purged.   *)
OverviewNeverShrinks ==
  \A r \in Ids : Exists(r) /\ reports[r].parent # NoReport =>
    reports[reports[r].parent].overview \subseteq reports[r].overview

(* Who descends from whom does not change for the reports that remain: a   *)
(* purge closes the gap it makes, and nothing else moves a report.  The    *)
(* ancestors of a report are the others in every set of reports that has   *)
(* it and with each report what that supersedes.                           *)
Parents == [r \in Ids |-> reports[r].parent]
Closed(up) == {S \in SUBSET Ids : \A r \in S : up[r] \in S \/ up[r] = NoReport}
Ancestors(up) ==
  LET closed == Closed(up)
  IN  [r \in Ids |-> {a \in Ids \ {r} : \A S \in closed : r \in S => a \in S}]
Remaining == {r \in Ids : reports[r].status # "none" /\ reports'[r].status # "purged"}
SameLineage ==
  LET before == Ancestors(Parents)
      after == Ancestors(Parents')
  IN  \A r \in Remaining : before[r] \cap Remaining = after[r] \cap Remaining
LineageIsKept == [][UNCHANGED Parents \/ SameLineage]_vars

(* The chains of a day are ordered, numbered and connected without forks.  *)
LineageIsSound == TypeOK /\ LineageIsOrdered /\ RevisionsAreUnique /\ OneLiveSuccessor
=============================================================================
