----------------------- MODULE ReportRevisionsProofs -----------------------
(***************************************************************************)
(* Safety of ReportRevisions for every number of reports, operations,      *)
(* windows, concurrent publishers and purges of any scope; and of          *)
(* ModelCalls, where the texts of a report come from, for every number of  *)
(* candidates, any budget and any number of attempts.                      *)
(***************************************************************************)
EXTENDS ReportRevisions, ModelCalls, FiniteSetTheorems, SequenceTheorems, TLAPS

(* The counter of a window is never behind a number it has given, to a     *)
(* report that is still there or to one that has been purged.              *)
CounterIsHighWater ==
  \A r \in Ids : reports[r].status # "none" =>
    reports[r].revision <= counter[reports[r].window]

RowsAreSound ==
  /\ LineageIsOrdered
  /\ RevisionsAreUnique
  /\ CounterIsHighWater
  /\ OneLiveSuccessor
  /\ OverviewNeverShrinks

(* A publication in flight has merged the overview of what it supersedes,  *)
(* which was archived and may have been purged meanwhile.                  *)
MergedInMemory ==
  \A p \in Publishers : publication[p].at # "idle" =>
    LET pub == publication[p] IN
      /\ pub.heads = {} <=> pub.parent = NoReport
      /\ pub.parent # NoReport =>
           /\ reports[pub.parent].status \in {"archived", "purged"}
           /\ reports[pub.parent].status = "archived" =>
                reports[pub.parent].overview \subseteq pub.overview

IInv == TypeOK /\ RowsAreSound /\ MergedInMemory

USE RevisionsAssumption DEF NoReport

(* An empty day satisfies the inductive invariant.                         *)
LEMMA InitIInv == Init => IInv
<1> AnyWindow \in Windows BY DEF AnyWindow
<1> QED
  BY DEF Init, IInv, TypeOK, RowsAreSound, LineageIsOrdered, RevisionsAreUnique,
         CounterIsHighWater, OneLiveSuccessor, OverviewNeverShrinks, MergedInMemory,
         Unborn, Idle, Report, Publication, Exists, Live, Ids

(* The next number is above the counter and above the report superseded.   *)
LEMMA NextRevisionIsNew ==
  ASSUME TypeOK, CounterIsHighWater, NEW h \in Windows, NEW parent \in Ids \cup {NoReport}
  PROVE  /\ NextRevision(h, parent) \in Nat
         /\ NextRevision(h, parent) > counter[h]
         /\ parent # NoReport => NextRevision(h, parent) > reports[parent].revision
<1> DEFINE floor == {counter[h]} \cup Revisions(h) \cup Above(parent)
           top == IF parent # NoReport /\ reports[parent].revision > counter[h]
                  THEN reports[parent].revision ELSE counter[h]
<1>1. counter[h] \in Nat /\ \A r \in Ids : reports[r].revision \in Nat
  BY DEF TypeOK, Report
<1>2. \A m \in Revisions(h) : m \in Nat /\ m <= counter[h]
  BY <1>1 DEF Revisions, CounterIsHighWater, Exists
<1>3. \A m \in Above(parent) : parent # NoReport /\ m = reports[parent].revision
  BY DEF Above
<1>4. \A m \in floor : m \in Nat
  BY <1>1, <1>2, <1>3
<1>5. top \in floor
  BY DEF Above
<1>6. \A m \in floor : m <= top
  <2> SUFFICES ASSUME NEW m \in floor PROVE m <= top
    OBVIOUS
  <2>1. CASE m = counter[h] BY <2>1, <1>1
  <2>2. CASE m \in Revisions(h) BY <2>2, <1>1, <1>2
  <2>3. CASE m \in Above(parent) BY <2>3, <1>1, <1>3
  <2> QED BY <2>1, <2>2, <2>3
<1>7. \E n \in {m + 1 : m \in floor} : \A m \in floor : m < n
  <2>1. \A m \in floor : m < top + 1 BY <1>4, <1>5, <1>6
  <2> HIDE DEF top, floor
  <2> QED BY <2>1, <1>5
<1>8. /\ NextRevision(h, parent) \in {m + 1 : m \in floor}
      /\ \A m \in floor : m < NextRevision(h, parent)
  BY <1>7 DEF NextRevision
<1>9. NextRevision(h, parent) \in Nat
  <2> HIDE DEF floor
  <2> QED BY <1>4, <1>8
<1> QED BY <1>8, <1>9 DEF Above

(* Inserting a draft below nothing, or below an archived report without    *)
(* live successor whose overview it contains, keeps the rows sound and     *)
(* changes no other row.                                                   *)
LEMMA InsertStep ==
  ASSUME TypeOK, RowsAreSound, NEW r \in Ids, Fresh(r), NEW op \in Nat, NEW h \in Windows,
         NEW parent \in Ids \cup {NoReport}, NEW overview \in SUBSET Operations,
         Insert(r, Draft(op, h, parent, overview)),
         IF parent = NoReport THEN LiveRoots(op, h) = {}
         ELSE /\ reports[parent].status = "archived" /\ LiveChildren(parent) = {}
              /\ reports[parent].overview \subseteq overview
  PROVE  /\ reports' \in [Ids -> Report] /\ counter' \in [Windows -> Nat]
         /\ RowsAreSound'
         /\ \A s \in Ids : reports[s].status # "none" => reports'[s] = reports[s]
<1> DEFINE n == NextRevision(h, parent)
<1>1. /\ n \in Nat /\ n > counter[h]
      /\ parent # NoReport => n > reports[parent].revision
  BY NextRevisionIsNew DEF RowsAreSound
<1> HIDE DEF n
<1>2. /\ reports' \in [Ids -> Report]
      /\ reports'[r].status = "draft" /\ reports'[r].op = op /\ reports'[r].window = h
      /\ reports'[r].parent = parent /\ reports'[r].revision = n
      /\ reports'[r].overview = overview /\ reports'[r].deleted = FALSE
      /\ \A s \in Ids \ {r} : reports'[s] = reports[s]
  <2>1. Draft(op, h, parent, overview) =
          [status |-> "draft", op |-> op, window |-> h, parent |-> parent,
           revision |-> n, overview |-> overview, deleted |-> FALSE]
    BY DEF Draft, n
  <2>2. Draft(op, h, parent, overview) \in Report
    BY <2>1, <1>1 DEF Report
  <2>3. reports' = [reports EXCEPT ![r] = Draft(op, h, parent, overview)]
    BY DEF Insert, HighWater
  <2> QED BY <2>1, <2>2, <2>3 DEF TypeOK
<1>3. /\ counter' \in [Windows -> Nat]
      /\ \A g \in Windows : counter'[g] >= counter[g]
      /\ counter'[h] >= n
  <2>1. /\ Draft(op, h, parent, overview).window = h
        /\ Draft(op, h, parent, overview).revision = n
    BY DEF Draft, n
  <2> QED BY <2>1, <1>1 DEF Insert, HighWater, TypeOK
<1>4. \A s \in Ids : reports[s].status # "none" => s # r /\ s < r
  BY DEF Fresh, TypeOK, Report, Ids
<1>5. \A s \in Ids : reports[s] \in Report /\ reports'[s] \in Report
  BY <1>2 DEF TypeOK
<1>6. \A s \in Ids \ {r} : Exists(s)' <=> Exists(s)
  BY <1>2 DEF Exists
<1>7. LineageIsOrdered'
  BY <1>1, <1>2, <1>4, <1>5, <1>6 DEF RowsAreSound, LineageIsOrdered, Report, Exists
<1>8. CounterIsHighWater'
  <2> SUFFICES ASSUME NEW s \in Ids, reports'[s].status # "none"
               PROVE  reports'[s].revision <= counter'[reports'[s].window]
    BY DEF CounterIsHighWater
  <2>1. CASE s = r BY <2>1, <1>1, <1>2, <1>3
  <2>2. CASE s # r
    <3>1. reports'[s] = reports[s] /\ reports[s].window \in Windows
          /\ reports[s].revision \in Nat
      BY <2>2, <1>2, <1>5 DEF Report
    <3>2. reports[s].revision <= counter[reports[s].window]
      BY <3>1 DEF RowsAreSound, CounterIsHighWater
    <3> QED BY <3>1, <3>2, <1>3 DEF TypeOK
  <2> QED BY <2>1, <2>2
<1>9. RevisionsAreUnique'
  <2>1. \A s \in Ids \ {r} : reports[s].status # "none" /\ reports[s].window = h
                             => reports[s].revision < n
    BY <1>1, <1>5 DEF RowsAreSound, CounterIsHighWater, Report, TypeOK
  <2> QED BY <2>1, <1>1, <1>2, <1>5 DEF RowsAreSound, RevisionsAreUnique, Report
<1>10. OneLiveSuccessor'
  <2>1. \A s \in Ids \ {r} : Live(s)' => Live(s) /\ reports'[s] = reports[s]
    BY <1>2 DEF Live, Exists
  <2>2. \A s \in Ids \ {r} : Live(s) /\ reports[s].parent = parent =>
          parent = NoReport /\ <<reports[s].op, reports[s].window>> # <<op, h>>
    BY DEF LiveChildren, Children, LiveRoots, Live
  <2>3. \A s, t \in Ids : s # t /\ s # r /\ t # r /\ Live(s)' /\ Live(t)'
                          /\ reports'[s].parent = reports'[t].parent
        => reports'[s].parent = NoReport
           /\ <<reports'[s].op, reports'[s].window>> # <<reports'[t].op, reports'[t].window>>
    BY <2>1 DEF RowsAreSound, OneLiveSuccessor
  <2>4. \A s \in Ids \ {r} : Live(s)' /\ reports'[s].parent = reports'[r].parent
        => reports'[s].parent = NoReport
           /\ <<reports'[s].op, reports'[s].window>> # <<reports'[r].op, reports'[r].window>>
    BY <2>1, <2>2, <1>2
  <2> QED BY <2>3, <2>4 DEF OneLiveSuccessor
<1>11. OverviewNeverShrinks'
  <2> SUFFICES ASSUME NEW s \in Ids, Exists(s)', reports'[s].parent # NoReport
               PROVE  reports'[reports'[s].parent].overview \subseteq reports'[s].overview
    BY DEF OverviewNeverShrinks
  <2>1. CASE s = r
    <3>1. parent \in Ids /\ reports[parent].status = "archived"
      BY <2>1, <1>2
    <3>2. reports'[parent] = reports[parent] BY <3>1, <1>2, <1>4
    <3> QED BY <3>1, <3>2, <2>1, <1>2
  <2>2. CASE s # r
    <3>1. reports'[s] = reports[s] /\ Exists(s) BY <2>2, <1>2, <1>6
    <3>2. reports[s].parent \in Ids /\ reports[reports[s].parent].status = "archived"
      BY <3>1, <1>5 DEF RowsAreSound, LineageIsOrdered, Report
    <3>3. reports'[reports[s].parent] = reports[reports[s].parent]
      BY <3>2, <1>2, <1>4
    <3> QED BY <3>1, <3>3 DEF RowsAreSound, OverviewNeverShrinks
  <2> QED BY <2>1, <2>2
<1> QED BY <1>2, <1>3, <1>4, <1>7, <1>8, <1>9, <1>10, <1>11 DEF RowsAreSound

(* Archiving a live draft, and moving a report to the trash or, without    *)
(* conflict, out of it, keep the rows sound.                               *)
LEMMA RowStep ==
  ASSUME TypeOK, RowsAreSound, NEW r \in Ids,
         \/ r \in LiveDrafts /\ Archive(r)
         \/ MoveToTrash(r)
         \/ r \in Trash /\ Restore(r)
  PROVE  reports' \in [Ids -> Report] /\ RowsAreSound' /\ UNCHANGED counter
<1>1. /\ reports' \in [Ids -> Report] /\ UNCHANGED counter
      /\ \A s \in Ids : /\ reports'[s].op = reports[s].op
                        /\ reports'[s].window = reports[s].window
                        /\ reports'[s].parent = reports[s].parent
                        /\ reports'[s].revision = reports[s].revision
                        /\ reports'[s].overview = reports[s].overview
                        /\ Exists(s)' <=> Exists(s)
                        /\ reports'[s].status = "none" <=> reports[s].status = "none"
                        /\ reports[s].status = "archived" => reports'[s].status = "archived"
  <2>1. \A s \in Ids : reports[s] \in Report BY DEF TypeOK
  <2>2. CASE r \in LiveDrafts /\ Archive(r)
    <3>1. reports' = [reports EXCEPT ![r].status = "archived"] /\ Exists(r)
      BY <2>2 DEF Archive, LiveDrafts, Live
    <3>2. [reports[r] EXCEPT !.status = "archived"] \in Report BY <2>1 DEF Report
    <3>3. reports' \in [Ids -> Report] BY <3>1, <3>2 DEF TypeOK
    <3> QED BY <2>1, <2>2, <3>1, <3>3 DEF Archive, TypeOK, Report, Exists
  <2>3. CASE MoveToTrash(r)
    <3>1. reports' = [reports EXCEPT ![r].deleted = TRUE] BY <2>3 DEF MoveToTrash
    <3>2. [reports[r] EXCEPT !.deleted = TRUE] \in Report BY <2>1 DEF Report
    <3>3. reports' \in [Ids -> Report] BY <3>1, <3>2 DEF TypeOK
    <3> QED BY <2>1, <2>3, <3>1, <3>3 DEF MoveToTrash, TypeOK, Report, Exists
  <2>4. CASE r \in Trash /\ Restore(r)
    <3>1. reports' = [reports EXCEPT ![r].deleted = FALSE] BY <2>4 DEF Restore
    <3>2. [reports[r] EXCEPT !.deleted = FALSE] \in Report BY <2>1 DEF Report
    <3>3. reports' \in [Ids -> Report] BY <3>1, <3>2 DEF TypeOK
    <3> QED BY <2>1, <2>4, <3>1, <3>3 DEF Restore, TypeOK, Report, Exists
  <2> QED BY <2>2, <2>3, <2>4
<1>2. LineageIsOrdered' /\ OverviewNeverShrinks'
  BY <1>1 DEF RowsAreSound, LineageIsOrdered, OverviewNeverShrinks, TypeOK, Report
<1>3. RevisionsAreUnique' /\ CounterIsHighWater'
  BY <1>1 DEF RowsAreSound, RevisionsAreUnique, CounterIsHighWater
<1>4. OneLiveSuccessor'
  <2>1. CASE ~(r \in Trash /\ Restore(r))
    <3>1. \A s \in Ids : Live(s)' => Live(s)
      BY <2>1 DEF Archive, MoveToTrash, TypeOK, Report, LiveDrafts, Live, Exists
    <3> QED BY <3>1, <1>1 DEF RowsAreSound, OneLiveSuccessor
  <2>2. CASE r \in Trash /\ Restore(r)
    <3>1. \A s \in Ids \ {r} : Live(s)' => Live(s)
      BY <2>2 DEF Restore, TypeOK, Report, Live, Exists
    <3>2. \A s \in Ids \ {r} : Live(s) /\ reports[s].parent = reports[r].parent =>
            /\ reports[r].parent = NoReport
            /\ <<reports[s].op, reports[s].window>> # <<reports[r].op, reports[r].window>>
      BY <2>2 DEF Restore, RestoreConflict, LiveChildren, Children, LiveRoots, Live
    <3> QED BY <3>1, <3>2, <1>1 DEF RowsAreSound, OneLiveSuccessor
  <2> QED BY <2>1, <2>2
<1> QED BY <1>1, <1>2, <1>3, <1>4 DEF RowsAreSound

(* A purge takes a report out of its chain: what it leaves is sound.       *)
LEMMA PurgeStep ==
  ASSUME TypeOK, RowsAreSound, NEW scope \in purges, NEW r \in Ids, PurgeMember(scope, r)
  PROVE  reports' \in [Ids -> Report] /\ RowsAreSound' /\ UNCHANGED counter
<1> DEFINE q == reports[r].parent
<1>1. Exists(r) /\ reports[r].deleted /\ q \in Ids \cup {NoReport}
  BY DEF PurgeMember, Trash, TypeOK, Report
<1>2. \A s \in Ids : reports[s] \in Report
  BY DEF TypeOK
<1>3. /\ reports' \in [Ids -> Report] /\ UNCHANGED counter
      /\ reports'[r] = Gone(r)
      /\ \A s \in Ids \ {r} : s \in Children(r) =>
           reports'[s] = [reports[s] EXCEPT !.parent = q]
      /\ \A s \in Ids \ {r} : s \notin Children(r) => reports'[s] = reports[s]
  <2>1. AnyWindow \in Windows BY DEF AnyWindow
  <2>2. Gone(r) \in Report BY <2>1, <1>2 DEF Gone, Unborn, Report
  <2>3. Reparented(r) \in [Ids -> Report] BY <1>1, <1>2 DEF Reparented, Report
  <2> QED BY <2>2, <2>3 DEF PurgeMember, Reparented
<1>4. \A s \in Ids \ {r} :
        /\ reports'[s].status = reports[s].status /\ reports'[s].op = reports[s].op
        /\ reports'[s].window = reports[s].window
        /\ reports'[s].revision = reports[s].revision
        /\ reports'[s].overview = reports[s].overview
        /\ reports'[s].deleted = reports[s].deleted
        /\ reports'[s].parent = IF s \in Children(r) THEN q ELSE reports[s].parent
  BY <1>2, <1>3 DEF Report
<1>5. /\ reports'[r].status = "purged" /\ reports'[r].window = reports[r].window
      /\ reports'[r].revision = reports[r].revision
  BY <1>3 DEF Gone, Unborn
<1>6. \A s \in Ids : Exists(s)' <=> Exists(s) /\ s # r
  BY <1>4, <1>5 DEF Exists
<1>7. /\ \A s \in Children(r) : s \in Ids /\ Exists(s) /\ reports[s].parent = r /\ r < s
                               /\ reports[r].status = "archived"
                               /\ reports[r].revision < reports[s].revision
                               /\ reports[r].overview \subseteq reports[s].overview
      /\ q # NoReport => /\ q \in Ids /\ q < r /\ reports[q].status = "archived"
                         /\ reports[q].revision < reports[r].revision
                         /\ reports[q].overview \subseteq reports[r].overview
  BY <1>1 DEF Children, RowsAreSound, LineageIsOrdered, OverviewNeverShrinks, Ids
<1>8. LineageIsOrdered' /\ OverviewNeverShrinks'
  <2> SUFFICES ASSUME NEW s \in Ids, Exists(s)', reports'[s].parent # NoReport
               PROVE  LET above == reports'[s].parent IN
                        /\ reports'[above].status = "archived" /\ above < s
                        /\ reports'[above].revision < reports'[s].revision
                        /\ reports'[above].overview \subseteq reports'[s].overview
    BY DEF LineageIsOrdered, OverviewNeverShrinks
  <2>1. s # r /\ Exists(s) BY <1>6
  <2>2. CASE s \in Children(r)
    <3>1. reports'[s].parent = q /\ q \in Ids /\ q # r
      BY <2>1, <2>2, <1>1, <1>4, <1>7 DEF Ids
    <3>2. reports[s].revision \in Nat /\ reports[r].revision \in Nat /\ reports[q].revision \in Nat
      BY <3>1, <1>2 DEF Report
    <3> QED BY <2>1, <2>2, <3>1, <3>2, <1>4, <1>7 DEF Ids
  <2>3. CASE s \notin Children(r)
    <3>1. reports'[s].parent = reports[s].parent /\ reports[s].parent # r
      BY <2>1, <2>3, <1>4 DEF Children
    <3>2. reports[s].parent \in Ids
      BY <3>1, <1>2 DEF Report
    <3> QED BY <2>1, <3>1, <3>2, <1>4 DEF RowsAreSound, LineageIsOrdered, OverviewNeverShrinks
  <2> QED BY <2>2, <2>3
<1>9. RevisionsAreUnique' /\ CounterIsHighWater'
  <2>1. \A s \in Ids : /\ reports'[s].revision = reports[s].revision
                       /\ reports'[s].window = reports[s].window
                       /\ reports'[s].status # "none" => reports[s].status # "none"
    BY <1>1, <1>4, <1>5 DEF Exists
  <2> QED BY <2>1, <1>3 DEF RowsAreSound, RevisionsAreUnique, CounterIsHighWater
<1>10. OneLiveSuccessor'
  <2>1. \A s \in Ids : Live(s)' => Live(s) /\ s # r
    BY <1>4, <1>6 DEF Live
  <2>2. \A c, d \in LiveChildren(r) : c = d
    BY <1>1, <1>7 DEF LiveChildren, Children, Live, RowsAreSound, OneLiveSuccessor, Ids
  <2>3. \A c \in LiveChildren(r) : \A d \in Ids \ {r} :
          Live(d) /\ reports[d].parent = q =>
            /\ q = NoReport
            /\ <<reports[d].op, reports[d].window>> # <<reports[c].op, reports[c].window>>
    <3> SUFFICES ASSUME NEW c \in LiveChildren(r), NEW d \in Ids \ {r}, Live(d),
                        reports[d].parent = q
                 PROVE  /\ q = NoReport
                        /\ <<reports[d].op, reports[d].window>> # <<reports[c].op, reports[c].window>>
      OBVIOUS
    <3>1. /\ LiveChildren(r) = {c} /\ c \in Children(r)
          /\ IF q # NoReport THEN LiveChildren(q) = {}
             ELSE LiveRoots(reports[c].op, reports[c].window) = {}
      BY <1>7, <2>2 DEF PurgeMember, MayReparent, PlaceIsFree, LiveChildren
    <3>2. d \in Ids /\ Exists(d) /\ ~reports[d].deleted BY DEF Live
    <3> QED BY <3>1, <3>2 DEF LiveChildren, Children, LiveRoots, Live
  <2> SUFFICES ASSUME NEW s \in Ids, NEW t \in Ids, s # t, Live(s)', Live(t)',
                      reports'[s].parent = reports'[t].parent
               PROVE  /\ reports'[s].parent = NoReport
                      /\ <<reports'[s].op, reports'[s].window>>
                           # <<reports'[t].op, reports'[t].window>>
    BY DEF OneLiveSuccessor
  <2>4. /\ s # r /\ t # r /\ Live(s) /\ Live(t)
        /\ s \in Children(r) => s \in LiveChildren(r)
        /\ t \in Children(r) => t \in LiveChildren(r)
    BY <2>1 DEF LiveChildren, Live
  <2>5. CASE s \in Children(r) /\ t \in Children(r) BY <2>2, <2>4, <2>5
  <2>6. CASE s \in Children(r) /\ t \notin Children(r) BY <2>3, <2>4, <2>6, <1>4
  <2>7. CASE s \notin Children(r) /\ t \in Children(r) BY <2>3, <2>4, <2>7, <1>4
  <2>8. CASE s \notin Children(r) /\ t \notin Children(r)
    BY <2>4, <2>8, <1>4 DEF RowsAreSound, OneLiveSuccessor
  <2> QED BY <2>5, <2>6, <2>7, <2>8
<1> QED BY <1>3, <1>8, <1>9, <1>10 DEF RowsAreSound

(* Rows that change as above leave what publications hold in memory good.  *)
LEMMA MemoryStep ==
  ASSUME TypeOK, MergedInMemory, UNCHANGED publication,
         \A r \in Ids : reports[r].status \in {"archived", "purged"} =>
           /\ reports'[r].status \in {"archived", "purged"}
           /\ reports'[r].status = "archived" =>
                reports[r].status = "archived" /\ reports'[r].overview = reports[r].overview
  PROVE  MergedInMemory'
<1> SUFFICES ASSUME NEW p \in Publishers, publication'[p].at # "idle"
             PROVE  LET pub == publication'[p] IN
                      /\ pub.heads = {} <=> pub.parent = NoReport
                      /\ pub.parent # NoReport =>
                           /\ reports'[pub.parent].status \in {"archived", "purged"}
                           /\ reports'[pub.parent].status = "archived" =>
                                reports'[pub.parent].overview \subseteq pub.overview
  BY DEF MergedInMemory
<1>1. publication'[p] = publication[p] OBVIOUS
<1>2. publication[p].parent # NoReport => publication[p].parent \in Ids
  BY DEF TypeOK, Publication
<1> QED BY <1>1, <1>2 DEF MergedInMemory

(* A publication that reads the day, looks at it again, gives up or tries  *)
(* once more changes no row and holds a merge of what it supersedes.       *)
LEMMA PublicationStep ==
  ASSUME IInv, NEW p \in Publishers,
         \/ \E op \in Operations, h \in Windows, above \in 0..MaxReports :
              PublishBegin(p, op, h, above)
         \/ PublishCheck(p) \/ PublishEnds(p) \/ PublishConflict(p)
  PROVE  IInv'
<1>1. UNCHANGED <<reports, counter, purges>>
  BY DEF PublishBegin, PublishCheck, PublishEnds, PublishConflict
<1>2. RowsAreSound'
  BY <1>1 DEF IInv, RowsAreSound, LineageIsOrdered, RevisionsAreUnique, CounterIsHighWater,
              OneLiveSuccessor, OverviewNeverShrinks, Exists, Live
<1>3. Idle \in Publication /\ Idle.at = "idle"
  <2> AnyWindow \in Windows BY DEF AnyWindow
  <2> QED BY DEF Idle, Publication
<1>4. \E pub \in Publication :
        /\ publication' = [publication EXCEPT ![p] = pub]
        /\ pub.at # "idle" =>
             /\ pub.heads = {} <=> pub.parent = NoReport
             /\ pub.parent # NoReport =>
                  /\ reports[pub.parent].status \in {"archived", "purged"}
                  /\ reports[pub.parent].status = "archived" =>
                       reports[pub.parent].overview \subseteq pub.overview
  <2>1. publication[p] \in Publication BY DEF IInv, TypeOK
  <2>2. CASE \E op \in Operations, h \in Windows, above \in 0..MaxReports :
               PublishBegin(p, op, h, above)
    <3> PICK op \in Operations, h \in Windows, above \in 0..MaxReports :
          PublishBegin(p, op, h, above)
      BY <2>2
    <3> DEFINE pub == [at |-> "began", op |-> op, window |-> h, heads |-> Heads(op),
                       parent |-> above,
                       overview |-> {op} \cup UNION {reports[r].overview : r \in Heads(op)},
                       attempts |-> 0]
    <3>1. /\ publication' = [publication EXCEPT ![p] = pub]
          /\ above \in IF Heads(op) = {} THEN {NoReport} ELSE Latest(Heads(op))
      BY DEF PublishBegin
    <3>2. Heads(op) \subseteq Ids /\ \A r \in Heads(op) : reports[r].status = "archived"
      BY DEF Heads, Earlier, Archived
    <3>3. above = NoReport <=> Heads(op) = {}
      BY <3>1, <3>2 DEF Latest, Ids
    <3>4. above # NoReport => above \in Heads(op)
      BY <3>1, <3>3 DEF Latest
    <3>5. pub.overview \subseteq Operations
      BY <3>2 DEF IInv, TypeOK, Report
    <3>6. pub \in Publication
      <4>a. MaxAttempts - 1 \in Nat
        OBVIOUS
      <4>b. above = NoReport \/ above \in Ids
        BY <3>2, <3>4
      <4>1. op \in Nat /\ above \in Ids \cup {NoReport} /\ 0 \in 0..(MaxAttempts - 1)
        BY <4>a, <4>b
      <4>2. Heads(op) \in SUBSET Ids BY <3>2
      <4> QED BY <4>1, <4>2, <3>5 DEF Publication
    <3>7. above # NoReport => reports[above].overview \subseteq pub.overview
      BY <3>4
    <3>8. above # NoReport => reports[above].status = "archived"
      BY <3>2, <3>4
    <3>9. pub.heads = Heads(op) /\ pub.parent = above OBVIOUS
    <3> HIDE DEF pub
    <3> QED BY <3>1, <3>3, <3>6, <3>7, <3>8, <3>9
  <2>3. CASE publication' = [publication EXCEPT ![p] = Idle]
    BY <2>3, <1>3
  <2>4. CASE PublishCheck(p) /\ publication' # [publication EXCEPT ![p] = Idle]
    <3> DEFINE pub == [publication[p] EXCEPT !.at = "checked"]
    <3>1. publication' = [publication EXCEPT ![p] = pub] /\ publication[p].at # "idle"
      BY <2>4 DEF PublishCheck
    <3>2. pub \in Publication /\ pub.heads = publication[p].heads
          /\ pub.parent = publication[p].parent /\ pub.overview = publication[p].overview
      BY <2>1 DEF Publication
    <3> HIDE DEF pub
    <3> QED BY <3>1, <3>2 DEF IInv, MergedInMemory
  <2>5. CASE PublishConflict(p) /\ publication' # [publication EXCEPT ![p] = Idle]
    <3> DEFINE pub == [publication[p] EXCEPT !.at = "conflict",
                                          !.attempts = publication[p].attempts + 1]
    <3>1. /\ publication' = [publication EXCEPT ![p] = pub] /\ publication[p].at # "idle"
          /\ publication[p].attempts + 1 # MaxAttempts
      <4>1. /\ publication' = [publication EXCEPT ![p] =
                 IF publication[p].attempts + 1 = MaxAttempts THEN Idle ELSE pub]
            /\ publication[p].at = "checked"
        BY <2>5 DEF PublishConflict
      <4>2. publication[p].attempts + 1 # MaxAttempts
        <5> HIDE DEF pub
        <5> QED BY <2>5, <4>1
      <4> QED BY <4>1, <4>2
    <3>2. publication[p].attempts + 1 \in 0..(MaxAttempts - 1)
      BY <2>1, <3>1 DEF Publication
    <3>3. pub \in Publication /\ pub.heads = publication[p].heads
          /\ pub.parent = publication[p].parent /\ pub.overview = publication[p].overview
      BY <2>1, <3>2 DEF Publication
    <3> HIDE DEF pub
    <3> QED BY <3>1, <3>3 DEF IInv, MergedInMemory
  <2>6. CASE PublishEnds(p) BY <2>6, <2>3 DEF PublishEnds
  <2> QED BY <2>2, <2>3, <2>4, <2>5, <2>6
<1>5. TypeOK'
  BY <1>1, <1>4 DEF IInv, TypeOK
<1>6. MergedInMemory'
  <2> PICK pub \in Publication :
        /\ publication' = [publication EXCEPT ![p] = pub]
        /\ pub.at # "idle" =>
             /\ pub.heads = {} <=> pub.parent = NoReport
             /\ pub.parent # NoReport =>
                  /\ reports[pub.parent].status \in {"archived", "purged"}
                  /\ reports[pub.parent].status = "archived" =>
                       reports[pub.parent].overview \subseteq pub.overview
    BY <1>4
  <2> SUFFICES ASSUME NEW s \in Publishers, publication'[s].at # "idle"
               PROVE  /\ publication'[s].heads = {} <=> publication'[s].parent = NoReport
                      /\ publication'[s].parent # NoReport =>
                           /\ reports'[publication'[s].parent].status \in {"archived", "purged"}
                           /\ reports'[publication'[s].parent].status = "archived" =>
                                reports'[publication'[s].parent].overview
                                  \subseteq publication'[s].overview
    BY DEF MergedInMemory
  <2>1. publication'[s] = IF s = p THEN pub ELSE publication[s]
    BY DEF IInv, TypeOK
  <2> QED BY <2>1, <1>1 DEF IInv, MergedInMemory
<1> QED BY <1>2, <1>5, <1>6 DEF IInv

(* Every step keeps the inductive invariant.                              *)
LEMMA StepIInv == IInv /\ [Next]_vars => IInv'
<1> SUFFICES ASSUME IInv, [Next]_vars PROVE IInv'
  OBVIOUS
<1>1. TypeOK /\ RowsAreSound /\ MergedInMemory BY DEF IInv
<1>2. ASSUME NEW p \in Publishers, Publish(p) PROVE IInv'
  <2>1. CASE \E r \in Ids : Fresh(r) /\ PublishInsert(p, r)
    <3> PICK r \in Ids : Fresh(r) /\ PublishInsert(p, r) BY <2>1
    <3> DEFINE pub == publication[p]
    <3>1. pub \in Publication /\ pub.at # "idle" BY <1>1 DEF PublishInsert, MayInsert, TypeOK
    <3>2. /\ pub.op \in Nat /\ pub.window \in Windows /\ pub.parent \in Ids \cup {NoReport}
          /\ pub.overview \in SUBSET Operations
      BY <3>1 DEF Publication
    <3>3. IF pub.parent = NoReport THEN LiveRoots(pub.op, pub.window) = {}
          ELSE /\ reports[pub.parent].status = "archived" /\ LiveChildren(pub.parent) = {}
               /\ reports[pub.parent].overview \subseteq pub.overview
      BY <1>1, <3>1, <3>2 DEF PublishInsert, MayInsert, MergedInMemory, Exists
    <3>4. Insert(r, Draft(pub.op, pub.window, pub.parent, pub.overview))
          /\ publication' = [publication EXCEPT ![p] = Idle] /\ UNCHANGED purges
      BY DEF PublishInsert
    <3> HIDE DEF pub
    <3>5. /\ reports' \in [Ids -> Report] /\ counter' \in [Windows -> Nat]
          /\ RowsAreSound'
          /\ \A s \in Ids : reports[s].status # "none" => reports'[s] = reports[s]
      BY <1>1, <3>2, <3>3, <3>4, InsertStep
    <3>6. TypeOK'
      <4>1. Idle \in Publication
        <5> AnyWindow \in Windows BY DEF AnyWindow
        <5> QED BY DEF Idle, Publication
      <4> QED BY <1>1, <3>4, <3>5, <4>1 DEF TypeOK
    <3>7. MergedInMemory'
      <4> SUFFICES ASSUME NEW s \in Publishers, publication'[s].at # "idle"
                   PROVE  LET one == publication'[s] IN
                            /\ one.heads = {} <=> one.parent = NoReport
                            /\ one.parent # NoReport =>
                                 /\ reports'[one.parent].status \in {"archived", "purged"}
                                 /\ reports'[one.parent].status = "archived" =>
                                      reports'[one.parent].overview \subseteq one.overview
        BY DEF MergedInMemory
      <4>1. publication'[s] = publication[s] BY <1>1, <3>4 DEF TypeOK, Idle
      <4>2. publication[s].parent # NoReport => publication[s].parent \in Ids
        BY <1>1 DEF TypeOK, Publication
      <4> QED BY <1>1, <4>1, <4>2, <3>5 DEF MergedInMemory
    <3> QED BY <3>5, <3>6, <3>7 DEF IInv
  <2>2. CASE ~\E r \in Ids : Fresh(r) /\ PublishInsert(p, r)
    BY <1>2, <2>2, PublicationStep DEF Publish
  <2> QED BY <2>1, <2>2
<1>3. ASSUME NEW n \in Ids, Fresh(n), NEW t \in Archived, Revise(t, n) PROVE IInv'
  <2> DEFINE source == reports[t]
  <2>1. /\ t \in Ids /\ t # NoReport /\ source.status = "archived" /\ source \in Report
        /\ LiveChildren(t) = {} /\ UNCHANGED <<publication, purges>>
        /\ Insert(n, Draft(source.op, source.window, t, source.overview))
    BY <1>1, <1>3 DEF Archived, Revise, EndsChain, TypeOK, Ids
  <2>2. /\ source.op \in Nat /\ source.window \in Windows
        /\ source.overview \in SUBSET Operations
    BY <2>1 DEF Report
  <2>3. source = reports[t] OBVIOUS
  <2> HIDE DEF source
  <2>4. /\ reports' \in [Ids -> Report] /\ counter' \in [Windows -> Nat]
        /\ RowsAreSound'
        /\ \A s \in Ids : reports[s].status # "none" => reports'[s] = reports[s]
    BY <1>1, <1>3, <2>1, <2>2, <2>3, InsertStep
  <2>5. TypeOK' BY <1>1, <2>1, <2>4 DEF TypeOK
  <2>6. MergedInMemory' BY <1>1, <2>1, <2>4, MemoryStep
  <2> QED BY <2>4, <2>5, <2>6 DEF IInv
<1>4. ASSUME NEW r \in Ids,
             \/ r \in LiveDrafts /\ Archive(r)
             \/ MoveToTrash(r)
             \/ r \in Trash /\ Restore(r)
      PROVE  IInv'
  <2>1. reports' \in [Ids -> Report] /\ RowsAreSound' /\ UNCHANGED counter
    BY <1>1, <1>4, RowStep
  <2>2. UNCHANGED <<publication, purges>> BY <1>4 DEF Archive, MoveToTrash, Restore
  <2>3. TypeOK' BY <1>1, <2>1, <2>2 DEF TypeOK
  <2>4. \A s \in Ids : reports[s].status \in {"archived", "purged"} =>
          /\ reports'[s].status \in {"archived", "purged"}
          /\ reports'[s].status = "archived" =>
               reports[s].status = "archived" /\ reports'[s].overview = reports[s].overview
    BY <1>1, <1>4 DEF Archive, MoveToTrash, Restore, TypeOK, Report, LiveDrafts
  <2> QED BY <1>1, <2>1, <2>2, <2>3, <2>4, MemoryStep DEF IInv
<1>5. ASSUME NEW scope \in purges, NEW r \in scope, PurgeMember(scope, r) PROVE IInv'
  <2>1. r \in Ids BY <1>1, <1>5 DEF TypeOK
  <2>2. reports' \in [Ids -> Report] /\ RowsAreSound' /\ UNCHANGED counter
    BY <1>1, <1>5, <2>1, PurgeStep
  <2>3. UNCHANGED <<publication, purges>> BY <1>5 DEF PurgeMember
  <2>4. TypeOK' BY <1>1, <2>2, <2>3 DEF TypeOK
  <2>5. \A s \in Ids : reports[s].status \in {"archived", "purged"} =>
          /\ reports'[s].status \in {"archived", "purged"}
          /\ reports'[s].status = "archived" =>
               reports[s].status = "archived" /\ reports'[s].overview = reports[s].overview
    <3> SUFFICES ASSUME NEW s \in Ids
                 PROVE  \/ reports'[s].status = "purged"
                        \/ /\ reports'[s].status = reports[s].status
                           /\ reports'[s].overview = reports[s].overview
      BY <1>1 DEF TypeOK, Report
    <3>1. CASE s = r
      BY <3>1, <2>1, <1>5 DEF PurgeMember, Reparented, Gone, Unborn
    <3>2. CASE s # r
      BY <3>2, <2>1, <1>1, <1>5 DEF PurgeMember, Reparented, TypeOK, Report
    <3> QED BY <3>1, <3>2
  <2> QED BY <1>1, <2>2, <2>3, <2>4, <2>5, MemoryStep DEF IInv
<1>6. ASSUME UNCHANGED <<reports, counter, publication>>, purges' \subseteq SUBSET Ids
      PROVE  IInv'
  <2>1. TypeOK' BY <1>1, <1>6 DEF TypeOK
  <2>2. RowsAreSound' BY <1>1, <1>6
    DEF RowsAreSound, LineageIsOrdered, RevisionsAreUnique, CounterIsHighWater,
        OneLiveSuccessor, OverviewNeverShrinks, Exists, Live
  <2>3. MergedInMemory' BY <1>1, <1>6 DEF MergedInMemory
  <2> QED BY <2>1, <2>2, <2>3 DEF IInv
<1>7. CASE Next
  <2>1. ASSUME NEW scope \in SUBSET Trash, EnqueuePurge(scope) PROVE IInv'
    BY <1>1, <1>6, <2>1 DEF EnqueuePurge, Trash, TypeOK
  <2>2. ASSUME NEW scope \in purges, PurgeEnds(scope) PROVE IInv'
    BY <1>1, <1>6, <2>2 DEF PurgeEnds, TypeOK
  <2>3. LiveDrafts \subseteq Ids /\ Trash \subseteq Ids BY DEF LiveDrafts, Trash
  <2> QED BY <1>2, <1>3, <1>4, <1>5, <1>7, <2>1, <2>2, <2>3 DEF Next
<1>8. CASE UNCHANGED vars
  BY <1>1, <1>6, <1>8 DEF vars, TypeOK
<1> QED BY <1>7, <1>8

(* The inductive invariant always holds.                                   *)
THEOREM Invariance == Spec => []IInv
BY InitIInv, StepIInv, PTL DEF Spec

(* Rows, numbers and what publications hold in memory are well formed.     *)
THEOREM TypeCorrect == Spec => []TypeOK
BY Invariance, PTL DEF IInv

(* Superseded reports are there, archived, older, and of a smaller number, *)
(* whatever has been purged: the chains have no gap and no cycle.          *)
THEOREM Lineage == Spec => []LineageIsOrdered
<1>1. IInv => LineageIsOrdered BY DEF IInv, RowsAreSound
<1> QED BY <1>1, Invariance, PTL

(* No revision number names two reports of a day and window, even if one   *)
(* of them has been purged.                                                *)
THEOREM UniqueRevisions == Spec => []RevisionsAreUnique
<1>1. IInv => RevisionsAreUnique BY DEF IInv, RowsAreSound
<1> QED BY <1>1, Invariance, PTL

(* No report has two live successors, and no operation two live roots:     *)
(* the checks of restore and purge suffice without the unique indexes.     *)
THEOREM SingleSuccessor == Spec => []OneLiveSuccessor
<1>1. IInv => OneLiveSuccessor BY DEF IInv, RowsAreSound
<1> QED BY <1>1, Invariance, PTL

(* What a report shows is never lost in what supersedes it.                *)
THEOREM Cumulative == Spec => []OverviewNeverShrinks
<1>1. IInv => OverviewNeverShrinks BY DEF IInv, RowsAreSound
<1> QED BY <1>1, Invariance, PTL

(* The chains of a day are ordered, numbered and connected without forks,  *)
(* for any number of reports, publications and purges.                     *)
THEOREM SoundLineage == Spec => []LineageIsSound
BY TypeCorrect, Lineage, UniqueRevisions, SingleSuccessor, PTL DEF LineageIsSound

(* A report is taken out of a chain, whose gap is closed, or is put in     *)
(* below what nobody superseded: the others have the ancestors they had.   *)
LEMMA GapClosed ==
  ASSUME NEW up \in [Ids -> Ids \cup {NoReport}], NEW after \in [Ids -> Ids \cup {NoReport}],
         NEW there \in SUBSET Ids, \A r \in there : up[r] \in there \cup {NoReport},
         NEW x \in Ids, x \in there => up[x] # x,
         \A r \in there \ {x} : after[r] = IF up[r] = x THEN up[x] ELSE up[r],
         NEW r \in there \ {x}, NEW a \in there \ {x}
  PROVE  a \in Ancestors(up)[r] <=> a \in Ancestors(after)[r]
<1> DEFINE rest == there \ {x}
<1>1. NoReport \notin Ids
  BY DEF Ids
<1>2. /\ a \in Ancestors(up)[r] <=> a # r /\ \A S \in Closed(up) : r \in S => a \in S
      /\ a \in Ancestors(after)[r] <=> a # r /\ \A S \in Closed(after) : r \in S => a \in S
  BY DEF Ancestors
<1>3. ASSUME \A S \in Closed(up) : r \in S => a \in S, NEW S \in Closed(after), r \in S
      PROVE  a \in S
  <2> DEFINE known == x \in there /\ (up[x] \in S \/ up[x] = NoReport)
             T == (S \cap rest) \cup (IF known THEN {x} ELSE {})
  <2>1. \A y \in S : after[y] \in S \/ after[y] = NoReport
    BY DEF Closed
  <2>2. ASSUME NEW y \in S \cap rest PROVE up[y] \in T \/ up[y] = NoReport
    <3>1. up[y] \in there \cup {NoReport} /\ (after[y] \in S \/ after[y] = NoReport)
      BY <2>1
    <3>2. CASE up[y] = x
      BY <3>1, <3>2, <1>1
    <3>3. CASE up[y] # x
      BY <3>1, <3>3
    <3> QED BY <3>2, <3>3
  <2>3. known => up[x] \in T \/ up[x] = NoReport
    OBVIOUS
  <2>4. T \in Closed(up)
    <3>1. T \subseteq Ids
      OBVIOUS
    <3>2. \A y \in T : up[y] \in T \/ up[y] = NoReport
      BY <2>2, <2>3
    <3> HIDE DEF T
    <3> QED BY <3>1, <3>2 DEF Closed
  <2>5. a \in T
    <3>1. r \in T
      BY <1>3
    <3> HIDE DEF T
    <3> QED BY <3>1, <2>4, <1>3
  <2> QED BY <2>5
<1>4. ASSUME \A S \in Closed(after) : r \in S => a \in S, NEW S \in Closed(up), r \in S
      PROVE  a \in S
  <2> DEFINE T == S \cap rest
  <2>1. \A y \in S : up[y] \in S \/ up[y] = NoReport
    BY DEF Closed
  <2>2. ASSUME NEW y \in T PROVE after[y] \in T \/ after[y] = NoReport
    <3>1. up[y] \in there \cup {NoReport} /\ (up[y] \in S \/ up[y] = NoReport)
      BY <2>1
    <3>2. CASE up[y] = x
      <4>1. x \in there /\ x \in S /\ after[y] = up[x]
        BY <3>1, <3>2, <1>1
      <4> QED BY <4>1, <2>1
    <3>3. CASE up[y] # x
      BY <3>1, <3>3
    <3> QED BY <3>2, <3>3
  <2>3. T \in Closed(after)
    <3>1. T \subseteq Ids
      OBVIOUS
    <3> HIDE DEF T
    <3> QED BY <3>1, <2>2 DEF Closed
  <2>4. r \in T
    BY <1>4
  <2> QED BY <2>3, <2>4, <1>4
<1> QED BY <1>2, <1>3, <1>4


(* Nothing but an insert and a purge moves a report.                       *)
LEMMA LineageStep ==
  ASSUME IInv, Next PROVE UNCHANGED Parents \/ SameLineage
<1>1. TypeOK /\ TypeOK' /\ RowsAreSound
  BY StepIInv DEF IInv
<1>2. Parents \in [Ids -> Ids \cup {NoReport}] /\ Parents' \in [Ids -> Ids \cup {NoReport}]
  BY <1>1 DEF TypeOK, Report, Parents
<1> DEFINE there == {r \in Ids : Exists(r)}
<1>3. \A r \in there : Parents[r] \in there \cup {NoReport} /\ Parents[r] # r
  BY <1>1, <1>2 DEF RowsAreSound, LineageIsOrdered, Parents, Exists, Ids
<1>4. ASSUME NEW x \in Ids, Remaining \subseteq there \ {x},
             \A r \in there \ {x} : Parents'[r] = IF Parents[r] = x THEN Parents[x] ELSE Parents[r]
      PROVE  SameLineage
  <2>1. PICK up : up = Parents
    OBVIOUS
  <2>2. PICK after : after = Parents'
    OBVIOUS
  <2>3. PICK here \in SUBSET Ids : here = there
    OBVIOUS
  <2>4. PICK rest \in SUBSET (here \ {x}) : rest = Remaining
    BY <1>4, <2>3
  <2> HIDE DEF there
  <2>5. ASSUME NEW r \in rest, NEW a \in rest
        PROVE  a \in Ancestors(up)[r] <=> a \in Ancestors(after)[r]
    <3>1. up \in [Ids -> Ids \cup {NoReport}] /\ after \in [Ids -> Ids \cup {NoReport}]
      BY <1>2, <2>1, <2>2
    <3>2. \A s \in here : up[s] \in here \cup {NoReport}
      BY <1>3, <2>1, <2>3
    <3>3. x \in here => up[x] # x
      BY <1>3, <2>1, <2>3
    <3>4. \A s \in here \ {x} : after[s] = IF up[s] = x THEN up[x] ELSE up[s]
      BY <1>4, <2>1, <2>2, <2>3
    <3>5. r \in here \ {x} /\ a \in here \ {x}
      OBVIOUS
    <3> QED BY ONLY <1>4, <2>3, <3>1, <3>2, <3>3, <3>4, <3>5, GapClosed
  <2>6. \A r \in rest : Ancestors(up)[r] \cap rest = Ancestors(after)[r] \cap rest
    BY <2>5
  <2> QED BY <2>1, <2>2, <2>4, <2>6 DEF SameLineage
<1>5. ASSUME NEW n \in Ids, Fresh(n), \A s \in Ids \ {n} : reports'[s] = reports[s]
      PROVE  SameLineage
  <2>1. reports[n].status = "none" /\ n \notin there
    BY <1>5 DEF Fresh, Ids, Exists
  <2>2. Remaining \subseteq there \ {n}
    BY <1>5, <1>1, <2>1 DEF Remaining, TypeOK, Report, Exists
  <2>3. \A r \in there \ {n} : Parents'[r] = Parents[r] /\ Parents[r] # n
    BY <1>5, <1>3, <2>1 DEF Parents, Ids
  <2> QED BY <2>2, <2>3, <1>4
<1>6. ASSUME NEW scope \in purges, NEW x \in scope, PurgeMember(scope, x)
      PROVE  SameLineage
  <2>1. x \in Ids /\ reports' = [Reparented(x) EXCEPT ![x] = Gone(x)]
    BY <1>1, <1>6 DEF TypeOK, PurgeMember
  <2>2. reports'[x].status = "purged"
    BY <2>1 DEF Reparented, Gone, Unborn
  <2>3. \A r \in Ids \ {x} :
          /\ reports'[r].status = reports[r].status
          /\ reports'[r].parent = IF r \in Children(x) THEN reports[x].parent ELSE reports[r].parent
    BY <1>1, <2>1 DEF Reparented, TypeOK, Report
  <2>4. Remaining \subseteq there \ {x}
    BY <1>1, <2>1, <2>2, <2>3 DEF Remaining, TypeOK, Report, Exists
  <2>5. \A r \in there \ {x} : Parents'[r] = IF Parents[r] = x THEN Parents[x] ELSE Parents[r]
    BY <2>1, <2>3 DEF Parents, Children
  <2> QED BY <2>1, <2>4, <2>5, <1>4
<1>7. UNCHANGED reports => UNCHANGED Parents
  BY DEF Parents
<1>8. ASSUME NEW r \in Ids, \E v \in BOOLEAN : reports' = [reports EXCEPT ![r].deleted = v]
      PROVE  UNCHANGED Parents
  <2>1. \A s \in Ids : reports'[s].parent = reports[s].parent
    BY <1>1, <1>8 DEF TypeOK, Report
  <2> QED BY <2>1 DEF Parents
<1>9. ASSUME NEW r \in Ids, reports' = [reports EXCEPT ![r].status = "archived"]
      PROVE  UNCHANGED Parents
  <2>1. \A s \in Ids : reports'[s].parent = reports[s].parent
    BY <1>1, <1>9 DEF TypeOK, Report
  <2> QED BY <2>1 DEF Parents
<1>10. ASSUME NEW p \in Publishers, Publish(p) PROVE UNCHANGED Parents \/ SameLineage
  <2>1. CASE \E n \in Ids : Fresh(n) /\ PublishInsert(p, n)
    <3> PICK n \in Ids : Fresh(n) /\ PublishInsert(p, n)
      BY <2>1
    <3>1. \A s \in Ids \ {n} : reports'[s] = reports[s]
      BY <1>1 DEF PublishInsert, Insert, TypeOK
    <3> QED BY <3>1, <1>5
  <2>2. CASE ~\E n \in Ids : Fresh(n) /\ PublishInsert(p, n)
    BY <1>10, <2>2, <1>7 DEF Publish, PublishBegin, PublishCheck, PublishEnds, PublishConflict
  <2> QED BY <2>1, <2>2
<1>11. ASSUME NEW n \in Ids, Fresh(n), NEW t \in Archived, Revise(t, n) PROVE SameLineage
  <2>1. \A s \in Ids \ {n} : reports'[s] = reports[s]
    BY <1>1, <1>11 DEF Revise, Insert, TypeOK
  <2> QED BY <2>1, <1>5, <1>11
<1>12. /\ \A r \in LiveDrafts : Archive(r) => UNCHANGED Parents
       /\ \A r \in Ids : MoveToTrash(r) => UNCHANGED Parents
       /\ \A r \in Trash : Restore(r) => UNCHANGED Parents
  BY <1>8, <1>9 DEF Archive, MoveToTrash, Restore, LiveDrafts, Trash
<1>13. /\ \A scope : EnqueuePurge(scope) => UNCHANGED Parents
       /\ \A scope : PurgeEnds(scope) => UNCHANGED Parents
  BY <1>7 DEF EnqueuePurge, PurgeEnds
<1> QED BY <1>6, <1>10, <1>11, <1>12, <1>13 DEF Next

(* Who descends from whom does not change for the reports that remain, for *)
(* any number of reports, publications and purges.                         *)
THEOREM KeptLineage == Spec => LineageIsKept
<1>1. IInv /\ [Next]_vars => [UNCHANGED Parents \/ SameLineage]_vars
  BY LineageStep
<1> QED BY <1>1, Invariance, PTL DEF Spec, LineageIsKept

---------------------------------------------------------------------------
(* The texts of the model.                                                 *)

USE CallsAssumption

Outcomes == {"success", "retry", "fallback"}
Authors == {"none", "budget_limit", "rule_fallback", "model", "model_partial"}
Tasks == {"out", "waiting", "first", "second", "done", "stopped"}

(* What is recorded of the calls agrees with who wrote the text.           *)
Attributed(by, recorded) ==
  /\ by \in Authors \ {"none"} /\ recorded \in Seq(Outcomes) /\ Len(recorded) <= 2
  /\ by \in {"model", "model_partial"} => recorded # <<>> /\ Last(recorded) = "success"
  /\ by = "rule_fallback" => recorded # <<>> /\ Last(recorded) = "fallback"
  /\ by = "budget_limit" => recorded = <<>>
Budgeted(c, by) == job = "report" => (by = "budget_limit" <=> c > Budget)

JobOK ==
  /\ job \in {"none", "events", "report"} /\ batch \subseteq Candidates /\ crashes \in Nat
  /\ task \in [Candidates -> Tasks] /\ requests \in [Candidates -> Nat]
  /\ usages \in [Candidates -> Seq(Outcomes)] /\ origin \in [Candidates -> Authors]
  /\ DOMAIN stored = Candidates
  /\ job = "none" => batch = {} /\ \A c \in Candidates : requests[c] = 0 /\ stored[c] = <<>>

(* A task in hand, with what was recorded of it so far.                    *)
TaskOK(c) ==
  /\ task[c] \in {"waiting", "first", "second"} =>
       /\ c \in batch /\ stored[c] = <<>> /\ job # "none"
       /\ job = "report" => c <= Budget
  /\ task[c] \in {"waiting", "first"} => usages[c] = <<>>
  /\ task[c] = "second" => usages[c] = <<"retry">>
  /\ c \in batch /\ task[c] = "done" => Attributed(origin[c], usages[c]) /\ Budgeted(c, origin[c])

(* What is kept of a text.                                                 *)
StoredOK(c) ==
  stored[c] # <<>> => Attributed(stored[c][1], stored[c][2]) /\ Budgeted(c, stored[c][1])

(* A candidate is asked about at most twice in an attempt.                 *)
RequestsOK(c) ==
  /\ job = "report" /\ requests[c] > 0 => c <= Budget
  /\ requests[c] <= 2 * crashes + 2
  /\ task[c] = "waiting" \/ (c \notin batch /\ stored[c] = <<>>) => requests[c] <= 2 * crashes
  /\ task[c] = "first" => requests[c] <= 2 * crashes + 1

CallInv ==
  /\ JobOK /\ Cardinality(Asking) <= Slots
  /\ \A c \in Candidates : TaskOK(c) /\ StoredOK(c) /\ RequestsOK(c)

---------------------------------------------------------------------------
(* Counting.                                                               *)

Total == Cardinality(Candidates)

(* The candidates are numbered.                                            *)
LEMMA Numbered == Total \in Nat /\ \A c : c \in Candidates <=> c \in Nat /\ 1 <= c /\ c <= Total
<1>1. Total \in Nat
  BY FS_CardinalityType DEF Total
<1> QED
  BY <1>1 DEF Total

(* The first candidates, as many as the budget has, may be asked about.    *)
LEMMA AffordableIs ==
  ASSUME NEW c \in Candidates PROVE Affordable(c) <=> c <= Budget
<1>1. c \in Nat /\ 1 <= c /\ c <= Total /\ Total \in Nat
  BY Numbered
<1>2. {d \in Candidates : d < c} = 1..(c - 1)
  BY <1>1, Numbered
<1>3. Cardinality(1..(c - 1)) = c - 1
  BY <1>1, FS_Interval
<1>4. Affordable(c) <=> c - 1 < Budget
  BY <1>2, <1>3 DEF Affordable, Lowest
<1> QED
  BY <1>1, <1>4

(* A set of candidates is finite.                                          *)
LEMMA PartOfCandidates ==
  ASSUME NEW S, S \subseteq Candidates PROVE IsFiniteSet(S) /\ Cardinality(S) \in Nat /\ Cardinality(S) <= Total
  BY FS_Subset, FS_CardinalityType DEF Total

(* Those over the budget are the rest.                                     *)
LEMMA WithinBudget ==
  ASSUME NEW S, S \subseteq Candidates
  PROVE  /\ (\A c \in S : c <= Budget) => Cardinality(S) <= Budget
         /\ (\A c \in S : c > Budget) =>
              \/ Total <= Budget /\ Cardinality(S) = 0
              \/ Total > Budget /\ Cardinality(S) <= Total - Budget
<1>1. Total \in Nat /\ Budget \in Nat
  BY Numbered
<1>2. ASSUME \A c \in S : c <= Budget PROVE Cardinality(S) <= Budget
  <2>1. S \subseteq 1..Budget
    BY <1>2, Numbered
  <2>2. IsFiniteSet(1..Budget) /\ Cardinality(1..Budget) = Budget
    BY <1>1, FS_Interval
  <2> QED
    BY <2>1, <2>2, FS_Subset
<1>3. ASSUME \A c \in S : c > Budget, Total <= Budget PROVE Cardinality(S) = 0
  <2>1. S = {}
    BY <1>1, <1>3, Numbered
  <2> QED
    BY <2>1, FS_EmptySet
<1>4. ASSUME \A c \in S : c > Budget, Total > Budget PROVE Cardinality(S) <= Total - Budget
  <2>1. S \subseteq (Budget + 1)..Total
    BY <1>1, <1>4, Numbered
  <2>2. IsFiniteSet((Budget + 1)..Total) /\ Cardinality((Budget + 1)..Total) = Total - Budget
    BY <1>1, <1>4, FS_Interval
  <2> QED
    BY <2>1, <2>2, FS_Subset
<1> QED
  BY <1>1, <1>2, <1>3, <1>4

(* The smaller and the greater of two numbers.                             *)
LEMMA Extremes ==
  ASSUME NEW a \in Nat, NEW b \in Nat
  PROVE  Min({a, b}) = (IF a <= b THEN a ELSE b) /\ Max({a, b}) = (IF a <= b THEN b ELSE a)
  BY DEF Min, Max

(* Candidates of two sorts are counted together.                           *)
LEMMA DisjointUnion ==
  ASSUME NEW S, NEW T, S \subseteq Candidates, T \subseteq Candidates, S \cap T = {}
  PROVE  Cardinality(S \cup T) = Cardinality(S) + Cardinality(T)
<1>1. IsFiniteSet(S) /\ IsFiniteSet(T) /\ Cardinality(S) \in Nat /\ Cardinality(T) \in Nat
  BY PartOfCandidates
<1>2. Cardinality(S \cap T) = 0
  BY FS_EmptySet
<1>3. Cardinality(S \cup T) = Cardinality(S) + Cardinality(T) - Cardinality(S \cap T)
  BY <1>1, FS_Union
<1> QED
  BY <1>1, <1>2, <1>3

(* The audit of a report that has kept to its budget is one the page shows.*)
LEMMA AuditAgrees ==
  ASSUME CallInv, job = "report" PROVE Recorded(Summary)
<1> DEFINE By(a) == {c \in Candidates : stored[c] # <<>> /\ stored[c][1] = a}
           written == By("model") \cup By("model_partial")
           asked == written \cup By("rule_fallback")
<1>1. \A c \in Candidates : stored[c] # <<>> =>
        /\ stored[c][1] \in Authors \ {"none"}
        /\ stored[c][1] = "budget_limit" <=> c > Budget
  BY DEF CallInv, StoredOK, Attributed, Budgeted
<1>2. Cardinality(written) = Cardinality(By("model")) + Cardinality(By("model_partial"))
  BY DisjointUnion
<1>3. Cardinality(asked) = Cardinality(written) + Cardinality(By("rule_fallback"))
  BY DisjointUnion
<1>4. Cardinality(asked \cup By("budget_limit")) = Cardinality(asked) + Cardinality(By("budget_limit"))
  BY DisjointUnion
<1>5. Candidates \ Pending = asked \cup By("budget_limit")
  BY <1>1 DEF Pending, Authors
<1>6. /\ By("model") \subseteq Candidates /\ By("model_partial") \subseteq Candidates
      /\ By("rule_fallback") \subseteq Candidates /\ By("budget_limit") \subseteq Candidates
      /\ asked \subseteq Candidates
  OBVIOUS
<1>7. /\ Cardinality(By("model")) \in Nat /\ Cardinality(By("model_partial")) \in Nat
      /\ Cardinality(By("rule_fallback")) \in Nat /\ Cardinality(By("budget_limit")) \in Nat
      /\ Cardinality(asked) \in Nat /\ Cardinality(asked) <= Total
      /\ Cardinality(Candidates \ Pending) <= Total
  BY <1>6, PartOfCandidates
<1>8. Cardinality(asked) <= Budget
  <2>1. \A c \in asked : c <= Budget
    BY <1>1, Numbered
  <2> QED
    BY <1>6, <2>1, WithinBudget
<1>9. \/ Total <= Budget /\ Cardinality(By("budget_limit")) = 0
      \/ Total > Budget /\ Cardinality(By("budget_limit")) <= Total - Budget
  <2>1. \A c \in By("budget_limit") : c > Budget
    BY <1>1
  <2> QED
    BY <1>6, <2>1, WithinBudget
<1>10. /\ Count("model") = Cardinality(By("model")) /\ Count("model_partial") = Cardinality(By("model_partial"))
       /\ Count("rule_fallback") = Cardinality(By("rule_fallback"))
       /\ Count("budget_limit") = Cardinality(By("budget_limit"))
  BY DEF Count
<1>11. /\ Summary.total = Total /\ Summary.processed = Cardinality(Candidates \ Pending)
       /\ Summary.model = Cardinality(By("model")) /\ Summary.partial = Cardinality(By("model_partial"))
       /\ Summary.rule = Cardinality(By("rule_fallback")) /\ Summary.budget = Cardinality(By("budget_limit"))
  BY <1>10 DEF Summary, Total
<1> HIDE DEF By, written, asked
<1>12. Total \in Nat /\ Budget \in Nat
  BY Numbered
<1>13. /\ Min({Total, Budget}) = (IF Total <= Budget THEN Total ELSE Budget)
       /\ Max({Total, Budget}) = (IF Total <= Budget THEN Budget ELSE Total)
  BY <1>12, Extremes
<1>14. Cardinality(Candidates \ Pending) = Cardinality(asked) + Cardinality(By("budget_limit"))
  BY <1>4, <1>5
<1> QED
  BY <1>2, <1>3, <1>7, <1>8, <1>9, <1>11, <1>12, <1>13, <1>14 DEF Recorded

---------------------------------------------------------------------------
(* The steps.                                                              *)

(* A pair is not the empty sequence.                                       *)
LEMMA KeptIsThere == \A c : Kept(c) # <<>> /\ Kept(c)[1] = origin[c] /\ Kept(c)[2] = usages[c]
  BY DEF Kept

(* A batch is opened: its texts are not kept yet, and none of them was     *)
(* asked about in this attempt.                                            *)
LEMMA OpenKeeps ==
  ASSUME CallInv, NEW j \in {"events", "report"}, job \in {"none", j}, job' = j,
         Pending # {}, batch \cap Pending = {}, j = "events" => batch = {},
         batch' = IF j = "events" THEN Pending ELSE Lowest(2, Pending), Open(j)
  PROVE  CallInv'
<1>1. JobOK /\ \A c \in Candidates : TaskOK(c) /\ StoredOK(c) /\ RequestsOK(c)
  BY DEF CallInv
<1>2. Pending \subseteq Candidates /\ \A c \in Candidates : c \in Pending <=> stored[c] = <<>>
  BY DEF Pending
<1>4. batch' \subseteq Pending /\ batch' \subseteq Candidates
  BY <1>2 DEF Lowest
<1>5. \A c \in Candidates :
        /\ task'[c] = IF c \notin batch' THEN "out"
                      ELSE IF j = "report" /\ ~Affordable(c) THEN "done" ELSE "waiting"
        /\ origin'[c] = IF task'[c] = "done" THEN "budget_limit" ELSE "none"
        /\ usages'[c] = <<>>
  BY DEF Open
<1>6. UNCHANGED <<stored, requests, crashes>>
  BY DEF Open
<1>7. \A c \in Candidates : task'[c] \in {"out", "done", "waiting"}
  BY <1>5
<1>8. /\ task' \in [Candidates -> Tasks] /\ usages' \in [Candidates -> Seq(Outcomes)]
      /\ origin' \in [Candidates -> Authors]
  <2>1. task' \in [Candidates -> Tasks]
    BY DEF Open, Tasks
  <2>2. usages' \in [Candidates -> Seq(Outcomes)]
    <3>1. <<>> \in Seq(Outcomes)
      OBVIOUS
    <3> QED
      BY <3>1 DEF Open
  <2>3. origin' \in [Candidates -> Authors]
    BY DEF Open, Authors
  <2> QED
    BY <2>1, <2>2, <2>3
<1>10. JobOK'
  BY <1>1, <1>4, <1>6, <1>8 DEF JobOK
<1>11. Cardinality(Asking') <= Slots
  <2>1. Asking' = {}
    BY <1>4, <1>7 DEF Asking
  <2> QED
    BY <2>1, FS_EmptySet
<1>12. ASSUME NEW c \in Candidates PROVE TaskOK(c)' /\ StoredOK(c)' /\ RequestsOK(c)'
  <2>1. c \in batch' => stored[c] = <<>> /\ c \notin batch
    BY <1>2, <1>4
  <2>2. Affordable(c) <=> c <= Budget
    BY AffordableIs
  <2>3. c \in Nat /\ Budget \in Nat
    BY Numbered
  <2>4. task'[c] = "done" => Attributed(origin'[c], usages'[c]) /\ c > Budget
    <3>1. Attributed("budget_limit", <<>>)
      BY DEF Attributed, Authors
    <3> QED
      BY <1>5, <2>2, <2>3, <3>1
  <2>5. TaskOK(c)'
    BY <1>5, <1>6, <2>1, <2>2, <2>4 DEF TaskOK, Budgeted
  <2>6. StoredOK(c)'
    BY <1>1, <1>6 DEF StoredOK, Budgeted, JobOK
  <2>7. requests[c] \in Nat /\ crashes \in Nat
    BY <1>1 DEF JobOK
  <2>8. c \notin batch' /\ stored[c] = <<>> => c \notin batch
    BY <1>2
  <2>9. RequestsOK(c)'
    BY <1>1, <1>5, <1>6, <2>1, <2>7, <2>8 DEF RequestsOK, JobOK
  <2> QED
    BY <2>5, <2>6, <2>9
<1> QED
  BY <1>10, <1>11, <1>12 DEF CallInv

(* A step of one task.                                                     *)
LEMMA OneTask ==
  ASSUME CallInv, NEW c \in Candidates, job # "none", UNCHANGED <<job, batch, stored, crashes>>,
         NEW t \in Tasks, task' = [task EXCEPT ![c] = t],
         NEW u \in Seq(Outcomes), usages' = [usages EXCEPT ![c] = u],
         NEW o \in Authors, origin' = [origin EXCEPT ![c] = o],
         NEW r \in Nat, requests' = [requests EXCEPT ![c] = r],
         TaskOK(c)', RequestsOK(c)',
         Cardinality(Asking) < Slots \/ t \notin {"first", "second"} \/ c \in Asking
  PROVE  CallInv'
<1>1. JobOK /\ Cardinality(Asking) <= Slots
      /\ \A d \in Candidates : TaskOK(d) /\ StoredOK(d) /\ RequestsOK(d)
  BY DEF CallInv
<1>2. JobOK'
  BY <1>1 DEF JobOK, Pending
<1>3. \A d \in Candidates \ {c} :
        /\ task'[d] = task[d] /\ usages'[d] = usages[d] /\ origin'[d] = origin[d]
        /\ requests'[d] = requests[d]
  BY <1>1 DEF JobOK
<1>4. \A d \in Candidates : TaskOK(d)' /\ StoredOK(d)' /\ RequestsOK(d)'
  <2>1. \A d \in Candidates \ {c} : TaskOK(d)'
    BY <1>1, <1>3 DEF TaskOK, Budgeted
  <2>2. \A d \in Candidates : StoredOK(d)'
    BY <1>1 DEF StoredOK, Budgeted
  <2>3. \A d \in Candidates \ {c} : RequestsOK(d)'
    BY <1>1, <1>3 DEF RequestsOK
  <2> QED
    BY <2>1, <2>2, <2>3
<1>5. IsFiniteSet(Asking) /\ Cardinality(Asking) \in Nat
  BY <1>1, PartOfCandidates DEF Asking, JobOK
<1>6. task'[c] = t
  BY <1>1 DEF JobOK
<1>7. Cardinality(Asking') <= Slots
  <2>1. CASE t \notin {"first", "second"} \/ c \in Asking
    <3>1. Asking' \subseteq Asking
      BY <1>1, <1>3, <1>6, <2>1 DEF Asking, JobOK
    <3>2. Cardinality(Asking') <= Cardinality(Asking) /\ Cardinality(Asking') \in Nat
      BY <1>5, <3>1, FS_Subset, FS_CardinalityType
    <3> QED
      BY <1>1, <1>5, <3>2
  <2>2. CASE Cardinality(Asking) < Slots
    <3>1. Asking' \subseteq Asking \cup {c}
      BY <1>1, <1>3 DEF Asking, JobOK
    <3>2. /\ IsFiniteSet(Asking \cup {c}) /\ Cardinality(Asking \cup {c}) \in Nat
          /\ Cardinality(Asking \cup {c}) <= Cardinality(Asking) + 1
      <4>1. /\ IsFiniteSet(Asking \cup {c})
            /\ \/ Cardinality(Asking \cup {c}) = Cardinality(Asking)
               \/ Cardinality(Asking \cup {c}) = Cardinality(Asking) + 1
        BY <1>5, FS_AddElement
      <4> QED
        BY <1>5, <4>1
    <3>3. Cardinality(Asking') <= Cardinality(Asking \cup {c}) /\ Cardinality(Asking') \in Nat
      BY <3>1, <3>2, FS_Subset, FS_CardinalityType
    <3> QED
      BY <1>5, <2>2, <3>2, <3>3
  <2> QED
    BY <2>1, <2>2
<1> QED
  BY <1>2, <1>4, <1>7 DEF CallInv

(* A task asks, finds no key, or is stopped at its checkpoint.             *)
LEMMA EnterKeeps ==
  ASSUME CallInv, NEW c \in Candidates, Enter(c) \/ Raise(c)
  PROVE  CallInv'
<1>1. JobOK /\ TaskOK(c) /\ RequestsOK(c)
  BY DEF CallInv
<1>2. /\ c \in batch /\ task[c] = "waiting" /\ Cardinality(Asking) < Slots
      /\ UNCHANGED <<job, batch, stored, crashes>>
  BY DEF Enter, Raise
<1>3. /\ stored[c] = <<>> /\ job # "none" /\ (job = "report" => c <= Budget)
      /\ usages[c] = <<>> /\ requests[c] <= 2 * crashes
      /\ requests[c] \in Nat /\ crashes \in Nat /\ origin[c] \in Authors /\ usages[c] \in Seq(Outcomes)
      /\ c \in Nat /\ Budget \in Nat
  BY <1>1, <1>2, Numbered DEF TaskOK, RequestsOK, JobOK
<1>4. /\ usages = [usages EXCEPT ![c] = usages[c]] /\ origin = [origin EXCEPT ![c] = origin[c]]
      /\ requests = [requests EXCEPT ![c] = requests[c]]
  BY <1>1 DEF JobOK
<1>5. CASE /\ task' = [task EXCEPT ![c] = "first"] /\ requests' = [requests EXCEPT ![c] = @ + 1]
           /\ UNCHANGED <<usages, origin>>
  <2>1. "first" \in Tasks /\ requests[c] + 1 \in Nat
    BY <1>3 DEF Tasks
  <2>2. /\ task'[c] = "first" /\ requests'[c] = requests[c] + 1
        /\ requests' = [requests EXCEPT ![c] = requests[c] + 1]
    BY <1>1, <1>5 DEF JobOK
  <2>3. TaskOK(c)'
    BY <1>2, <1>3, <1>5, <2>2 DEF TaskOK
  <2>4. RequestsOK(c)'
    BY <1>2, <1>3, <2>2 DEF RequestsOK
  <2> QED
    BY <1>2, <1>3, <1>4, <1>5, <2>1, <2>2, <2>3, <2>4, OneTask, ZenonT(30)
<1>6. CASE /\ task' = [task EXCEPT ![c] = "done"] /\ usages' = [usages EXCEPT ![c] = <<"fallback">>]
           /\ origin' = [origin EXCEPT ![c] = "rule_fallback"] /\ UNCHANGED requests
  <2>1. "done" \in Tasks /\ <<"fallback">> \in Seq(Outcomes) /\ "rule_fallback" \in Authors
    BY DEF Tasks, Outcomes, Authors
  <2>2. task'[c] = "done" /\ usages'[c] = <<"fallback">> /\ origin'[c] = "rule_fallback"
    BY <1>1, <1>6 DEF JobOK
  <2>3. Attributed("rule_fallback", <<"fallback">>)
    BY <2>1 DEF Attributed, Authors, Last
  <2>4. TaskOK(c)'
    BY <1>2, <1>3, <2>2, <2>3 DEF TaskOK, Budgeted
  <2>5. RequestsOK(c)'
    BY <1>2, <1>3, <1>6, <2>2 DEF RequestsOK
  <2> QED
    BY <1>2, <1>3, <1>4, <1>6, <2>1, <2>4, <2>5, OneTask, ZenonT(30)
<1>7. CASE Raise(c)
  <2>1. task' = [task EXCEPT ![c] = "stopped"] /\ UNCHANGED <<usages, origin, requests>> /\ "stopped" \in Tasks
    BY <1>7 DEF Raise, Tasks
  <2>2. task'[c] = "stopped"
    BY <1>1, <2>1 DEF JobOK
  <2>3. TaskOK(c)' /\ RequestsOK(c)'
    BY <1>2, <1>3, <2>1, <2>2 DEF TaskOK, RequestsOK
  <2> QED
    BY <1>2, <1>3, <1>4, <2>1, <2>3, OneTask, ZenonT(30)
<1> QED
  BY <1>5, <1>6, <1>7 DEF Enter

(* A task ends with its text attributed.                                   *)
LEMMA EndKeeps ==
  ASSUME CallInv, NEW c \in Candidates, task[c] \in {"first", "second"},
         NEW u, NEW o \in Authors \ {"none", "budget_limit"}, Attributed(o, u), End(c, u, o),
         UNCHANGED <<job, batch, stored, requests, crashes>>
  PROVE  CallInv'
<1>1. JobOK /\ TaskOK(c) /\ RequestsOK(c)
  BY DEF CallInv
<1>2. /\ c \in batch /\ stored[c] = <<>> /\ job # "none" /\ (job = "report" => c <= Budget)
      /\ c \in Nat /\ Budget \in Nat /\ requests[c] \in Nat
  BY <1>1, Numbered DEF TaskOK, JobOK
<1>3. u \in Seq(Outcomes) /\ "done" \in Tasks /\ o \in Authors
  BY DEF Attributed, Tasks
<1>4. /\ task' = [task EXCEPT ![c] = "done"] /\ usages' = [usages EXCEPT ![c] = u]
      /\ origin' = [origin EXCEPT ![c] = o] /\ requests' = [requests EXCEPT ![c] = requests[c]]
  BY <1>1 DEF End, JobOK
<1>5. task'[c] = "done" /\ usages'[c] = u /\ origin'[c] = o
  BY <1>1, <1>4 DEF JobOK
<1>6. TaskOK(c)'
  BY <1>2, <1>5 DEF TaskOK, Budgeted
<1>7. RequestsOK(c)'
  BY <1>1, <1>2, <1>5 DEF RequestsOK
<1> QED
  BY <1>2, <1>3, <1>4, <1>6, <1>7, OneTask, ZenonT(30)

(* What may be recorded of a call: its outcome, after that of a repair, or *)
(* in the place of the last outcome.                                       *)
LEMMA Recordings ==
  ASSUME NEW u \in Seq(Outcomes), Len(u) <= 1
  PROVE  /\ \A o \in {"model", "model_partial"} : Attributed(o, Append(u, "success"))
         /\ Attributed("rule_fallback", Append(u, "fallback"))
         /\ Attributed("rule_fallback", Replaced(u))
         /\ Attributed("rule_fallback", Replaced(Append(u, "success")))
<1>1. ASSUME NEW e \in Outcomes
      PROVE  /\ Append(u, e) \in Seq(Outcomes) /\ Len(Append(u, e)) \in 1..2
             /\ Append(u, e)[Len(Append(u, e))] = e
  BY <1>1, AppendProperties
<1>2. ASSUME NEW v \in Seq(Outcomes), Len(v) \in 1..2, NEW o \in Authors \ {"none"},
             IF o = "rule_fallback" THEN v[Len(v)] = "fallback"
             ELSE o # "budget_limit" /\ v[Len(v)] = "success"
      PROVE  Attributed(o, v)
  <2>1. Len(<<>>) = 0
    OBVIOUS
  <2>2. v # <<>>
    BY <1>2, <2>1
  <2>3. Last(v) = v[Len(v)]
    BY DEF Last
  <2> QED
    BY <1>2, <2>2, <2>3 DEF Attributed
<1>3. ASSUME NEW v \in Seq(Outcomes), Len(v) \in 1..2
      PROVE  Attributed("rule_fallback", [v EXCEPT ![Len(v)] = "fallback"])
  <2> DEFINE w == [v EXCEPT ![Len(v)] = "fallback"]
  <2>1. Len(v) \in 1..Len(v) /\ "fallback" \in Outcomes
    BY <1>3 DEF Outcomes
  <2>2. w \in Seq(Outcomes) /\ Len(w) = Len(v) /\ w[Len(v)] = "fallback"
    BY <2>1, ExceptSeq
  <2> HIDE DEF w
  <2>3. Attributed("rule_fallback", w)
    BY <1>2, <1>3, <2>2 DEF Authors
  <2> QED
    BY <2>3 DEF w
<1>4. ASSUME NEW v \in Seq(Outcomes), Len(v) <= 2 PROVE Attributed("rule_fallback", Replaced(v))
  <2>1. CASE v = <<>>
    <3>0. <<"fallback">> \in Seq(Outcomes)
      BY DEF Outcomes
    <3>1. PICK w \in Seq(Outcomes) : w = <<"fallback">>
      BY <3>0, Zenon
    <3>2. Len(w) = 1 /\ w[1] = "fallback"
      BY <3>1
    <3>3. Attributed("rule_fallback", w)
      BY <1>2, <3>2 DEF Authors
    <3> QED
      BY <2>1, <3>1, <3>3 DEF Replaced
  <2>2. CASE v # <<>>
    <3>0. Len(v) \in Nat \ {0}
      BY <2>2, EmptySeq
    <3>a. \A n \in Nat \ {0} : n <= 2 => n \in 1..2
      OBVIOUS
    <3>1. Len(v) \in 1..2
      BY <1>4, <3>0, <3>a
    <3> QED
      BY <1>3, <2>2, <3>1 DEF Replaced
  <2> QED
    BY <2>1, <2>2
<1>5. "success" \in Outcomes /\ "fallback" \in Outcomes
  BY DEF Outcomes
<1>6. \A o \in {"model", "model_partial"} : Attributed(o, Append(u, "success"))
  BY <1>1, <1>2, <1>5 DEF Authors
<1>7. Attributed("rule_fallback", Append(u, "fallback"))
  BY <1>1, <1>2, <1>5 DEF Authors
<1>8. Attributed("rule_fallback", Replaced(u))
  BY <1>4
<1>9. Attributed("rule_fallback", Replaced(Append(u, "success")))
  <2>1. Append(u, "success") \in Seq(Outcomes) /\ Len(Append(u, "success")) <= 2
    BY <1>1, <1>5
  <2> QED
    BY <1>4, <2>1
<1> QED
  BY <1>6, <1>7, <1>8, <1>9

(* An answer that fits, and one that does not come, end a task.            *)
LEMMA AnswersKeep ==
  ASSUME CallInv, NEW c \in Candidates, Answered(c) \/ Fail(c)
  PROVE  CallInv'
<1>1. task[c] \in {"first", "second"} /\ UNCHANGED <<job, batch, stored, requests, crashes>>
  BY DEF Answered, Fail, Asking
<1>2. usages[c] \in Seq(Outcomes) /\ Len(usages[c]) <= 1
  <2>1. usages[c] = <<>> \/ usages[c] = <<"retry">>
    BY <1>1 DEF CallInv, TaskOK
  <2>2. <<>> \in Seq(Outcomes) /\ Len(<<>>) <= 1
    OBVIOUS
  <2>3. <<"retry">> \in Seq(Outcomes) /\ Len(<<"retry">>) <= 1
    BY DEF Outcomes
  <2> QED
    BY <2>1, <2>2, <2>3
<1> DEFINE Ends(o, u) == End(c, u, o) /\ o \in Authors \ {"none", "budget_limit"} /\ Attributed(o, u)
<1>3. ASSUME NEW o, NEW u, Ends(o, u) PROVE CallInv'
  BY <1>1, <1>3, EndKeeps
<1>4. /\ \A o \in {"model", "model_partial"} : Attributed(o, Append(usages[c], "success"))
      /\ Attributed("rule_fallback", Append(usages[c], "fallback"))
      /\ Attributed("rule_fallback", Replaced(usages[c]))
      /\ Attributed("rule_fallback", Replaced(Append(usages[c], "success")))
  BY <1>2, Recordings
<1>5. \/ Ends("model", Append(usages[c], "success"))
      \/ Ends("model_partial", Append(usages[c], "success"))
      \/ Ends("rule_fallback", Replaced(Append(usages[c], "success")))
      \/ Ends("rule_fallback", Append(usages[c], "fallback"))
      \/ Ends("rule_fallback", Replaced(usages[c]))
  BY <1>4 DEF Answered, Fail, Authors
<1> HIDE DEF Ends
<1> QED
  BY <1>3, <1>5

(* An answer is sent back, or there is no time left for it.                *)
LEMMA RepairKeeps ==
  ASSUME CallInv, NEW c \in Candidates, Repair(c)
  PROVE  CallInv'
<1>1. JobOK /\ TaskOK(c) /\ RequestsOK(c) /\ task[c] = "first"
  BY DEF CallInv, Repair
<1>2. UNCHANGED <<job, batch, stored, crashes>>
  BY DEF Repair
<1>3. /\ c \in batch /\ stored[c] = <<>> /\ job # "none" /\ (job = "report" => c <= Budget)
      /\ usages[c] = <<>> /\ requests[c] <= 2 * crashes + 1
      /\ requests[c] \in Nat /\ crashes \in Nat /\ origin[c] \in Authors
  BY <1>1 DEF TaskOK, RequestsOK, JobOK
<1>4. Append(usages[c], "retry") = <<"retry">>
  BY <1>3
<1>5. CASE /\ task' = [task EXCEPT ![c] = "second"] /\ usages' = [usages EXCEPT ![c] = <<"retry">>]
           /\ requests' = [requests EXCEPT ![c] = @ + 1] /\ UNCHANGED origin
  <2>1. "second" \in Tasks /\ <<"retry">> \in Seq(Outcomes) /\ requests[c] + 1 \in Nat
    BY <1>3 DEF Tasks, Outcomes
  <2>2. /\ requests' = [requests EXCEPT ![c] = requests[c] + 1]
        /\ origin' = [origin EXCEPT ![c] = origin[c]]
        /\ task'[c] = "second" /\ usages'[c] = <<"retry">> /\ requests'[c] = requests[c] + 1
    BY <1>1, <1>5 DEF JobOK
  <2>3. TaskOK(c)'
    BY <1>2, <1>3, <2>2 DEF TaskOK
  <2>4. RequestsOK(c)'
    BY <1>1, <1>2, <1>3, <2>2 DEF RequestsOK, TaskOK
  <2>5. c \in Asking
    BY <1>1, <1>3 DEF Asking
  <2> QED
    BY <1>2, <1>3, <1>5, <2>1, <2>2, <2>3, <2>4, <2>5, OneTask, ZenonT(30)
<1>6. CASE End(c, Append(<<"retry">>, "fallback"), "rule_fallback") /\ UNCHANGED requests
  <2>1. Attributed("rule_fallback", Append(<<"retry">>, "fallback"))
    <3>1. <<"retry">> \in Seq(Outcomes) /\ Len(<<"retry">>) <= 1
      BY DEF Outcomes
    <3> QED
      BY <3>1, Recordings
  <2>2. "rule_fallback" \in Authors \ {"none", "budget_limit"}
    BY DEF Authors
  <2> QED
    BY <1>1, <1>2, <1>6, <2>1, <2>2, EndKeeps
<1> QED
  BY <1>4, <1>5, <1>6 DEF Repair

(* A text is kept once every task of its batch has ended.                  *)
LEMMA SaveKeeps ==
  ASSUME CallInv, NEW c \in Candidates, Save(c)
  PROVE  CallInv'
<1>1. JobOK /\ Cardinality(Asking) <= Slots
      /\ \A d \in Candidates : TaskOK(d) /\ StoredOK(d) /\ RequestsOK(d)
  BY DEF CallInv
<1>2. /\ c \in batch /\ \A d \in batch : task[d] = "done"
      /\ stored' = [stored EXCEPT ![c] = Kept(c)]
      /\ UNCHANGED <<job, batch, task, usages, origin, aborted, requests, crashes>>
  BY DEF Save, Lowest, calls
<1>3. /\ stored'[c] = Kept(c) /\ DOMAIN stored' = Candidates
      /\ \A d \in Candidates \ {c} : stored'[d] = stored[d]
  BY <1>1, <1>2 DEF JobOK
<1>4. JobOK'
  BY <1>1, <1>2, <1>3 DEF JobOK
<1>5. Asking' = Asking
  BY <1>2 DEF Asking
<1>6. ASSUME NEW d \in Candidates PROVE TaskOK(d)' /\ StoredOK(d)' /\ RequestsOK(d)'
  <2>1. TaskOK(d)'
    BY <1>1, <1>2 DEF TaskOK, Budgeted
  <2>2. StoredOK(d)'
    <3>1. CASE d = c
      BY <1>1, <1>2, <1>3, <3>1, KeptIsThere DEF StoredOK, TaskOK, Budgeted
    <3>2. CASE d # c
      BY <1>1, <1>2, <1>3, <3>2 DEF StoredOK, Budgeted
    <3> QED
      BY <3>1, <3>2
  <2>3. RequestsOK(d)'
    BY <1>1, <1>2, <1>3 DEF RequestsOK
  <2> QED
    BY <2>1, <2>2, <2>3
<1> QED
  BY <1>1, <1>4, <1>5, <1>6 DEF CallInv

(* Another attempt may ask twice again.                                    *)
LEMMA DieKeeps ==
  ASSUME CallInv, Die
  PROVE  CallInv'
<1>1. JobOK /\ \A d \in Candidates : TaskOK(d) /\ StoredOK(d) /\ RequestsOK(d)
  BY DEF CallInv
<1>2. /\ batch' = {} /\ crashes' = crashes + 1 /\ task' = [c \in Candidates |-> "out"]
      /\ UNCHANGED <<job, usages, origin, stored, requests>>
  BY DEF Die
<1>4. task' \in [Candidates -> Tasks] /\ crashes' \in Nat /\ \A d \in Candidates : task'[d] = "out"
  BY <1>1, <1>2 DEF Tasks, JobOK
<1>5. JobOK'
  BY <1>1, <1>2, <1>4 DEF JobOK
<1>6. Asking' = {}
  BY <1>2 DEF Asking
<1>7. ASSUME NEW d \in Candidates PROVE TaskOK(d)' /\ StoredOK(d)' /\ RequestsOK(d)'
  <2>1. requests[d] \in Nat /\ crashes \in Nat
    BY <1>1 DEF JobOK
  <2>2. RequestsOK(d)'
    BY <1>1, <1>2, <1>4, <2>1 DEF RequestsOK
  <2> QED
    BY <1>1, <1>2, <1>4, <2>2 DEF TaskOK, StoredOK, Budgeted
<1> QED
  BY <1>5, <1>6, <1>7, FS_EmptySet DEF CallInv

(* Nothing was asked.                                                      *)
LEMMA CallsInitially == CallInit => CallInv
<1> SUFFICES ASSUME CallInit PROVE CallInv
  OBVIOUS
<1>1. /\ task \in [Candidates -> Tasks] /\ requests \in [Candidates -> Nat]
      /\ usages \in [Candidates -> Seq(Outcomes)] /\ origin \in [Candidates -> Authors]
  <2>1. <<>> \in Seq(Outcomes)
    OBVIOUS
  <2> QED
    BY <2>1 DEF CallInit, Tasks, Authors
<1>2. \A c \in Candidates : requests[c] = 0 /\ stored[c] = <<>> /\ task[c] = "out"
  BY DEF CallInit
<1>3. JobOK
  BY <1>1, <1>2 DEF CallInit, JobOK
<1>4. Asking = {}
  BY DEF CallInit, Asking
<1>5. \A c \in Candidates : TaskOK(c) /\ StoredOK(c) /\ RequestsOK(c)
  BY <1>2 DEF CallInit, TaskOK, StoredOK, RequestsOK
<1> QED
  BY <1>3, <1>4, <1>5, FS_EmptySet DEF CallInv

(* All steps together.                                                     *)
LEMMA CallInvariant == CallSpec => []CallInv
<1>1. CallInv /\ [CallNext]_callVars => CallInv'
  <2> SUFFICES ASSUME CallInv, [CallNext]_callVars PROVE CallInv'
    OBVIOUS
  <2>1. CASE UNCHANGED callVars
    BY <2>1 DEF callVars, CallInv, JobOK, Pending, Asking, TaskOK, StoredOK, RequestsOK, Budgeted
  <2>2. ASSUME NEW j \in {"events", "report"}, Begin(j) PROVE CallInv'
    <3>1. batch \cap Pending = {}
      BY <2>2 DEF Begin
    <3> QED
      BY <2>2, <3>1, OpenKeeps DEF Begin
  <2>3. CASE NextBatch
    <3>1. /\ "report" \in {"events", "report"} /\ job = "report" /\ job' = "report"
          /\ Pending # {} /\ batch \cap Pending = {}
          /\ batch' = Lowest(2, Pending) /\ Open("report")
      BY <2>3 DEF NextBatch
    <3> QED
      BY <3>1, OpenKeeps
  <2>4. ASSUME NEW c \in Candidates,
               Enter(c) \/ Raise(c) \/ Answered(c) \/ Repair(c) \/ Fail(c) \/ Save(c)
        PROVE  CallInv'
    BY <2>4, EnterKeeps, AnswersKeep, RepairKeeps, SaveKeeps
  <2> QED
    BY <2>1, <2>2, <2>3, <2>4, DieKeeps DEF CallNext
<1> QED
  BY CallsInitially, <1>1, PTL DEF CallSpec

(* Every text that is kept says who wrote it, and the model is asked no    *)
(* more often than the budget of a report, the attempts and the calls at a *)
(* time allow; for any number of candidates, any budget and any number of  *)
(* attempts.                                                               *)
THEOREM AccountedCalls == CallSpec => []CallsAreAccounted
<1>1. CallInv => CallsAreAccounted
  <2> SUFFICES ASSUME CallInv PROVE CallsAreAccounted
    OBVIOUS
  <2>1. JobOK /\ \A c \in Candidates : TaskOK(c) /\ StoredOK(c) /\ RequestsOK(c)
    BY DEF CallInv
  <2>2. TextIsAttributed
    BY <2>1 DEF TextIsAttributed, StoredOK, Attributed
  <2>3. ASSUME job = "report" PROVE Cardinality({c \in Candidates : requests[c] > 0}) <= Budget
    <3> DEFINE S == {c \in Candidates : requests[c] > 0}
    <3>1. S \subseteq Candidates /\ \A c \in S : c <= Budget
      BY <2>1, <2>3 DEF RequestsOK
    <3> HIDE DEF S
    <3>2. Cardinality(S) <= Budget
      BY <3>1, WithinBudget
    <3> QED
      BY <3>2 DEF S
  <2>4. \A c \in Candidates : requests[c] <= 2 * (crashes + 1)
    BY <2>1 DEF RequestsOK, JobOK
  <2>5. \A c \in Asking : stored[c] = <<>>
    BY <2>1 DEF Asking, TaskOK, JobOK
  <2>6. BudgetIsKept
    BY <2>3, <2>4, <2>5, AuditAgrees DEF BudgetIsKept, CallInv
  <2> QED
    BY <2>2, <2>6 DEF CallsAreAccounted
<1> QED
  BY <1>1, CallInvariant, PTL
=============================================================================
