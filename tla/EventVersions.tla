--------------------------- MODULE EventVersions ---------------------------
(***************************************************************************)
(* Events, their immutable versions and the members of each version, with  *)
(* everything that publishes: the event pipeline of an operation or wave   *)
(* (EventPipeline), the editorial actions under a lease of the event       *)
(* (EventOperationHandler), and merges of two events (EventMergeService).  *)
(*                                                                         *)
(* A transaction is READ COMMITTED: what it read in one statement may be   *)
(* old in the next, unless the row is locked.  The statements between      *)
(* which that matters are steps of their own.                              *)
(***************************************************************************)
EXTENDS Naturals, SequencesExt, FiniteSetsExt

CONSTANTS
  Keys,           \* canonical keys, at most one event each
  Items,          \* raw items
  Pipelines, Editors, Deciders,   \* handlers, by what they do
  Candidates,     \* merge candidates                              (bound)
  MaxVersions,    \* versions of one event                         (bound)
  Workers,        \* handlers that run at a time                   (bound)
  None

Handlers == Pipelines \cup Editors \cup Deciders
Numbers == 0..MaxVersions
Proposals ==
  [left : Keys, right : Keys, lv : Numbers, rv : Numbers, manual : BOOLEAN,
   status : {"pending", "confirmed", "dismissed", "applied", "expired"},
   by : Handlers \cup {None}]

ASSUME EventAssumption ==
  /\ None \notin Keys /\ None \notin Handlers /\ None \notin Proposals
  /\ Pipelines \cap Editors = {} /\ Pipelines \cap Deciders = {} /\ Editors \cap Deciders = {}
  /\ MaxVersions \in Nat

VARIABLES
  version,        \* event_versions: the members of each version
  visibility,     \* events.visibility
  member,         \* event_items: rows [item, added, removed]
  lease, open,    \* events.lease_operation_id, whether it has expired
  at,             \* where a handler is
  plan, todo,     \* candidates of a pipeline, and those left in this phase
  hand, seen,     \* event in hand, current_version_number as it was read
  cut,            \* members an editor moves to another event
  manifest,       \* event_version_snapshots of a pipeline
  candidate       \* event_merge_candidates

event == <<version, visibility, member>>
leases == <<lease, open>>
pipeline == <<plan, todo, manifest>>
local == <<hand, seen, cut>>
vars == <<event, leases, at, pipeline, local, candidate>>

Number(k) == Len(version[k])        \* current_version_number; 0: no such row
Active(k) == {m.item : m \in {r \in member[k] : r.removed = 0}}

TypeOK ==
  /\ version \in [Keys -> Seq(SUBSET Items)]
  /\ visibility \in [Keys -> {"current", "legacy"}]
  /\ \A k \in Keys : \A m \in member[k] :
       m.item \in Items /\ m.added \in 1..Number(k) /\ m.removed \in 0..Number(k)
  /\ lease \in [Keys -> Handlers \cup {None}]
  /\ open \in [Keys -> BOOLEAN]
  /\ at \in [Handlers -> {"start", "plan", "publish", "claim", "edit", "write", "apply",
                          "done", "failed"}]
  /\ plan \in [Pipelines -> [Keys -> SUBSET Items]]
  /\ todo \in [Pipelines -> SUBSET Keys]
  /\ manifest \in [Pipelines -> [Keys -> Numbers]]
  /\ hand \in [Pipelines \cup Editors -> Keys \cup {None}]
  /\ seen \in [Pipelines \cup Editors -> Numbers]
  /\ cut \in [Editors -> SUBSET Items]
  /\ \A c \in Candidates : candidate[c] # None => candidate[c] \in Proposals

Init ==
  /\ version = [k \in Keys |-> <<>>]
  /\ visibility = [k \in Keys |-> "current"]
  /\ member = [k \in Keys |-> {}]
  /\ lease = [k \in Keys |-> None]
  /\ open = [k \in Keys |-> FALSE]
  /\ at = [h \in Handlers |-> "start"]
  /\ plan = [h \in Pipelines |-> [k \in Keys |-> {}]]
  /\ todo = [h \in Pipelines |-> {}]
  /\ manifest = [h \in Pipelines |-> [k \in Keys |-> 0]]
  /\ hand = [h \in Pipelines \cup Editors |-> None]
  /\ seen = [h \in Pipelines \cup Editors |-> 0]
  /\ cut = [h \in Editors |-> {}]
  /\ candidate = [c \in Candidates |-> None]

Goes(h, step) == at' = [at EXCEPT ![h] = step]

Ended(h) == at[h] \in {"done", "failed"}

(* What a handler held goes with it.                                       *)
Ends(h, how) ==
  /\ Goes(h, how)
  /\ plan' = [g \in Pipelines |-> IF g = h THEN [k \in Keys |-> {}] ELSE plan[g]]
  /\ todo' = [g \in Pipelines |-> IF g = h THEN {} ELSE todo[g]]
  /\ manifest' = [g \in Pipelines |-> IF g = h THEN [k \in Keys |-> 0] ELSE manifest[g]]
  /\ hand' = [g \in DOMAIN hand |-> IF g = h THEN None ELSE hand[g]]
  /\ seen' = [g \in DOMAIN seen |-> IF g = h THEN 0 ELSE seen[g]]
  /\ cut' = [g \in Editors |-> IF g = h THEN {} ELSE cut[g]]

(* An operation is leased while a worker is free. *)
MayStart(h) ==
  /\ at[h] = "start"
  /\ Cardinality({g \in Handlers : at[g] # "start" /\ ~Ended(g)}) < Workers

---------------------------------------------------------------------------
(* publish_complete_event and the leases.                                  *)

(* _replace_active_memberships, to make members those of version n.        *)
(* A wrong one: what leaves is deleted. *)
ReplacedForgetful(rows, members, n) ==
  {r \in rows : r.removed # 0 \/ r.item \in members}
    \cup {[item |-> i, added |-> n, removed |-> 0] :
            i \in {i \in members : \A r \in rows : r.removed = 0 => r.item # i}}
Replaced(rows, members, n) ==
  {IF r.removed = 0 /\ r.item \notin members THEN [r EXCEPT !.removed = n] ELSE r : r \in rows}
    \cup {[item |-> i, added |-> n, removed |-> 0] :
            i \in {i \in members : \A r \in rows : r.removed = 0 => r.item # i}}

(* Publishes new versions at once: members of the events in DOMAIN p.      *)
Published(p, legacies) ==
  /\ \A k \in DOMAIN p : Number(k) < MaxVersions
  /\ version' = [k \in Keys |-> IF k \in DOMAIN p THEN Append(version[k], p[k]) ELSE version[k]]
  /\ member' = [k \in Keys |->
       IF k \in DOMAIN p THEN Replaced(member[k], p[k], Number(k) + 1) ELSE member[k]]
  /\ visibility' = [k \in Keys |->
       IF k \notin DOMAIN p THEN visibility[k] ELSE IF k \in legacies THEN "legacy" ELSE "current"]

Free(k) == lease[k] = None \/ ~open[k]

(* claim_event, for all of some events, and release_event                  *)
Claimed(h, ks) ==
  /\ lease' = [k \in Keys |-> IF k \in ks THEN h ELSE lease[k]]
  /\ open' = [k \in Keys |-> k \in ks \/ open[k]]
Released(h) ==
  /\ lease' = [k \in Keys |-> IF lease[k] = h THEN None ELSE lease[k]]
  /\ open' = [k \in Keys |-> lease[k] # h /\ open[k]]

LeaseExpires(k) ==
  /\ lease[k] # None /\ open[k]
  /\ open' = [open EXCEPT ![k] = FALSE]
  /\ UNCHANGED <<event, lease, at, pipeline, local, candidate>>

(* The process dies, the operation is cancelled at a checkpoint that does  *)
(* not tidy up, or the database refuses; a claim that was committed stays. *)
Die(h) ==
  /\ at[h] # "start" /\ ~Ended(h)
  /\ Ends(h, "failed")
  /\ UNCHANGED <<event, leases, candidate>>

---------------------------------------------------------------------------
(* The pipeline of operation h: EventPipeline.run.                         *)

(* Any of the items may be recent, relevant and newsworthy ...             *)
Selections == SUBSET Items

(* ... and those selected fall into disjoint candidates.                   *)
Clusterings(selected) ==
  {p \in [Keys -> SUBSET selected] :
     /\ UNION {p[k] : k \in Keys} = selected
     /\ \A k, l \in Keys : k # l => p[k] \cap p[l] = {}}

Cluster(h) ==
  /\ MayStart(h)
  /\ \E selected \in Selections : \E p \in Clusterings(selected) :
       /\ plan' = [plan EXCEPT ![h] = p]
       /\ todo' = [todo EXCEPT ![h] = {k \in Keys : p[k] # {}}]
  /\ Goes(h, "plan")
  /\ UNCHANGED <<event, leases, manifest, local, candidate>>

(* The row of the event is read first, in both phases ...                  *)
ReadEvent(h, k) ==
  /\ at[h] \in {"plan", "publish"} /\ hand[h] = None /\ k \in todo[h]
  /\ hand' = [hand EXCEPT ![h] = k]
  /\ seen' = [seen EXCEPT ![h] = Number(k)]
  /\ UNCHANGED <<event, leases, at, pipeline, cut, candidate>>

PutDown(h) ==
  /\ hand' = [hand EXCEPT ![h] = None]
  /\ seen' = [seen EXCEPT ![h] = 0]

(* ... and its members by a later statement.                               *)
SameMembership(h, k) == seen[h] # 0 /\ Active(k) = plan[h][k]

(* _capture_event_version                                                  *)
Captured(h, k, n) == manifest' = [manifest EXCEPT ![h][k] = n]

(* First phase: what needs no version is captured, the rest is scored.     *)
PlanCandidate(h) ==
  LET k == hand[h] IN
  /\ at[h] = "plan" /\ k # None
  /\ IF SameMembership(h, k) THEN Captured(h, k, seen[h]) ELSE UNCHANGED manifest
  /\ todo' = [todo EXCEPT ![h] = @ \ {k}]
  /\ PutDown(h)
  /\ UNCHANGED <<event, leases, at, plan, cut, candidate>>

(* The model enriches what is left, between two checkpoints.               *)
Enrich(h) ==
  /\ at[h] = "plan" /\ hand[h] = None /\ todo[h] = {}
  /\ todo' = [todo EXCEPT ![h] = {k \in Keys : plan[h][k] # {} /\ manifest[h][k] = 0}]
  /\ Goes(h, "publish")
  /\ UNCHANGED <<event, leases, plan, manifest, local, candidate>>

(* Second phase.  After the row was read, the members are read, the event  *)
(* is claimed (its row is locked now) and the members are read again.      *)
CaptureSame(h) ==
  LET k == hand[h] IN
  /\ at[h] = "publish" /\ k # None
  /\ SameMembership(h, k)
  /\ Captured(h, k, seen[h])
  /\ todo' = [todo EXCEPT ![h] = @ \ {k}]
  /\ PutDown(h)
  /\ UNCHANGED <<event, leases, at, plan, cut, candidate>>

(* The version number comes from the row as it was read, and the unique    *)
(* (event_id, version_number) refuses it if it was not the current one.    *)
MayPublish(h, k) == seen[h] = Number(k) /\ Free(k)

PublishCandidate(h) ==
  LET k == hand[h] IN
  /\ at[h] = "publish" /\ k # None /\ seen[h] # 0
  /\ Active(k) # plan[h][k]
  /\ MayPublish(h, k)
  /\ Published([l \in {k} |-> plan[h][k]], {})
  /\ Captured(h, k, Number(k) + 1)
  /\ lease' = [lease EXCEPT ![k] = None] /\ open' = [open EXCEPT ![k] = FALSE]
  /\ todo' = [todo EXCEPT ![h] = @ \ {k}]
  /\ PutDown(h)
  /\ UNCHANGED <<at, plan, cut, candidate>>

PublicationConflict(h) ==
  LET k == hand[h] IN
  /\ at[h] = "publish" /\ k # None
  /\ \/ seen[h] # 0 /\ ~(Free(k) /\ seen[h] = Number(k))
     \/ seen[h] = 0 /\ Number(k) # 0 /\ Active(k) # plan[h][k]
  /\ Ends(h, "failed")
  /\ UNCHANGED <<event, leases, candidate>>

(* No event was found.  It is inserted; or another transaction has done it *)
(* and committed: before the row was looked for again, which publishes the *)
(* next version without a claim, or after that, which collides.            *)
PublishNew(h) ==
  LET k == hand[h] IN
  /\ at[h] = "publish" /\ k # None /\ seen[h] = 0
  /\ Published([l \in {k} |-> plan[h][k]], {})
  /\ Captured(h, k, Number(k) + 1)
  /\ todo' = [todo EXCEPT ![h] = @ \ {k}]
  /\ PutDown(h)
  /\ UNCHANGED <<leases, at, plan, cut, candidate>>

ReuseCollided(h) ==
  LET k == hand[h] IN
  /\ at[h] = "publish" /\ k # None /\ seen[h] = 0
  /\ Number(k) # 0 /\ Active(k) = plan[h][k]
  /\ Captured(h, k, Number(k))
  /\ todo' = [todo EXCEPT ![h] = @ \ {k}]
  /\ PutDown(h)
  /\ UNCHANGED <<event, leases, at, plan, cut, candidate>>

(* The manifest is read once more, and becomes the result.                 *)
FinishPipeline(h) ==
  /\ at[h] = "publish" /\ hand[h] = None /\ todo[h] = {}
  /\ Ends(h, "done")
  /\ UNCHANGED <<event, leases, candidate>>

---------------------------------------------------------------------------
(* The editorial action of operation h.                                    *)

(* _validate_event_action: the members to split off are active.  {} stands *)
(* for the actions that move nobody: exclude, enrich, recluster.           *)
ValidateAction(h, k) ==
  /\ MayStart(h) /\ Number(k) # 0
  /\ \E members \in SUBSET Active(k) : cut' = [cut EXCEPT ![h] = members]
  /\ hand' = [hand EXCEPT ![h] = k]
  /\ Goes(h, "claim")
  /\ UNCHANGED <<event, leases, pipeline, seen, candidate>>

ClaimEvent(h) ==
  LET k == hand[h] IN
  /\ at[h] = "claim"
  /\ \/ Free(k) /\ Claimed(h, {k}) /\ Goes(h, "edit") /\ UNCHANGED <<pipeline, local>>
     \/ ~Free(k) /\ Ends(h, "failed") /\ UNCHANGED leases
  /\ UNCHANGED <<event, candidate>>

ReadForAction(h) ==
  /\ at[h] = "edit"
  /\ seen' = [seen EXCEPT ![h] = Number(hand[h])]
  /\ Goes(h, "write")
  /\ UNCHANGED <<event, leases, pipeline, hand, cut, candidate>>

(* exclude, and enrich when it has something new to say                    *)
Reissued(k) == Published([l \in {k} |-> Active(k)], {})

(* Split and recluster publish another event too, which nobody claimed.    *)
Split(k, members) ==
  \E other \in Keys \ {k} :
    Published([l \in {k, other} |-> IF l = k THEN Active(k) \ members ELSE members], {})

Reclustered(k) ==
  \/ UNCHANGED event
  \/ \E members \in (SUBSET Active(k)) \ {{}, Active(k)} : Split(k, members)

ApplyAction(h) ==
  LET k == hand[h] IN
  /\ at[h] = "write" /\ seen[h] = Number(k)
  /\ IF cut[h] # {} THEN Split(k, cut[h]) ELSE Reissued(k) \/ Reclustered(k)
  /\ Released(h)
  /\ Ends(h, "done")
  /\ UNCHANGED candidate

ActionFails(h) ==
  /\ at[h] \in {"edit", "write"}
  /\ Released(h)
  /\ Ends(h, "failed")
  /\ UNCHANGED <<event, candidate>>

---------------------------------------------------------------------------
(* Merges.                                                                 *)

(* upsert_candidate: a root for each pair of versions.                     *)
Proposed(c, k, l, kv, lv) ==
  /\ candidate[c] = None
  /\ \A d \in Candidates : candidate[d] # None =>
       <<candidate[d].left, candidate[d].right, candidate[d].lv, candidate[d].rv>>
         # <<k, l, kv, lv>>
  /\ \E manual \in BOOLEAN :
       candidate' = [candidate EXCEPT ![c] =
         [left |-> k, right |-> l, lv |-> kv, rv |-> lv, manual |-> manual,
          status |-> "pending", by |-> None]]

(* The scan loads the facts of one event after the other, so it may have   *)
(* read each of the two at any version that had members.                   *)
Facts(k) == {n \in 1..Number(k) : version[k][n] # {}}
ProposeMerge(c, k, l) ==
  /\ k # l
  /\ \E kv \in Facts(k), lv \in Facts(l) : Proposed(c, k, l, kv, lv)
  /\ UNCHANGED <<event, leases, at, pipeline, local>>

(* mark_reviewed, mark_expired and mark_applied                            *)
Marked(c, result) == candidate' = [candidate EXCEPT ![c].status = result]
Reviewed(h, c, result) ==
  candidate' = [candidate EXCEPT ![c].status = result, ![c].by = h]

Stale(c) ==
  LET r == candidate[c] IN r.lv # Number(r.left) \/ r.rv # Number(r.right)

(* _expire_stale_candidates; versions are read before the pending ones are *)
(* marked, when one of them may have been confirmed.                       *)
ExpireStale(c) ==
  /\ candidate[c] # None /\ candidate[c].status \in {"pending", "confirmed"} /\ Stale(c)
  /\ Marked(c, "expired")
  /\ UNCHANGED <<event, leases, at, pipeline, local>>

(* Which candidate the decision of operation h is about.                   *)
DecidesOn(h, c) == candidate[c] # None /\ MayStart(h)

(* review                                                                  *)
Dismiss(h, c) ==
  /\ DecidesOn(h, c) /\ candidate[c].status = "pending"
  /\ Reviewed(h, c, "dismissed")
  /\ Goes(h, "done")
  /\ UNCHANGED <<event, leases, pipeline, local>>

(* resolve_recheck: no candidate any more, or one of the present versions. *)
Recheck(h, c) ==
  LET r == candidate[c] IN
  /\ DecidesOn(h, c) /\ r.status = "pending"
  /\ \/ Reviewed(h, c, "expired")
     \/ \E manual \in BOOLEAN, d \in Candidates :
          /\ candidate[d] = None
          /\ candidate' = [candidate EXCEPT
               ![c].status = "expired", ![c].by = h,
               ![d] = [r EXCEPT !.lv = Number(r.left), !.rv = Number(r.right), !.manual = manual]]
  /\ Goes(h, "done")
  /\ UNCHANGED <<event, leases, pipeline, local>>

(* Direct candidates are applied, others confirmed first; both claim the   *)
(* two events, in one transaction.                                         *)
BeginMerge(h, c) ==
  LET r == candidate[c] IN
  /\ DecidesOn(h, c)
  /\ \/ ~r.manual /\ UNCHANGED candidate
     \/ /\ r.manual /\ r.status = "pending"
        /\ Reviewed(h, c, "confirmed")
  /\ Goes(h, "claim")
  /\ UNCHANGED <<event, leases, pipeline, local>>

ClaimBoth(h, c) ==
  LET both == {candidate[c].left, candidate[c].right} IN
  /\ at[h] = "claim" /\ candidate[c] # None /\ candidate[c].by \in {h, None}
  /\ \/ (\A k \in both : Free(k)) /\ Claimed(h, both) /\ Goes(h, "apply")
     \/ (\E k \in both : ~Free(k)) /\ Goes(h, "failed") /\ UNCHANGED leases
  /\ UNCHANGED <<event, pipeline, local, candidate>>

(* _locked_revalidation_error, with both events locked.                    *)
Applicable(h, c) ==
  LET r == candidate[c] IN
  IF r.manual THEN r.status = "confirmed" /\ r.by = h ELSE r.status = "pending"
(* A wrong one: the members are compared and the versions are not. *)
SafeByMembers(c) ==
  LET r == candidate[c] IN
  /\ visibility[r.left] = "current" /\ visibility[r.right] = "current"
StillSafe(c) ==
  LET r == candidate[c] IN
  /\ visibility[r.left] = "current" /\ visibility[r.right] = "current"
  /\ ~Stale(c)

(* _publish_revalidated_pair: the loser is left empty, as a legacy event.  *)
Joined(c) ==
  LET both == {candidate[c].left, candidate[c].right} IN
  \E survivor \in both :
    Published([k \in both |->
                 IF k = survivor THEN UNION {Active(l) : l \in both} ELSE {}],
              both \ {survivor})

ApplyMerge(h, c) ==
  /\ at[h] = "apply" /\ candidate[c] # None /\ Applicable(h, c)
  /\ \/ /\ StillSafe(c) /\ Joined(c)
        /\ Marked(c, "applied")
        /\ Goes(h, "done")
     \/ /\ Marked(c, "expired")
        /\ Goes(h, "failed") /\ UNCHANGED event
  /\ Released(h)
  /\ UNCHANGED <<pipeline, local>>

MergeFails(h) ==
  /\ at[h] = "apply"
  /\ Released(h)
  /\ Ends(h, "failed")
  /\ UNCHANGED <<event, candidate>>

---------------------------------------------------------------------------
Next ==
  \/ \E k \in Keys : LeaseExpires(k)
  \/ \E h \in Handlers : Die(h)
  \/ \E h \in Pipelines :
       \/ Cluster(h) \/ PlanCandidate(h) \/ Enrich(h) \/ CaptureSame(h)
       \/ PublishCandidate(h) \/ PublicationConflict(h) \/ PublishNew(h)
       \/ ReuseCollided(h) \/ FinishPipeline(h)
       \/ \E k \in Keys : ReadEvent(h, k)
  \/ \E h \in Editors :
       \/ ClaimEvent(h) \/ ReadForAction(h) \/ ApplyAction(h) \/ ActionFails(h)
       \/ \E k \in Keys : ValidateAction(h, k)
  \/ \E h \in Deciders :
       \/ MergeFails(h)
       \/ \E c \in Candidates :
            Dismiss(h, c) \/ Recheck(h, c) \/ BeginMerge(h, c) \/ ClaimBoth(h, c)
              \/ ApplyMerge(h, c)
  \/ \E c \in Candidates :
       \/ ExpireStale(c)
       \/ \E k, l \in Keys : ProposeMerge(c, k, l)

Spec == Init /\ [][Next]_vars

---------------------------------------------------------------------------
(* Properties.                                                             *)

(* A version can be rebuilt: the rows of event_items that were added up to *)
(* a version and not removed by it are the members it was published with,  *)
(* however members left and came back.  Facts of a merge, and the report   *)
(* of an older version, are read that way.                                 *)
RowsRebuildVersions ==
  \A k \in Keys : \A n \in 1..Number(k) :
    {m.item : m \in {r \in member[k] : r.added <= n /\ (r.removed = 0 \/ r.removed > n)}}
      = version[k][n]

(* A merge joins what was reviewed, although leases run out and the splits *)
(* and new candidates of others publish without one: no version came       *)
(* between the two a candidate was made for and those of the merge.        *)
MergedAsReviewed ==
  \A c \in Candidates :
    candidate[c] # None /\ candidate[c].status = "applied" =>
      LET r == candidate[c]
          l == version[r.left]
          q == version[r.right]
      IN /\ Len(l) > r.lv /\ Len(q) > r.rv
         /\ {l[r.lv + 1], q[r.rv + 1]} = {l[r.lv] \cup q[r.rv], {}}

(* What a pipeline counts as produced or reused was published: the version *)
(* its manifest names, or a later one, has the members of the candidate.   *)
(* It may be a later one, as the number is read before the members.        *)
ManifestIsPublished ==
  \A h \in Pipelines, k \in Keys :
    manifest[h][k] # 0 =>
      \E n \in manifest[h][k]..Number(k) : version[k][n] = plan[h][k]

(* Versions stay what they were when they were published, for those who    *)
(* read them from the rows and for the manifests that name them.           *)
VersionsAreKept == TypeOK /\ RowsRebuildVersions /\ ManifestIsPublished
=============================================================================
