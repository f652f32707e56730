--------------------------- MODULE SourceIngestion ---------------------------
(***************************************************************************)
(* Fetching the items of a source (IngestionService.fetch_source) by       *)
(* handlers of several operations and waves at once: the advisory lock of  *)
(* a source, the run, one transaction per item (RawItemRepository), the    *)
(* audit of a run, the duplicate candidates between sources, and the state *)
(* for the next, conditional request.                                      *)
(*                                                                         *)
(* The identity of a raw item is its source and the external id under      *)
(* which it was inserted.  The content of an item stands for all that its  *)
(* content hash covers besides the canonical URL.                          *)
(***************************************************************************)
EXTENDS Naturals, SequencesExt, FiniteSetsExt

CONSTANTS
  Sources,
  Externals, Urls, Contents,   \* of the items providers deliver
  Responses,                   \* of providers: sequences of items
  Fetchers,                    \* calls of fetch_source, by any handler
  SourceOf,                    \* the source each of them fetches
  Null,
  MaxFaults                    \* crashes, cancellations, failing writes  (bound)

Item == [ext : Externals, url : Urls, content : Contents]
Ids == Sources \X Externals
Actions == {"inserted", "updated", "unchanged", "skipped", "failed"}
Records == [url : Urls, content : Contents, seen : Fetchers]
Writes == [id : Ids \cup {Null}, action : Actions, twins : SUBSET Ids]

ASSUME IngestionAssumption ==
  /\ SourceOf \in [Fetchers -> Sources] /\ IsFiniteSet(Fetchers)
  /\ Responses \subseteq Seq(Item)
  /\ Null \notin Fetchers /\ Null \notin Ids /\ Null \notin Records /\ Null \notin Writes
  /\ MaxFaults \in Nat

VARIABLES
  lock,          \* pg_try_advisory_lock of each source
  stage,         \* where each call is
  answer,        \* the outcome its fetcher returned ...
  response,      \* ... and the items
  pending,       \* the open transaction of an item
  counts,        \* actions counted so far
  run,           \* fetch_runs: the run of each call
  audit,         \* fetch_run_items
  row,           \* raw_items
  snapshots,     \* raw_item_snapshots
  duplicates,    \* duplicate_candidates of match type canonical_url
  state,         \* source_fetch_states: the call whose answer etag and cursor are of
  faults

fetched == <<answer, response>>
tables == <<run, audit, row, snapshots, duplicates, state>>
ingestionVars == <<lock, stage, fetched, pending, counts, tables, faults>>

Source(f) == SourceOf[f]
Delivered == {"items", "partial"}   \* answers with items: all of them, or some
NoCounts == [a \in Actions |-> 0]
NoRun == [order |-> 0, outcome |-> "none", counts |-> NoCounts]

Inside(f) == stage[f] \notin {"idle", "over"}

(* The values of the variables; a lock is held by a call of its source     *)
(* that has not ended (the finally of fetch_source).                       *)
IngestionTypeOK ==
  /\ \A s \in Sources : lock[s] # Null => Source(lock[s]) = s /\ Inside(lock[s])
  /\ lock \in [Sources -> Fetchers \cup {Null}]
  /\ stage \in [Fetchers -> {"idle", "requesting", "writing", "committing", "over"}]
  /\ \A f \in Fetchers :
       IF stage[f] = "committing" THEN pending[f] \in Writes ELSE pending[f] = Null
  /\ \A f \in Fetchers :
       /\ answer[f] \in {"none", "items", "partial", "no_change", "failed"}
       /\ response[f] \in Responses \cup {<<>>}
       /\ answer[f] \notin Delivered => response[f] = <<>>
       /\ run[f] \in [order : 0..Cardinality(Fetchers),
                      outcome : {"none", "pending", "succeeded", "partial", "no_change", "failed"},
                      counts : [Actions -> Nat]]
       /\ audit[f] \in Seq([ext : Externals, action : Actions])
  /\ row \in [Ids -> {Null} \cup Records]
  /\ \A id \in Ids : snapshots[id] \subseteq Urls \X Contents
  /\ duplicates \subseteq SUBSET Ids
  /\ state \in [Sources -> Fetchers \cup {Null}]
  /\ faults \in 0..MaxFaults

IngestionInit ==
  /\ lock = [s \in Sources |-> Null]
  /\ stage = [f \in Fetchers |-> "idle"]
  /\ answer = [f \in Fetchers |-> "none"]
  /\ response = [f \in Fetchers |-> <<>>]
  /\ pending = [f \in Fetchers |-> Null]
  /\ counts = [f \in Fetchers |-> NoCounts]
  /\ run = [f \in Fetchers |-> NoRun]
  /\ audit = [f \in Fetchers |-> <<>>]
  /\ row = [id \in Ids |-> Null]
  /\ snapshots = [id \in Ids |-> {}]
  /\ duplicates = {}
  /\ state = [s \in Sources |-> Null]
  /\ faults = 0

---------------------------------------------------------------------------
(* The call.                                                               *)

Steps(f, to) == stage' = [stage EXCEPT ![f] = to]

Unlocked(s) == lock[s] = Null

(* A source that is not eligible, or locked, is answered with blocked.     *)
Acquire(f) ==
  /\ stage[f] = "idle"
  /\ IF Unlocked(Source(f)) THEN Steps(f, "requesting") /\ lock' = [lock EXCEPT ![Source(f)] = f]
     ELSE Steps(f, "over") /\ UNCHANGED lock
  /\ UNCHANGED <<fetched, pending, counts, tables, faults>>

Release(f) == lock' = [lock EXCEPT ![Source(f)] = IF @ = f THEN Null ELSE @]

(* A checkpoint raises, or the process dies: the lock is given back with   *)
(* the connection, an open transaction is rolled back, a run stays pending.*)
Interrupt(f) ==
  /\ Inside(f) /\ faults < MaxFaults
  /\ faults' = faults + 1
  /\ Steps(f, "over") /\ Release(f)
  /\ pending' = [pending EXCEPT ![f] = Null]
  /\ UNCHANGED <<fetched, counts, tables>>

(* The request, and _start_run after it.  Only one that carries the state  *)
(* of a former request is answered by 304.                                 *)
Answer(f, outcome, items) ==
  /\ answer' = [answer EXCEPT ![f] = outcome]
  /\ response' = [response EXCEPT ![f] = items]

Started == 1 + Cardinality({g \in Fetchers : run[g].order > 0})
Respond(f) ==
  /\ stage[f] = "requesting"
  /\ \/ \E items \in Responses, outcome \in Delivered : Answer(f, outcome, items)
     \/ Answer(f, "failed", <<>>)
     \/ state[Source(f)] # Null /\ Answer(f, "no_change", <<>>)
  /\ run' = [run EXCEPT ![f] = [NoRun EXCEPT !.order = Started, !.outcome = "pending"]]
  /\ Steps(f, "writing")
  /\ UNCHANGED <<lock, pending, counts, audit, row, snapshots, duplicates, state, faults>>

(* dry_run ends after the request, and leaves nothing.                     *)
EndDryRun(f) ==
  /\ stage[f] = "requesting"
  /\ Steps(f, "over") /\ Release(f)
  /\ UNCHANGED <<fetched, pending, counts, tables, faults>>

---------------------------------------------------------------------------
(* upsert of the next item, in a transaction of its own.  Other sources    *)
(* commit theirs meanwhile; rows of this source are under its lock.        *)

ItemOf(f) == response[f][Len(audit[f]) + 1]
Rows(s) == {id \in Ids : id[1] = s /\ row[id] # Null}

ByExternal(s, i) == {id \in Rows(s) : id[2] = i.ext}
ByUrl(s, i) == {id \in Rows(s) : row[id].url = i.url}

IdentityConflict(s, i) == ByExternal(s, i) # {} /\ ByUrl(s, i) # {} /\ ByExternal(s, i) # ByUrl(s, i)

(* external_match or canonical_match, or the row to insert.                *)
Target(s, i) ==
  IF ByExternal(s, i) \cup ByUrl(s, i) = {} THEN <<s, i.ext>>
  ELSE IF ByExternal(s, i) # {} THEN CHOOSE id \in ByExternal(s, i) : TRUE
  ELSE CHOOSE id \in ByUrl(s, i) : TRUE

ActionOn(id, i) ==
  CASE row[id] = Null -> "inserted"
    [] row[id] # Null /\ (row[id].url # i.url \/ row[id].content # i.content) -> "updated"
    [] OTHER -> "unchanged"

(* _add_candidates: for new and changed rows, among the committed ones.    *)
Twins(id, i) == {other \in Ids : other[1] # id[1] /\ row[other] # Null /\ row[other].url = i.url}

Write(f, id, action, found) ==
  pending' = [pending EXCEPT ![f] = [id |-> id, action |-> action, twins |-> found]]

Upsert(f) ==
  /\ stage[f] = "writing" /\ Len(audit[f]) < Len(response[f])
  /\ LET s == Source(f)
         i == ItemOf(f)
         id == Target(s, i) IN
       \/ /\ IdentityConflict(s, i) /\ Write(f, Null, "skipped", {}) /\ UNCHANGED faults
       \/ /\ ~IdentityConflict(s, i) /\ UNCHANGED faults
          /\ Write(f, id, ActionOn(id, i), IF ActionOn(id, i) = "unchanged" THEN {} ELSE Twins(id, i))
       \/ (* It raises: rolled back, and recorded as a failure. *)
          /\ faults < MaxFaults /\ faults' = faults + 1
          /\ Write(f, Null, "failed", {})
  /\ Steps(f, "committing")
  /\ UNCHANGED <<lock, fetched, counts, tables>>

(* A wrong one: a failed item is called one that conflicts. *)
EnteredIfWritten(f, entry) ==
  Append(audit[f], IF entry.action = "failed" THEN [entry EXCEPT !.action = "skipped"] ELSE entry)
Entered(f, entry) == Append(audit[f], entry)

(* _new_record and _apply_item, _add_snapshot, _add_candidate: what the    *)
(* item leaves in the tables.                                              *)
NewRecord(f, i) == [url |-> i.url, content |-> i.content, seen |-> f]
Snapshots(id, i) == snapshots[id] \cup {<<i.url, i.content>>}
Pairs(p) == {{p.id, other} : other \in p.twins}

Commit(f) ==
  /\ stage[f] = "committing"
  /\ LET i == ItemOf(f)
         p == pending[f] IN
       /\ audit' = [audit EXCEPT ![f] = Entered(f, [ext |-> i.ext, action |-> p.action])]
       /\ counts' = [counts EXCEPT ![f][p.action] = @ + 1]
       /\ duplicates' = duplicates \cup Pairs(p)
       /\ IF p.id = Null THEN UNCHANGED <<row, snapshots>>
          ELSE /\ row' = [row EXCEPT ![p.id] = NewRecord(f, i)]
               /\ snapshots' = [snapshots EXCEPT ![p.id] = Snapshots(p.id, i)]
  /\ pending' = [pending EXCEPT ![f] = Null]
  /\ Steps(f, "writing")
  /\ UNCHANGED <<lock, fetched, run, state, faults>>

(* A wrong one: what a fetcher calls a success stays one. *)
OutcomeOfAnswer(f) == IF answer[f] = "items" THEN "succeeded" ELSE answer[f]
Outcome(f) ==
  IF counts[f]["failed"] > 0 THEN "partial"
  ELSE IF answer[f] = "items" THEN "succeeded" ELSE answer[f]

(* _commit_success, which also stores the state of a partial run, and      *)
(* _finish_run.  An answer without etag or cursor leaves none; a 304 with  *)
(* the etag leaves that of the answer it confirms.                         *)
StatesAfter(f) ==
  CASE Outcome(f) = "failed" -> {state[Source(f)]}
    [] Outcome(f) = "no_change" -> {state[Source(f)], Null}
    [] OTHER -> {f, Null}

Close(f) ==
  /\ stage[f] = "writing" /\ Len(audit[f]) = Len(response[f])
  /\ run' = [run EXCEPT ![f].outcome = Outcome(f), ![f].counts = counts[f]]
  /\ \E call \in StatesAfter(f) : state' = [state EXCEPT ![Source(f)] = call]
  /\ Steps(f, "over") /\ Release(f)
  /\ UNCHANGED <<fetched, pending, counts, audit, row, snapshots, duplicates, faults>>

IngestionNext ==
  \E f \in Fetchers :
    \/ Acquire(f) \/ Interrupt(f) \/ Respond(f) \/ EndDryRun(f)
    \/ Upsert(f) \/ Commit(f) \/ Close(f)

IngestionSpec == IngestionInit /\ [][IngestionNext]_ingestionVars

---------------------------------------------------------------------------
(* Properties.                                                             *)

(* Within a source a canonical URL belongs to one raw item.  No index says *)
(* so: items change their URL and come back under other external ids, and  *)
(* calls for one source follow each other only because of the lock.        *)
OneRowPerUrl ==
  \A id, other \in Ids :
    /\ row[id] # Null /\ row[other] # Null
    /\ id[1] = other[1] /\ row[id].url = row[other].url
    => id = other

(* The counts of a run with an outcome are those of its audit, every item  *)
(* that was delivered has its entry, and one that failed is not called a   *)
(* success.                                                                *)
RunsMatchAudit ==
  \A f \in Fetchers : run[f].outcome \notin {"none", "pending"} =>
    /\ \A a \in Actions :
         run[f].counts[a] = Cardinality({n \in DOMAIN audit[f] : audit[f][n].action = a})
    /\ [n \in DOMAIN audit[f] |-> audit[f][n].ext] = [n \in DOMAIN response[f] |-> response[f][n].ext]
    /\ run[f].outcome = "succeeded" => \A n \in DOMAIN audit[f] : audit[f][n].action # "failed"

(* An item of a response is stored: its row is as that call left it, or as *)
(* a later one of the source did, and its contents are kept; or the audit  *)
(* has it as left out: it conflicts with two rows, or it failed and the    *)
(* run is a partial one.                                                   *)
KeptBy(f, n) ==
  \E id \in Rows(Source(f)) :
    /\ run[row[id].seen].order >= run[f].order
    /\ <<response[f][n].url, response[f][n].content>> \in snapshots[id]
LeftOut(f, n) ==
  \/ audit[f][n].action = "skipped"
  \/ audit[f][n].action = "failed" /\ run[f].outcome = "partial"

(* What a conditional request will not deliver again, as the provider has  *)
(* answered it already, is stored or on record as left out: the state      *)
(* never stands for a response that a call did not get to the end of.      *)
(* (Items that failed are not asked for again: the state of a partial run  *)
(* is stored like any other.)                                              *)
StateIsAccounted ==
  \A s \in Sources : state[s] # Null =>
    LET f == state[s] IN
      /\ run[f].outcome \in {"succeeded", "partial"}
      /\ Len(audit[f]) = Len(response[f])
      /\ \A n \in DOMAIN response[f] : KeptBy(f, n) \/ LeftOut(f, n)

(* The rows of a source are its items: none twice, none passed over in     *)
(* silence.                                                                *)
RowsAreKept == IngestionTypeOK /\ OneRowPerUrl /\ StateIsAccounted
=============================================================================
