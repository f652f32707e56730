-------------------------- MODULE CollectionProofs --------------------------
(***************************************************************************)
(* Proofs about what is collected: the rows and runs of SourceIngestion,   *)
(* the events and versions of EventVersions, and the ways of SourceRules   *)
(* to ask a source.  The three have no variable in common; each has an     *)
(* invariant of its own.                                                   *)
(***************************************************************************)
EXTENDS SourceIngestion, EventVersions, SourceRules, FiniteSetTheorems, SequenceTheorems,
        WellFoundedInduction, TLAPS

---------------------------------------------------------------------------
(* Items.                                                                  *)

Places == {"idle", "requesting", "writing", "committing", "over"}
Outcomes == {"none", "pending", "succeeded", "partial", "no_change", "failed"}
RunRows == [order : 0..Cardinality(Fetchers), outcome : Outcomes, counts : [Actions -> Nat]]
Entries == [ext : Externals, action : Actions]
Stored == {"inserted", "updated", "unchanged"}
EntriesOf(f, a) == {n \in DOMAIN audit[f] : audit[f][n].action = a}
Begun == {f \in Fetchers : run[f].order > 0}

CallTypes ==
  /\ lock \in [Sources -> Fetchers \cup {Null}]
  /\ stage \in [Fetchers -> Places]
  /\ answer \in [Fetchers -> {"none", "items", "partial", "no_change", "failed"}]
  /\ response \in [Fetchers -> Responses \cup {<<>>}]
  /\ pending \in [Fetchers -> Writes \cup {Null}]
  /\ counts \in [Fetchers -> [Actions -> Nat]]
  /\ faults \in 0..MaxFaults

TableTypes ==
  /\ run \in [Fetchers -> RunRows]
  /\ audit \in [Fetchers -> Seq(Entries)]
  /\ row \in [Ids -> Records \cup {Null}]
  /\ snapshots \in [Ids -> SUBSET (Urls \X Contents)]
  /\ duplicates \subseteq SUBSET Ids
  /\ state \in [Sources -> Fetchers \cup {Null}]

(* The lock of a source is with the one call that works on it.             *)
Locked ==
  /\ \A s \in Sources : lock[s] # Null => Source(lock[s]) = s /\ Inside(lock[s])
  /\ \A f \in Fetchers : Inside(f) => lock[Source(f)] = f

(* Nothing is known of a call before the answer to its request.            *)
Asking(f) ==
  /\ stage[f] \in {"idle", "requesting"} => run[f] = NoRun
  /\ run[f] = NoRun => audit[f] = <<>> /\ counts[f] = NoCounts /\ response[f] = <<>>
  /\ stage[f] \in {"writing", "committing"} =>
       run[f].outcome = "pending" /\ run[f].order > 0 /\ answer[f] # "none"
  /\ answer[f] \notin Delivered => response[f] = <<>>

(* The runs of a source follow each other: the one at work is the last.    *)
InOrder ==
  /\ \A f \in Fetchers : run[f].order <= Cardinality(Begun)
  /\ \A f, g \in Fetchers :
       stage[f] \in {"writing", "committing"} /\ Source(f) = Source(g) => run[g].order <= run[f].order

(* The audit of a run has the items of its response up to the one at hand, *)
(* and its counts are those of the audit.                                  *)
Audited(f) ==
  /\ Len(audit[f]) <= Len(response[f])
  /\ \A n \in 1..Len(audit[f]) : audit[f][n].ext = response[f][n].ext
  /\ \A a \in Actions : counts[f][a] = Cardinality(EntriesOf(f, a))
  /\ run[f].outcome \notin {"none", "pending"} =>
       /\ stage[f] = "over" /\ Len(audit[f]) = Len(response[f]) /\ run[f].counts = counts[f]
       /\ counts[f]["failed"] # 0 => run[f].outcome = "partial"

(* What an item has stored stays stored: its row is as it left it, or as a *)
(* later run of the source did.                                            *)
Kept ==
  \A f \in Fetchers : \A n \in 1..Len(audit[f]) : audit[f][n].action \in Stored => KeptBy(f, n)

(* The item in hand goes to the row that has its URL, if there is one.     *)
Fits(f) ==
  stage[f] = "committing" =>
    /\ Len(audit[f]) < Len(response[f]) /\ pending[f] \in Writes
    /\ pending[f].id # Null <=> pending[f].action \in Stored
    /\ pending[f].id = Null => pending[f].twins = {}
    /\ pending[f].id # Null =>
         /\ pending[f].id \in Ids /\ pending[f].id[1] = Source(f)
         /\ \A other \in Rows(Source(f)) : row[other].url = ItemOf(f).url => other = pending[f].id

Closed ==
  \A s \in Sources : state[s] # Null =>
    Source(state[s]) = s /\ run[state[s]].outcome \in {"succeeded", "partial"}

IngestionInv ==
  /\ CallTypes /\ TableTypes /\ Locked /\ InOrder /\ Kept /\ Closed /\ OneRowPerUrl
  /\ \A f \in Fetchers : pending[f] # Null <=> stage[f] = "committing"
  /\ \A f \in Fetchers : Asking(f) /\ Audited(f) /\ Fits(f)

(* Null is none of the values.                                             *)
LEMMA NotNull ==
  /\ \A x \in Fetchers : x # Null
  /\ \A x \in Ids : x # Null
  /\ \A x \in Records : x # Null
  /\ \A x \in Writes : x # Null
BY IngestionAssumption

(* Every call is for a source.                                             *)
LEMMA SourcesOfCalls == \A f \in Fetchers : Source(f) \in Sources
BY IngestionAssumption DEF Source

(* At first nothing is stored.                                             *)
LEMMA IngestionInvInit == IngestionInit => IngestionInv
<1> SUFFICES ASSUME IngestionInit PROVE IngestionInv
  OBVIOUS
<1> USE DEF IngestionInit
<1>1. CallTypes
  <2>1. 0 \in 0..MaxFaults BY IngestionAssumption
  <2>2. NoCounts \in [Actions -> Nat] BY DEF NoCounts
  <2> QED BY <2>1, <2>2 DEF CallTypes, Places
<1>2. NoRun \in RunRows
  <2>1. Cardinality(Fetchers) \in Nat BY IngestionAssumption, FS_CardinalityType
  <2>2. 0 \in 0..Cardinality(Fetchers) BY <2>1
  <2> QED BY <2>2 DEF NoRun, RunRows, Outcomes, NoCounts
<1>3. TableTypes
  <2>1. <<>> \in Seq(Entries) OBVIOUS
  <2> QED BY <1>2, <2>1 DEF TableTypes
<1>4. Locked BY SourcesOfCalls DEF Locked, Inside
<1>5. \A f \in Fetchers : run[f].order = 0 /\ run[f].outcome = "none" BY DEF NoRun
<1>6. InOrder
  <2>1. Begun = {} BY <1>5 DEF Begun
  <2> QED BY <1>5, <2>1, FS_EmptySet DEF InOrder
<1>7. \A f \in Fetchers : Len(audit[f]) = 0 /\ DOMAIN audit[f] = {} OBVIOUS
<1>8. Kept BY <1>7 DEF Kept
<1>9. Closed BY DEF Closed
<1>10. OneRowPerUrl BY DEF OneRowPerUrl
<1>11. \A f \in Fetchers : Asking(f) BY DEF Asking
<1>12. \A f \in Fetchers : Audited(f)
  <2> SUFFICES ASSUME NEW f \in Fetchers PROVE Audited(f)
    OBVIOUS
  <2>1. \A a \in Actions : EntriesOf(f, a) = {} /\ counts[f][a] = 0 BY <1>7 DEF EntriesOf, NoCounts
  <2>2. Len(response[f]) = 0 OBVIOUS
  <2>3. /\ Len(audit[f]) = 0 /\ run[f].outcome = "none" BY <1>5, <1>7
  <2>4. \A a \in Actions : counts[f][a] = Cardinality(EntriesOf(f, a)) BY <2>1, FS_EmptySet
  <2>5. \A n \in 1..Len(audit[f]) : audit[f][n].ext = response[f][n].ext BY <2>3
  <2> QED BY ONLY <2>2, <2>3, <2>4, <2>5 DEF Audited
<1>13. \A f \in Fetchers : Fits(f) BY DEF Fits
<1> QED BY <1>1, <1>3, <1>4, <1>6, <1>8, <1>9, <1>10, <1>11, <1>12, <1>13 DEF IngestionInv

(* A call gives its lock back when it ends, and keeps it until then.       *)
LEMMA LockStays ==
  ASSUME Locked, NEW f \in Fetchers, stage \in [Fetchers -> Places], lock' = lock, Inside(f),
         NEW p, Steps(f, p), p \notin {"idle", "over"}
  PROVE  Locked'
BY DEF Locked, Inside, Steps, Source

(* What fetch_source gives back at its end is its own lock.                *)
LEMMA LockReleased ==
  ASSUME Locked, NEW f \in Fetchers, stage \in [Fetchers -> Places],
         lock \in [Sources -> Fetchers \cup {Null}], Inside(f), Steps(f, "over"), Release(f)
  PROVE  Locked'
<1>1. lock[Source(f)] = f BY DEF Locked
<1>2. Source(f) \in Sources BY SourcesOfCalls
<1>3. lock' = [lock EXCEPT ![Source(f)] = Null] BY <1>1, <1>2 DEF Release
<1>4. ASSUME NEW s \in Sources, lock'[s] # Null
      PROVE  \E g \in Fetchers : g = lock'[s] /\ Source(g) = s /\ stage'[g] \notin {"idle", "over"}
  <2>1. s # Source(f) /\ lock'[s] = lock[s] BY <1>2, <1>3, <1>4
  <2>2. Source(lock[s]) = s /\ Inside(lock[s]) BY <1>4, <2>1 DEF Locked
  <2>3. lock[s] # f BY <2>1, <2>2
  <2>4. lock[s] \in Fetchers BY <1>4, <2>1
  <2>5. PICK g \in Fetchers : g = lock[s] BY <2>4
  <2>6. Inside(g)' BY <2>2, <2>3, <2>5 DEF Inside, Steps
  <2> QED BY <2>1, <2>2, <2>5, <2>6 DEF Inside
<1>5. ASSUME NEW g \in Fetchers, Inside(g)' PROVE lock'[Source(g)] = g
  <2>1. g # f /\ Inside(g) BY <1>5 DEF Inside, Steps
  <2>2. lock[Source(g)] = g /\ Source(g) \in Sources BY <2>1, SourcesOfCalls DEF Locked
  <2>3. Source(g) # Source(f) BY <1>1, <2>1, <2>2
  <2> QED BY <1>2, <1>3, <2>2, <2>3
<1> QED BY <1>4, <1>5 DEF Locked, Source, Inside

(* A step that leaves the tables as they are, and starts no run.           *)
LEMMA TablesStay ==
  ASSUME InOrder, Kept, Closed, OneRowPerUrl, TableTypes,
         UNCHANGED <<run, audit, response, row, snapshots, duplicates, state>>,
         \A g \in Fetchers : stage'[g] \in {"writing", "committing"} => stage[g] \in {"writing", "committing"}
  PROVE  InOrder' /\ Kept' /\ Closed' /\ OneRowPerUrl' /\ TableTypes'
<1>1. InOrder' BY DEF InOrder, Begun, Source
<1>2. Kept' BY DEF Kept, KeptBy, Rows, Source
<1>3. Closed' /\ OneRowPerUrl' /\ TableTypes' BY DEF Closed, OneRowPerUrl, TableTypes, Source
<1> QED BY <1>1, <1>2, <1>3

(* ... nor what a call knows.                                              *)
LEMMA CallStays ==
  ASSUME NEW g \in Fetchers, Asking(g), Audited(g), Fits(g),
         UNCHANGED <<run, audit, counts, answer, response, row>>, pending'[g] = pending[g],
         stage'[g] = stage[g]
  PROVE  Asking(g)' /\ Audited(g)' /\ Fits(g)'
<1>1. Asking(g)' BY DEF Asking
<1>2. Audited(g)' BY DEF Audited, EntriesOf
<1>3. Fits(g)' BY DEF Fits, Rows, ItemOf, Source
<1> QED BY <1>1, <1>2, <1>3

(* A call that ends early leaves what it has stored.                       *)
LEMMA CallEnds ==
  ASSUME IngestionInv, NEW f \in Fetchers, Inside(f), Steps(f, "over"), Release(f),
         pending' = [pending EXCEPT ![f] = Null], faults' \in 0..MaxFaults,
         UNCHANGED <<fetched, counts, tables>>
  PROVE  IngestionInv'
<1>1. /\ CallTypes /\ TableTypes /\ Locked /\ InOrder /\ Kept /\ Closed /\ OneRowPerUrl
      /\ \A g \in Fetchers : pending[g] # Null <=> stage[g] = "committing"
      /\ \A g \in Fetchers : Asking(g) /\ Audited(g) /\ Fits(g)
  BY DEF IngestionInv
<1>2. UNCHANGED <<run, audit, counts, answer, response, row, snapshots, duplicates, state>>
  BY DEF fetched, tables
<1>3. /\ stage' = [stage EXCEPT ![f] = "over"] /\ stage' \in [Fetchers -> Places]
      /\ lock' \in [Sources -> Fetchers \cup {Null}]
  BY <1>1 DEF Steps, CallTypes, Places, Release
<1>4. CallTypes' BY <1>1, <1>2, <1>3 DEF CallTypes
<1>5. Locked' BY <1>1, LockReleased DEF CallTypes
<1>6. InOrder' /\ Kept' /\ Closed' /\ OneRowPerUrl' /\ TableTypes'
  BY <1>1, <1>2, <1>3, TablesStay DEF CallTypes
<1>7. \A g \in Fetchers : pending'[g] # Null <=> stage'[g] = "committing"
  BY <1>1, <1>3 DEF CallTypes
<1>8. ASSUME NEW g \in Fetchers PROVE Asking(g)' /\ Audited(g)' /\ Fits(g)'
  <2>1. CASE g # f
    <3>1. pending'[g] = pending[g] /\ stage'[g] = stage[g] BY <1>1, <1>3, <2>1 DEF CallTypes
    <3> QED BY <1>1, <1>2, <3>1, CallStays
  <2>2. CASE g = f
    <3>1. stage'[f] = "over" BY <1>1, <1>3 DEF CallTypes
    <3>2. Asking(f)' BY <1>1, <1>2, <3>1 DEF Asking
    <3>3. Audited(f)' BY <1>1, <1>2, <3>1 DEF Audited, EntriesOf
    <3> QED BY <2>2, <3>1, <3>2, <3>3 DEF Fits
  <2> QED BY <2>1, <2>2
<1> QED BY <1>4, <1>5, <1>6, <1>7, <1>8 DEF IngestionInv

(* The parts of the invariant, for the steps.                              *)
LEMMA InvParts ==
  ASSUME IngestionInv
  PROVE  /\ CallTypes /\ TableTypes /\ Locked /\ InOrder /\ Kept /\ Closed /\ OneRowPerUrl
         /\ \A g \in Fetchers : pending[g] # Null <=> stage[g] = "committing"
         /\ \A g \in Fetchers : Asking(g) /\ Audited(g) /\ Fits(g)
BY DEF IngestionInv

(* A source that is locked is left alone; one that is not belongs to the   *)
(* call.                                                                   *)
LEMMA AcquireStep == ASSUME IngestionInv, NEW f \in Fetchers, Acquire(f) PROVE IngestionInv'
<1>1. /\ CallTypes /\ TableTypes /\ Locked /\ InOrder /\ Kept /\ Closed /\ OneRowPerUrl
      /\ \A g \in Fetchers : pending[g] # Null <=> stage[g] = "committing"
      /\ \A g \in Fetchers : Asking(g) /\ Audited(g) /\ Fits(g)
  BY InvParts
<1>2. /\ UNCHANGED <<run, audit, counts, answer, response, row, snapshots, duplicates, state,
                   pending, faults>>
      /\ stage[f] = "idle" /\ Source(f) \in Sources
  BY SourcesOfCalls DEF Acquire, fetched, tables
<1>3. PICK p \in {"requesting", "over"} : stage' = [stage EXCEPT ![f] = p]
                /\ IF p = "over" THEN lock' = lock
                   ELSE lock[Source(f)] = Null /\ lock' = [lock EXCEPT ![Source(f)] = f]
  BY DEF Acquire, Steps, Unlocked
<1>4. CallTypes' BY <1>1, <1>2, <1>3 DEF CallTypes, Places
<1>5. Locked'
  <2>1. CASE p = "over"
    BY <1>1, <1>2, <1>3, <2>1 DEF Locked, Inside, CallTypes, Source
  <2>2. CASE p = "requesting"
    <3>1. lock' = [lock EXCEPT ![Source(f)] = f] /\ lock[Source(f)] = Null BY <1>3, <2>2
    <3>2. ASSUME NEW s \in Sources, lock'[s] # Null
          PROVE  \E g \in Fetchers : g = lock'[s] /\ Source(g) = s /\ stage'[g] \notin {"idle", "over"}
      <4>1. CASE s = Source(f)
        BY <1>1, <1>2, <1>3, <2>2, <3>1, <4>1 DEF CallTypes
      <4>2. CASE s # Source(f)
        <5>1. lock[s] # Null /\ lock'[s] = lock[s] BY <1>1, <1>2, <3>1, <3>2, <4>2 DEF CallTypes
        <5>2. PICK g \in Fetchers : g = lock[s] BY <1>1, <5>1 DEF CallTypes
        <5>3. Source(g) = s /\ Inside(g) BY <1>1, <5>1, <5>2 DEF Locked
        <5>4. stage'[g] = stage[g] BY <1>1, <1>3, <4>2, <5>3 DEF CallTypes
        <5> QED BY <5>1, <5>2, <5>3, <5>4 DEF Inside
      <4> QED BY <4>1, <4>2
    <3>3. ASSUME NEW g \in Fetchers, stage'[g] \notin {"idle", "over"} PROVE lock'[Source(g)] = g
      <4>1. CASE g = f BY <1>1, <1>2, <3>1, <4>1 DEF CallTypes
      <4>2. CASE g # f
        <5>1. Inside(g) BY <1>1, <1>3, <3>3, <4>2 DEF CallTypes, Inside
        <5>2. lock[Source(g)] = g /\ g # Null BY <1>1, <5>1, NotNull DEF Locked
        <5>3. Source(g) # Source(f) BY <3>1, <5>2
        <5> QED BY <1>1, <1>2, <3>1, <5>2, <5>3, SourcesOfCalls DEF CallTypes
      <4> QED BY <4>1, <4>2
    <3> QED BY <3>2, <3>3 DEF Locked, Source, Inside
  <2> QED BY <2>1, <2>2
<1>6. InOrder' /\ Kept' /\ Closed' /\ OneRowPerUrl' /\ TableTypes'
  <2>1. \A g \in Fetchers : stage'[g] \in {"writing", "committing"} => stage[g] \in {"writing", "committing"}
    BY <1>1, <1>3 DEF CallTypes
  <2> QED BY <1>1, <1>2, <2>1, TablesStay
<1>7. \A g \in Fetchers : pending'[g] # Null <=> stage'[g] = "committing"
  BY <1>1, <1>2, <1>3 DEF CallTypes
<1>8. ASSUME NEW g \in Fetchers PROVE Asking(g)' /\ Audited(g)' /\ Fits(g)'
  <2>1. CASE g # f
    <3>1. pending'[g] = pending[g] /\ stage'[g] = stage[g] BY <1>1, <1>2, <1>3, <2>1 DEF CallTypes
    <3> QED BY <1>1, <1>2, <3>1, CallStays
  <2>2. CASE g = f
    <3>1. stage'[f] = p /\ p \in {"requesting", "over"} BY <1>1, <1>3 DEF CallTypes
    <3>2. run[f] = NoRun BY <1>1, <1>2 DEF Asking
    <3>3. Asking(f)' BY <1>1, <1>2, <3>1, <3>2 DEF Asking
    <3>4. Audited(f)' BY <1>1, <1>2, <3>2 DEF Audited, EntriesOf, NoRun
    <3> QED BY <2>2, <3>1, <3>3, <3>4 DEF Fits
  <2> QED BY <2>1, <2>2
<1> QED BY <1>4, <1>5, <1>6, <1>7, <1>8 DEF IngestionInv

(* What starts now comes after everything that has started.                *)
LEMMA StartedIsNew ==
  ASSUME IngestionInv, NEW f \in Fetchers, run[f] = NoRun
  PROVE  /\ Started \in 1..Cardinality(Fetchers)
         /\ Cardinality(Begun) \in Nat /\ Started = Cardinality(Begun) + 1
         /\ \A g \in Fetchers : run[g].order \in Nat /\ run[g].order < Started
         /\ IsFiniteSet(Begun) /\ f \notin Begun
<1>1. TableTypes /\ InOrder BY InvParts
<1>2. Cardinality(Fetchers) \in Nat BY IngestionAssumption, FS_CardinalityType
<1>3. \A g \in Fetchers : run[g] \in RunRows /\ run[g].order \in 0..Cardinality(Fetchers)
  BY <1>1 DEF TableTypes, RunRows
<1>4. \A g \in Fetchers : run[g].order \in Nat BY <1>2, <1>3
<1>5. f \notin Begun /\ Begun \subseteq Fetchers BY DEF Begun, NoRun
<1>6. IsFiniteSet(Begun) /\ Cardinality(Begun) <= Cardinality(Fetchers)
      /\ (Cardinality(Begun) = Cardinality(Fetchers) => Begun = Fetchers)
  BY <1>5, IngestionAssumption, FS_Subset
<1>7. Cardinality(Begun) \in Nat BY <1>6, FS_CardinalityType
<1>8. Cardinality(Begun) # Cardinality(Fetchers) BY <1>5, <1>6
<1>9. Started = 1 + Cardinality(Begun) BY DEF Started, Begun
<1>10. \A g \in Fetchers : run[g].order <= Cardinality(Begun) BY <1>1 DEF InOrder
<1>11. Started = Cardinality(Begun) + 1 /\ Started \in 1..Cardinality(Fetchers)
  BY ONLY <1>2, <1>6, <1>7, <1>8, <1>9
<1>12. \A g \in Fetchers : run[g].order < Started BY ONLY <1>4, <1>7, <1>10, <1>11
<1> QED BY <1>4, <1>5, <1>6, <1>7, <1>11, <1>12

(* A run starts with the answer, after all others of its source.           *)
LEMMA RespondStep == ASSUME IngestionInv, NEW f \in Fetchers, Respond(f) PROVE IngestionInv'
<1>1. /\ CallTypes /\ TableTypes /\ Locked /\ InOrder /\ Kept /\ Closed /\ OneRowPerUrl
      /\ \A g \in Fetchers : pending[g] # Null <=> stage[g] = "committing"
      /\ \A g \in Fetchers : Asking(g) /\ Audited(g) /\ Fits(g)
  BY InvParts
<1>2. /\ UNCHANGED <<lock, pending, counts, audit, row, snapshots, duplicates, state, faults>>
      /\ stage[f] = "requesting" /\ stage' = [stage EXCEPT ![f] = "writing"] /\ Steps(f, "writing")
  BY DEF Respond, Steps, tables
<1>3. PICK o \in {"items", "partial", "failed", "no_change"}, items \in Responses \cup {<<>>} :
        /\ answer' = [answer EXCEPT ![f] = o] /\ response' = [response EXCEPT ![f] = items]
        /\ o \notin Delivered => items = <<>>
  BY DEF Respond, Answer, Delivered
<1>4. /\ run[f] = NoRun /\ audit[f] = <<>> /\ counts[f] = NoCounts BY <1>1, <1>2 DEF Asking
<1>5. /\ Started \in 1..Cardinality(Fetchers)
      /\ Cardinality(Begun) \in Nat /\ Started = Cardinality(Begun) + 1
      /\ \A g \in Fetchers : run[g].order \in Nat /\ run[g].order < Started
      /\ IsFiniteSet(Begun) /\ f \notin Begun
  BY <1>4, StartedIsNew
<1>6. PICK n \in 1..Cardinality(Fetchers) : n = Started BY <1>5
<1> DEFINE x == [NoRun EXCEPT !.order = n, !.outcome = "pending"]
<1>7. x \in RunRows /\ x.order = n /\ x.outcome = "pending" /\ x # NoRun
  <2>1. Cardinality(Fetchers) \in Nat BY IngestionAssumption, FS_CardinalityType
  <2>2. n \in 0..Cardinality(Fetchers) BY <2>1
  <2>3. NoCounts \in [Actions -> Nat] BY DEF NoCounts
  <2> QED BY <2>2, <2>3 DEF NoRun, RunRows, Outcomes
<1>8. run' = [run EXCEPT ![f] = x] BY <1>6 DEF Respond
<1> HIDE DEF x
<1>9. /\ stage'[f] = "writing" /\ run'[f] = x /\ answer'[f] = o /\ response'[f] = items
      /\ \A g \in Fetchers : g # f => stage'[g] = stage[g] /\ run'[g] = run[g] /\ response'[g] = response[g]
                                      /\ answer'[g] = answer[g]
  BY <1>1, <1>2, <1>3, <1>8 DEF CallTypes, TableTypes
<1>10. CallTypes' BY <1>1, <1>2, <1>3 DEF CallTypes, Places
<1>11. TableTypes' BY <1>1, <1>2, <1>7, <1>8 DEF TableTypes
<1>12. Locked' BY <1>1, <1>2, LockStays DEF CallTypes, Inside
<1>13. InOrder'
  <2>1. Begun' = Begun \cup {f}
    <3>1. n > 0 BY <1>6
    <3> QED BY <1>7, <1>9, <3>1 DEF Begun
  <2>2. Cardinality(Begun') = n BY <1>5, <1>6, <2>1, FS_AddElement
  <2>3. \A g \in Fetchers : run'[g].order <= n BY <1>5, <1>6, <1>7, <1>9
  <2>4. ASSUME NEW g \in Fetchers, NEW h \in Fetchers, stage'[g] \in {"writing", "committing"},
               Source(g) = Source(h)
        PROVE  run'[h].order <= run'[g].order
    <3>1. CASE g = f BY <1>7, <1>9, <2>3, <3>1
    <3>2. CASE g # f
      <4>1. Inside(g) /\ Inside(f) BY <1>2, <1>9, <2>4, <3>2 DEF Inside
      <4>2. Source(g) # Source(f) BY <1>1, <3>2, <4>1 DEF Locked
      <4>3. h # f BY <2>4, <4>2
      <4> QED BY <1>1, <1>9, <2>4, <3>2, <4>3 DEF InOrder
    <3> QED BY <3>1, <3>2
  <2> QED BY <2>2, <2>3, <2>4 DEF InOrder, Source
<1>14. Kept'
  <2> SUFFICES ASSUME NEW g \in Fetchers, NEW k \in 1..Len(audit'[g]), audit'[g][k].action \in Stored
               PROVE  KeptBy(g, k)'
    BY DEF Kept
  <2>1. g # f /\ k \in 1..Len(audit[g]) /\ audit[g][k].action \in Stored
    <3>1. audit' = audit BY <1>2
    <3>2. ASSUME g = f PROVE FALSE
      <4>1. Len(audit'[g]) = 0 BY <1>4, <3>1, <3>2
      <4> QED BY <4>1
    <3> QED BY <3>1, <3>2
  <2>2. PICK id \in Rows(Source(g)) : /\ run[row[id].seen].order >= run[g].order
             /\ <<response[g][k].url, response[g][k].content>> \in snapshots[id]
    BY <1>1, <2>1 DEF Kept, KeptBy
  <2>3. row[id] \in Records BY <1>1, <2>2 DEF Rows, TableTypes
  <2>4. PICK h \in Fetchers : h = row[id].seen BY <2>3 DEF Records
  <2>5. run'[h].order >= run[h].order /\ run'[h].order \in Nat
    BY <1>5, <1>6, <1>7, <1>9
  <2>6. run'[h].order >= run'[g].order BY <1>5, <1>9, <2>1, <2>2, <2>4, <2>5
  <2>7. id \in Rows(Source(g))' BY <1>2, <2>2 DEF Rows, Source
  <2>8. <<response'[g][k].url, response'[g][k].content>> \in snapshots'[id] /\ row'[id].seen = h
    BY <1>2, <1>9, <2>1, <2>2, <2>4
  <2> QED BY <2>6, <2>7, <2>8 DEF KeptBy, Source
<1>15. Closed'
  <2> SUFFICES ASSUME NEW s \in Sources, state'[s] # Null
               PROVE  Source(state'[s]) = s
                      /\ run'[state'[s]].outcome \in {"succeeded", "partial"}
    BY DEF Closed, Source
  <2>1. state' = state BY <1>2
  <2>2. PICK g \in Fetchers : g = state[s] BY <1>1, <2>1 DEF TableTypes
  <2>3. Source(g) = s /\ run[g].outcome \in {"succeeded", "partial"}
    BY <1>1, <2>1, <2>2 DEF Closed
  <2>4. g # f BY <1>4, <2>3 DEF NoRun
  <2> QED BY <1>9, <2>1, <2>2, <2>3, <2>4
<1>16. OneRowPerUrl' BY <1>1, <1>2 DEF OneRowPerUrl
<1>17. \A g \in Fetchers : pending'[g] # Null <=> stage'[g] = "committing"
  BY <1>1, <1>2, <1>9
<1>18. ASSUME NEW g \in Fetchers PROVE Asking(g)' /\ Audited(g)' /\ Fits(g)'
  <2>1. Asking(g) /\ Audited(g) /\ Fits(g) BY <1>1
  <2>2. CASE g # f
    <3>1. /\ run'[g] = run[g] /\ audit'[g] = audit[g] /\ counts'[g] = counts[g] /\ answer'[g] = answer[g]
          /\ response'[g] = response[g] /\ pending'[g] = pending[g] /\ stage'[g] = stage[g] /\ row' = row
      BY <1>2, <1>9, <2>2
    <3>2. Asking(g)' BY <2>1, <3>1 DEF Asking
    <3>3. Audited(g)' BY <2>1, <3>1 DEF Audited, EntriesOf
    <3>4. Fits(g)' BY <2>1, <3>1 DEF Fits, Rows, ItemOf, Source
    <3> QED BY <3>2, <3>3, <3>4
  <2>3. CASE g = f
    <3>1. Asking(f)' BY <1>3, <1>6, <1>7, <1>9 DEF Asking
    <3>2. /\ audit'[f] = <<>> /\ counts'[f] = NoCounts BY <1>2, <1>4
    <3>3. \A a \in Actions : EntriesOf(f, a)' = {} BY <3>2 DEF EntriesOf
    <3>4. \A a \in Actions : counts'[f][a] = Cardinality(EntriesOf(f, a)')
      BY <3>2, <3>3, FS_EmptySet DEF NoCounts
    <3>5. /\ Len(audit'[f]) = 0 /\ Len(response'[f]) \in Nat
      <4>1. \A y \in Responses \cup {<<>>} : Len(y) \in Nat
        <5>1. \A y \in Responses : y \in Seq(Item) BY IngestionAssumption
        <5> QED BY <5>1
      <4> QED BY <1>9, <3>2, <4>1
    <3>6. \A k \in 1..Len(audit'[f]) : audit'[f][k].ext = response'[f][k].ext BY <3>5
    <3>7. run'[f].outcome = "pending" BY <1>7, <1>9
    <3>8. Audited(f)' BY <3>4, <3>5, <3>6, <3>7 DEF Audited
    <3> QED BY <1>9, <2>3, <3>1, <3>8 DEF Fits
  <2> QED BY <2>2, <2>3
<1> QED BY <1>10, <1>11, <1>12, <1>13, <1>14, <1>15, <1>16, <1>17, <1>18 DEF IngestionInv

(* The item in hand is one of the response.                                *)
LEMMA ItemInHand ==
  ASSUME IngestionInv, NEW f \in Fetchers, Len(audit[f]) < Len(response[f])
  PROVE  /\ Len(audit[f]) \in Nat /\ Len(audit[f]) + 1 \in 1..Len(response[f])
         /\ ItemOf(f) = response[f][Len(audit[f]) + 1]
         /\ ItemOf(f) \in Item
<1>1. CallTypes /\ TableTypes BY InvParts
<1>2. response[f] \in Seq(Item)
  <2>1. <<>> \in Seq(Item) OBVIOUS
  <2> QED BY <1>1, <2>1, IngestionAssumption DEF CallTypes
<1>3. audit[f] \in Seq(Entries) BY <1>1 DEF TableTypes
<1>4. Len(audit[f]) \in Nat /\ Len(response[f]) \in Nat BY <1>2, <1>3
<1>5. Len(audit[f]) + 1 \in 1..Len(response[f]) BY ONLY <1>4, Len(audit[f]) < Len(response[f])
<1>6. response[f][Len(audit[f]) + 1] \in Item BY <1>2, <1>5, ElementOfSeq
<1> QED BY <1>4, <1>5, <1>6 DEF ItemOf

(* The row an item goes to is the only one with its URL.                   *)
LEMMA TargetIsOnly ==
  ASSUME IngestionInv, NEW f \in Fetchers, NEW i \in Item, ~IdentityConflict(Source(f), i)
  PROVE  /\ Target(Source(f), i) \in Ids /\ Target(Source(f), i)[1] = Source(f)
         /\ \A other \in Rows(Source(f)) : row[other].url = i.url => other = Target(Source(f), i)
<1> DEFINE s == Source(f)
           E == ByExternal(s, i)
           U == ByUrl(s, i)
<1>1. s \in Sources BY SourcesOfCalls
<1>2. <<s, i.ext>> \in Ids BY <1>1 DEF Ids, Item
<1>3. \A id \in Rows(s) : id \in Ids /\ id[1] = s BY DEF Rows
<1>4. \A id \in E : id = <<s, i.ext>> /\ id \in Rows(s)
  <2> SUFFICES ASSUME NEW id \in E PROVE id = <<s, i.ext>> /\ id \in Rows(s)
    OBVIOUS
  <2>1. id \in Rows(s) /\ id[2] = i.ext BY DEF ByExternal
  <2> QED BY <1>3, <2>1 DEF Ids
<1>5. U \subseteq Rows(s) /\ \A other \in Rows(s) : row[other].url = i.url => other \in U
  BY DEF ByUrl
<1>6. \A x, y \in U : x = y
  <2>1. OneRowPerUrl BY InvParts
  <2>2. \A x \in U : x \in Ids /\ x[1] = s /\ row[x] # Null /\ row[x].url = i.url BY DEF ByUrl, Rows
  <2> QED BY <2>1, <2>2 DEF OneRowPerUrl
<1>7. ~(E # {} /\ U # {} /\ E # U) BY DEF IdentityConflict
<1>8. Target(s, i) = IF E \cup U = {} THEN <<s, i.ext>>
                     ELSE IF E # {} THEN CHOOSE id \in E : TRUE ELSE CHOOSE id \in U : TRUE
  BY DEF Target
<1> HIDE DEF s, E, U
<1>9. CASE E = {} /\ U = {}
  <2>1. Target(s, i) = <<s, i.ext>> BY <1>8, <1>9
  <2> QED BY <1>2, <1>5, <1>9, <2>1 DEF s
<1>10. CASE E # {}
  <2>1. Target(s, i) = CHOOSE id \in E : TRUE BY <1>8, <1>10
  <2>2. Target(s, i) \in E BY <1>10, <2>1
  <2>3. \A x \in U : x = Target(s, i) BY <1>4, <1>7, <1>10, <2>2
  <2> QED BY <1>3, <1>4, <1>5, <2>2, <2>3 DEF s
<1>11. CASE E = {} /\ U # {}
  <2>1. Target(s, i) = CHOOSE id \in U : TRUE BY <1>8, <1>11
  <2>2. Target(s, i) \in U BY <1>11, <2>1
  <2> QED BY <1>3, <1>5, <1>6, <2>2 DEF s
<1> QED BY <1>9, <1>10, <1>11

(* The row for an item is found under the lock, and stays the right one.   *)
LEMMA UpsertStep == ASSUME IngestionInv, NEW f \in Fetchers, Upsert(f) PROVE IngestionInv'
<1>1. /\ CallTypes /\ TableTypes /\ Locked /\ InOrder /\ Kept /\ Closed /\ OneRowPerUrl
      /\ \A g \in Fetchers : pending[g] # Null <=> stage[g] = "committing"
      /\ \A g \in Fetchers : Asking(g) /\ Audited(g) /\ Fits(g)
  BY InvParts
<1>2. /\ stage[f] = "writing" /\ Len(audit[f]) < Len(response[f])
      /\ UNCHANGED <<lock, answer, response, counts, run, audit, row, snapshots, duplicates, state>>
      /\ Steps(f, "committing") /\ stage' = [stage EXCEPT ![f] = "committing"]
  BY DEF Upsert, Steps, fetched, tables
<1> DEFINE i == ItemOf(f)
           t == Target(Source(f), i)
<1>3. i \in Item BY <1>2, ItemInHand
<1>4. PICK x \in Writes :
        /\ pending' = [pending EXCEPT ![f] = x]
        /\ x.id # Null <=> x.action \in Stored
        /\ x.id = Null => x.twins = {}
        /\ x.id # Null => x.id = t /\ ~IdentityConflict(Source(f), i)
  <2>1. {} \in SUBSET Ids OBVIOUS
  <2>2. CASE IdentityConflict(Source(f), i) /\ Write(f, Null, "skipped", {})
    <3>1. [id |-> Null, action |-> "skipped", twins |-> {}] \in Writes BY DEF Writes, Actions
    <3> QED BY <2>2, <3>1 DEF Write, Stored
  <2>3. CASE Write(f, Null, "failed", {})
    <3>1. [id |-> Null, action |-> "failed", twins |-> {}] \in Writes BY DEF Writes, Actions
    <3> QED BY <2>3, <3>1 DEF Write, Stored
  <2>4. CASE ~IdentityConflict(Source(f), i)
             /\ Write(f, t, ActionOn(t, i), IF ActionOn(t, i) = "unchanged" THEN {} ELSE Twins(t, i))
    <3>1. t \in Ids /\ t # Null BY <1>3, <2>4, TargetIsOnly, NotNull
    <3>2. ActionOn(t, i) \in Stored
      <4>1. row[t] = Null \/ (row[t] # Null /\ (row[t].url # i.url \/ row[t].content # i.content))
            \/ (row[t] # Null /\ ~(row[t].url # i.url \/ row[t].content # i.content))
        OBVIOUS
      <4> QED BY <4>1 DEF ActionOn, Stored
    <3>3. PICK w \in SUBSET Ids : w = IF ActionOn(t, i) = "unchanged" THEN {} ELSE Twins(t, i)
      BY DEF Twins
    <3>4. PICK a \in Stored : a = ActionOn(t, i) BY <3>2
    <3>5. [id |-> t, action |-> a, twins |-> w] \in Writes BY <3>1, <3>4 DEF Writes, Actions, Stored
    <3> HIDE DEF t, i
    <3>6. pending' = [pending EXCEPT ![f] = [id |-> t, action |-> a, twins |-> w]]
      BY <2>4, <3>3, <3>4 DEF Write
    <3> QED BY <2>4, <3>1, <3>4, <3>5, <3>6
  <2> QED BY <2>2, <2>3, <2>4 DEF Upsert
<1> HIDE DEF i, t
<1>5. /\ stage'[f] = "committing" /\ pending'[f] = x
      /\ \A g \in Fetchers : g # f => stage'[g] = stage[g] /\ pending'[g] = pending[g]
  BY <1>1, <1>2, <1>4 DEF CallTypes
<1>6. faults' \in 0..MaxFaults BY <1>1, IngestionAssumption DEF Upsert, CallTypes
<1>7. CallTypes' BY <1>1, <1>2, <1>4, <1>6 DEF CallTypes, Places
<1>8. Locked' BY <1>1, <1>2, LockStays DEF CallTypes, Inside
<1>9. InOrder' /\ Kept' /\ Closed' /\ OneRowPerUrl' /\ TableTypes'
  <2>1. \A g \in Fetchers : stage'[g] \in {"writing", "committing"} => stage[g] \in {"writing", "committing"}
    BY <1>2, <1>5
  <2> QED BY <1>1, <1>2, <2>1, TablesStay
<1>10. \A g \in Fetchers : pending'[g] # Null <=> stage'[g] = "committing"
  BY <1>1, <1>5, NotNull
<1>11. ASSUME NEW g \in Fetchers PROVE Asking(g)' /\ Audited(g)' /\ Fits(g)'
  <2>1. CASE g # f BY <1>1, <1>2, <1>5, <2>1, CallStays
  <2>2. CASE g = f
    <3>1. Asking(f)' BY <1>1, <1>2, <1>5 DEF Asking
    <3>2. Audited(f)'
      <4>1. run[f].outcome = "pending" BY <1>1, <1>2 DEF Asking
      <4> QED BY <1>1, <1>2, <4>1 DEF Audited, EntriesOf
    <3>3. /\ ItemOf(f)' = i /\ Rows(Source(f))' = Rows(Source(f)) BY <1>2 DEF ItemOf, i, Rows, Source
    <3>4. x.id # Null => /\ x.id \in Ids /\ x.id[1] = Source(f)
                         /\ \A other \in Rows(Source(f)) : row[other].url = i.url => other = x.id
      <4> SUFFICES ASSUME x.id # Null
                   PROVE  /\ x.id \in Ids /\ x.id[1] = Source(f)
                          /\ \A other \in Rows(Source(f)) : row[other].url = i.url => other = x.id
        OBVIOUS
      <4>1. x.id = Target(Source(f), i) /\ ~IdentityConflict(Source(f), i) BY <1>4 DEF t
      <4> QED BY <1>3, <4>1, TargetIsOnly
    <3>5. Fits(f)'
      <4>1. Len(audit'[f]) < Len(response'[f]) /\ row' = row BY <1>2
      <4>2. \A other \in Rows(Source(f))' : row'[other].url = ItemOf(f)'.url => row[other].url = i.url
        BY <3>3, <4>1
      <4> QED BY <1>4, <1>5, <3>3, <3>4, <4>1, <4>2 DEF Fits, Source
    <3> QED BY <2>2, <3>1, <3>2, <3>5
  <2> QED BY <2>1, <2>2
<1> QED BY <1>7, <1>8, <1>9, <1>10, <1>11 DEF IngestionInv

(* The audit gets one more entry.                                          *)
LEMMA OneMoreEntry ==
  ASSUME NEW f \in Fetchers, audit \in [Fetchers -> Seq(Entries)], NEW e \in Entries,
         audit' = [audit EXCEPT ![f] = Append(audit[f], e)]
  PROVE  /\ audit' \in [Fetchers -> Seq(Entries)]
         /\ Len(audit[f]) \in Nat /\ Len(audit'[f]) = Len(audit[f]) + 1
         /\ \A n \in 1..Len(audit[f]) : audit'[f][n] = audit[f][n]
         /\ audit'[f][Len(audit[f]) + 1] = e
         /\ \A a \in Actions :
              /\ Cardinality(EntriesOf(f, a)) \in Nat
              /\ Cardinality(EntriesOf(f, a)') =
                   IF e.action = a THEN Cardinality(EntriesOf(f, a)) + 1 ELSE Cardinality(EntriesOf(f, a))
<1> DEFINE l == Len(audit[f])
<1>1. audit[f] \in Seq(Entries) /\ audit'[f] = Append(audit[f], e) OBVIOUS
<1>2. /\ audit'[f] \in Seq(Entries) /\ Len(audit'[f]) = l + 1 /\ l \in Nat
      /\ \A n \in 1..l : audit'[f][n] = audit[f][n]
      /\ audit'[f][l + 1] = e
  BY <1>1, AppendProperties
<1>3. DOMAIN audit[f] = 1..l /\ DOMAIN audit'[f] = 1..(l + 1) BY <1>1, <1>2, LenProperties
<1>4. ASSUME NEW a \in Actions
      PROVE  /\ Cardinality(EntriesOf(f, a)) \in Nat
             /\ Cardinality(EntriesOf(f, a)') =
                  IF e.action = a THEN Cardinality(EntriesOf(f, a)) + 1 ELSE Cardinality(EntriesOf(f, a))
  <2>1. EntriesOf(f, a) \subseteq 1..l BY <1>3 DEF EntriesOf
  <2>2. IsFiniteSet(1..l) BY <1>2, FS_Interval
  <2>3. IsFiniteSet(EntriesOf(f, a)) BY <2>1, <2>2, FS_Subset
  <2>4. Cardinality(EntriesOf(f, a)) \in Nat BY <2>3, FS_CardinalityType
  <2>5. l + 1 \notin EntriesOf(f, a) BY <1>2, <2>1
  <2>6. CASE e.action = a
    <3>1. EntriesOf(f, a)' = EntriesOf(f, a) \cup {l + 1} BY <1>2, <1>3, <2>6 DEF EntriesOf
    <3>2. Cardinality(EntriesOf(f, a)') = Cardinality(EntriesOf(f, a)) + 1
      BY <2>3, <2>5, <3>1, FS_AddElement
    <3> QED BY <2>4, <2>6, <3>2
  <2>7. CASE e.action # a
    <3>1. EntriesOf(f, a)' = EntriesOf(f, a) BY <1>2, <1>3, <2>7 DEF EntriesOf
    <3> QED BY <2>4, <2>7, <3>1
  <2> QED BY <2>6, <2>7
<1> QED BY <1>1, <1>2, <1>4

(* An item is stored with its entry: the row that it goes to is its own,   *)
(* the counts follow the audit.                                            *)
LEMMA CommitStep == ASSUME IngestionInv, NEW f \in Fetchers, Commit(f) PROVE IngestionInv'
<1>1. /\ CallTypes /\ TableTypes /\ Locked /\ InOrder /\ Kept /\ Closed /\ OneRowPerUrl
      /\ \A g \in Fetchers : pending[g] # Null <=> stage[g] = "committing"
      /\ \A g \in Fetchers : Asking(g) /\ Audited(g) /\ Fits(g)
  BY InvParts
<1> DEFINE i == ItemOf(f)
           p == pending[f]
           l == Len(audit[f])
<1>2. /\ stage[f] = "committing" /\ stage' = [stage EXCEPT ![f] = "writing"] /\ Steps(f, "writing")
      /\ UNCHANGED <<lock, answer, response, run, state, faults>>
      /\ pending' = [pending EXCEPT ![f] = Null]
      /\ audit' = [audit EXCEPT ![f] = Append(audit[f], [ext |-> i.ext, action |-> p.action])]
      /\ counts' = [counts EXCEPT ![f][p.action] = @ + 1]
      /\ duplicates' = duplicates \cup Pairs(p)
      /\ IF p.id = Null THEN UNCHANGED <<row, snapshots>>
         ELSE /\ row' = [row EXCEPT ![p.id] = NewRecord(f, i)]
              /\ snapshots' = [snapshots EXCEPT ![p.id] = Snapshots(p.id, i)]
  BY DEF Commit, Steps, fetched, Entered
<1>3. /\ l < Len(response[f]) /\ p \in Writes
      /\ p.id # Null <=> p.action \in Stored
      /\ p.id = Null => p.twins = {}
      /\ p.id # Null => /\ p.id \in Ids /\ p.id[1] = Source(f)
                        /\ \A other \in Rows(Source(f)) : row[other].url = i.url => other = p.id
  BY <1>1, <1>2 DEF Fits
<1>4. /\ l \in Nat /\ l + 1 \in 1..Len(response[f]) /\ i = response[f][l + 1] /\ i \in Item
  BY <1>3, ItemInHand
<1> HIDE DEF i, p, l
<1> DEFINE e == [ext |-> i.ext, action |-> p.action]
<1>5. e \in Entries /\ p.action \in Actions /\ e.action = p.action /\ e.ext = i.ext
      /\ p.twins \in SUBSET Ids
  BY <1>3, <1>4 DEF Entries, Item, Writes
<1> HIDE DEF e
<1>6. /\ audit' = [audit EXCEPT ![f] = Append(audit[f], e)] /\ audit \in [Fetchers -> Seq(Entries)]
  BY <1>1, <1>2 DEF e, TableTypes
<1>7. /\ audit' \in [Fetchers -> Seq(Entries)] /\ Len(audit'[f]) = l + 1
      /\ \A n \in 1..l : audit'[f][n] = audit[f][n]
      /\ audit'[f][l + 1] = e
      /\ \A a \in Actions :
           /\ Cardinality(EntriesOf(f, a)) \in Nat
           /\ Cardinality(EntriesOf(f, a)') =
                IF e.action = a THEN Cardinality(EntriesOf(f, a)) + 1 ELSE Cardinality(EntriesOf(f, a))
  BY <1>5, <1>6, OneMoreEntry, ZenonT(30) DEF l
<1>8. /\ stage'[f] = "writing" /\ pending'[f] = Null
      /\ \A g \in Fetchers : g # f => stage'[g] = stage[g] /\ pending'[g] = pending[g]
                                      /\ audit'[g] = audit[g] /\ counts'[g] = counts[g]
  BY <1>1, <1>2, <1>6 DEF CallTypes
(* The rows afterwards.                                                    *)
<1> DEFINE u == <<i.url, i.content>>
           x == NewRecord(f, i)
<1>9. x \in Records /\ x.url = i.url /\ x.seen = f /\ u \in Urls \X Contents
  BY <1>4 DEF NewRecord, Records, Item
<1>10. \A id \in Ids :
         /\ row'[id] = IF id = p.id /\ p.id # Null THEN x ELSE row[id]
         /\ snapshots'[id] = IF id = p.id /\ p.id # Null THEN snapshots[id] \cup {u} ELSE snapshots[id]
  <2>1. CASE p.id = Null BY <1>2, <2>1
  <2>2. CASE p.id # Null
    <3>1. p.id \in Ids BY <1>3, <2>2
    <3>2. row' = [row EXCEPT ![p.id] = x] BY <1>2, <2>2
    <3>3. snapshots' = [snapshots EXCEPT ![p.id] = snapshots[p.id] \cup {u}] BY <1>2, <2>2 DEF Snapshots
    <3>4. row \in [Ids -> Records \cup {Null}] /\ snapshots \in [Ids -> SUBSET (Urls \X Contents)]
      BY <1>1 DEF TableTypes
    <3> HIDE DEF x, u
    <3> QED BY <2>2, <3>1, <3>2, <3>3, <3>4
  <2> QED BY <2>1, <2>2
<1>11. TableTypes'
  <2>1. row' \in [Ids -> Records \cup {Null}]
    <3>1. CASE p.id = Null BY <1>1, <1>2, <3>1 DEF TableTypes
    <3>2. CASE p.id # Null
      <4>1. row' = [row EXCEPT ![p.id] = x] /\ p.id \in Ids BY <1>2, <1>3, <3>2
      <4>2. row \in [Ids -> Records \cup {Null}] BY <1>1 DEF TableTypes
      <4>3. x \in Records BY <1>9
      <4> HIDE DEF x
      <4> QED BY ONLY <4>1, <4>2, <4>3
    <3> QED BY <3>1, <3>2
  <2>2. snapshots' \in [Ids -> SUBSET (Urls \X Contents)]
    <3>1. CASE p.id = Null BY <1>1, <1>2, <3>1 DEF TableTypes
    <3>2. CASE p.id # Null
      <4>1. snapshots' = [snapshots EXCEPT ![p.id] = snapshots[p.id] \cup {u}] /\ p.id \in Ids
        BY <1>2, <1>3, <3>2 DEF Snapshots
      <4>2. snapshots \in [Ids -> SUBSET (Urls \X Contents)] BY <1>1 DEF TableTypes
      <4>3. snapshots[p.id] \cup {u} \in SUBSET (Urls \X Contents) BY <1>9, <4>1, <4>2
      <4> HIDE DEF u
      <4> QED BY ONLY <4>1, <4>2, <4>3
    <3> QED BY <3>1, <3>2
  <2>3. duplicates' \subseteq SUBSET Ids
    <3>1. CASE p.id = Null
      <4>1. Pairs(p) = {} BY <1>3, <3>1 DEF Pairs
      <4> QED BY <1>1, <1>2, <4>1 DEF TableTypes
    <3>2. CASE p.id # Null
      <4>1. \A q \in Pairs(p) : q \in SUBSET Ids BY <1>3, <1>5, <3>2 DEF Pairs
      <4>2. duplicates \subseteq SUBSET Ids BY <1>1 DEF TableTypes
      <4> QED BY ONLY <1>2, <4>1, <4>2
    <3> QED BY <3>1, <3>2
  <2> QED BY <1>1, <1>2, <1>7, <2>1, <2>2, <2>3 DEF TableTypes
<1> HIDE DEF x, u
<1>12. CallTypes'
  <2>1. counts' \in [Fetchers -> [Actions -> Nat]]
    <3>1. counts \in [Fetchers -> [Actions -> Nat]] BY <1>1 DEF CallTypes
    <3>2. counts[f][p.action] + 1 \in Nat BY <1>5, <3>1
    <3> QED BY <1>2, <1>5, <3>1, <3>2
  <2> QED BY <1>1, <1>2, <2>1 DEF CallTypes, Places
<1>13. Locked' BY <1>1, <1>2, LockStays DEF CallTypes, Inside
<1>14. InOrder'
  <2>1. \A g \in Fetchers : stage'[g] \in {"writing", "committing"} => stage[g] \in {"writing", "committing"}
    BY <1>2, <1>8
  <2> QED BY <1>1, <1>2, <2>1 DEF InOrder, Begun, Source
<1>15. \A g \in Fetchers : Source(g) = Source(f) => run[g].order <= run[f].order /\ run[g].order \in Nat
  <2>1. \A g \in Fetchers : run[g].order \in Nat BY <1>1 DEF TableTypes, RunRows
  <2> QED BY <1>1, <1>2, <2>1 DEF InOrder
<1>16. Kept'
  <2> SUFFICES ASSUME NEW g \in Fetchers, NEW n \in 1..Len(audit'[g]), audit'[g][n].action \in Stored
               PROVE  \E id \in Rows(Source(g))' :
                        /\ run[row'[id].seen].order >= run[g].order
                        /\ <<response[g][n].url, response[g][n].content>> \in snapshots'[id]
    BY <1>2 DEF Kept, KeptBy, Source
  <2>1. CASE g = f /\ n = l + 1
    <3>1. p.id # Null /\ p.id \in Ids /\ p.id[1] = Source(f)
      BY <1>3, <1>5, <1>7, <2>1
    <3>2. row'[p.id] = x /\ u \in snapshots'[p.id] BY <1>10, <3>1
    <3>3. p.id \in Rows(Source(f))' BY <1>9, <3>1, <3>2, NotNull DEF Rows, Source
    <3>4. u = <<response[g][n].url, response[g][n].content>> BY <1>4, <2>1 DEF u
    <3> QED BY <1>9, <1>15, <2>1, <3>2, <3>3, <3>4
  <2>2. CASE ~(g = f /\ n = l + 1)
    <3>1. n \in 1..Len(audit[g]) /\ audit[g][n].action \in Stored
      <4>1. CASE g = f
        <5>1. n \in 1..l /\ audit'[f][n] = audit[f][n] BY <1>4, <1>7, <2>2, <4>1
        <5> QED BY <4>1, <5>1 DEF l
      <4>2. CASE g # f BY <1>8, <4>2
      <4> QED BY <4>1, <4>2
    <3>2. PICK id \in Rows(Source(g)) :
            /\ run[row[id].seen].order >= run[g].order
            /\ <<response[g][n].url, response[g][n].content>> \in snapshots[id]
      BY <1>1, <3>1 DEF Kept, KeptBy
    <3>3. id \in Ids /\ id[1] = Source(g) /\ row[id] # Null BY <3>2 DEF Rows
    <3>4. <<response[g][n].url, response[g][n].content>> \in snapshots'[id] BY <1>10, <3>2, <3>3
    <3>5. id \in Rows(Source(g))' BY <1>9, <1>10, <3>3, NotNull DEF Rows, Source
    <3>6. run[row'[id].seen].order >= run[g].order
      <4>1. CASE id = p.id /\ p.id # Null
        <5>1. Source(g) = Source(f) BY <1>3, <3>3, <4>1
        <5>2. row'[id].seen = f BY <1>9, <1>10, <3>3, <4>1
        <5> QED BY <1>15, <5>1, <5>2
      <4>2. CASE ~(id = p.id /\ p.id # Null) BY <1>10, <3>2, <3>3, <4>2
      <4> QED BY <4>1, <4>2
    <3> QED BY <3>4, <3>5, <3>6
  <2> QED BY <2>1, <2>2
<1>17. Closed' BY <1>1, <1>2 DEF Closed, Source
<1>18. OneRowPerUrl'
  <2> SUFFICES ASSUME NEW id \in Ids, NEW other \in Ids, row'[id] # Null, row'[other] # Null,
                      id[1] = other[1], row'[id].url = row'[other].url
               PROVE  id = other
    BY DEF OneRowPerUrl
  <2>1. ASSUME NEW y \in Ids, NEW z \in Ids, y = p.id, p.id # Null, z # y, row'[z] # Null,
               y[1] = z[1], row'[y].url = row'[z].url
        PROVE  FALSE
    <3>1. row'[y] = x /\ row'[z] = row[z] /\ y[1] = Source(f) BY <1>3, <1>10, <2>1
    <3>2. z \in Rows(Source(f)) /\ row[z].url = i.url BY <1>9, <2>1, <3>1 DEF Rows
    <3> QED BY <1>3, <2>1, <3>2
  <2>2. CASE id = p.id /\ p.id # Null BY <2>1, <2>2
  <2>3. CASE other = p.id /\ p.id # Null BY <2>1, <2>3
  <2>4. CASE ~(id = p.id /\ p.id # Null) /\ ~(other = p.id /\ p.id # Null)
    <3>1. row'[id] = row[id] /\ row'[other] = row[other] BY <1>10, <2>4
    <3> QED BY <1>1, <3>1 DEF OneRowPerUrl
  <2> QED BY <2>2, <2>3, <2>4
<1>19. \A g \in Fetchers : pending'[g] # Null <=> stage'[g] = "committing"
  BY <1>1, <1>8
<1>20. ASSUME NEW g \in Fetchers PROVE Asking(g)' /\ Audited(g)' /\ Fits(g)'
  <2>0. Asking(g) /\ Audited(g) /\ Fits(g) BY <1>1
  <2>1. CASE g # f
    <3>1. /\ audit'[g] = audit[g] /\ counts'[g] = counts[g] /\ pending'[g] = pending[g]
          /\ stage'[g] = stage[g] /\ UNCHANGED <<run, answer, response>>
      BY <1>2, <1>8, <2>1
    <3>2. Asking(g)' BY <2>0, <3>1 DEF Asking
    <3>3. Audited(g)' BY <2>0, <3>1 DEF Audited, EntriesOf
    <3>4. Fits(g)'
      <4> SUFFICES ASSUME stage[g] = "committing" PROVE Fits(g)'
        BY <3>1 DEF Fits
      <4>1. Source(g) # Source(f)
        <5>1. Inside(g) /\ Inside(f) BY <1>2 DEF Inside
        <5> QED BY <1>1, <2>1, <5>1 DEF Locked
      <4>2. \A id \in Ids : id[1] = Source(g) => row'[id] = row[id]
        BY <1>3, <1>10, <4>1
      <4>3. Rows(Source(g))' = Rows(Source(g)) BY <4>2 DEF Rows, Source
      <4>4. ItemOf(g)' = ItemOf(g) BY <3>1 DEF ItemOf
      <4>5. \A other \in Rows(Source(g))' : other \in Rows(Source(g)) /\ row'[other] = row[other]
        BY <4>2, <4>3 DEF Rows
      <4> QED BY <2>0, <3>1, <4>4, <4>5 DEF Fits, Source
    <3> QED BY <3>2, <3>3, <3>4
  <2>2. CASE g = f
    <3>1. run[f].outcome = "pending" /\ run[f].order > 0 /\ run[f] # NoRun
      BY <1>1, <1>2 DEF Asking, NoRun
    <3>2. Asking(f)'
      <4>1. /\ answer[f] \notin Delivered => response[f] = <<>>
            /\ answer[f] # "none"
        BY <1>1, <1>2 DEF Asking
      <4> QED BY <1>2, <1>8, <3>1, <4>1 DEF Asking
    <3>3. Len(audit'[f]) <= Len(response'[f])
      <4>1. l + 1 <= Len(response[f]) BY <1>4
      <4> QED BY <1>2, <1>7, <4>1
    <3>4. \A n \in 1..Len(audit'[f]) : audit'[f][n].ext = response'[f][n].ext
      <4>1. \A n \in 1..l : audit[f][n].ext = response[f][n].ext BY <1>1 DEF Audited, l
      <4> SUFFICES ASSUME NEW n \in 1..(l + 1) PROVE audit'[f][n].ext = response[f][n].ext
        BY <1>2, <1>7
      <4>2. CASE n = l + 1 BY <1>4, <1>5, <1>7, <4>2
      <4>3. CASE n # l + 1
        <5>1. n \in 1..l BY <1>4, <4>3
        <5> QED BY <1>7, <4>1, <5>1
      <4> QED BY <4>2, <4>3
    <3>5. \A a \in Actions : counts'[f][a] = Cardinality(EntriesOf(f, a)')
      <4>1. counts \in [Fetchers -> [Actions -> Nat]] BY <1>1 DEF CallTypes
      <4>2. \A a \in Actions : counts'[f][a] = IF p.action = a THEN counts[f][a] + 1 ELSE counts[f][a]
        BY <1>2, <1>5, <4>1
      <4>3. \A a \in Actions : counts[f][a] = Cardinality(EntriesOf(f, a)) BY <1>1 DEF Audited
      <4> QED BY <1>5, <1>7, <4>2, <4>3
    <3>6. Audited(f)' BY <1>2, <3>1, <3>3, <3>4, <3>5 DEF Audited
    <3> QED BY <1>8, <2>2, <3>2, <3>6 DEF Fits
  <2> QED BY <2>1, <2>2
<1> QED BY <1>11, <1>12, <1>13, <1>14, <1>16, <1>17, <1>18, <1>19, <1>20 DEF IngestionInv


(* The run gets its outcome with all items in its audit; the state moves   *)
(* to it.                                                                  *)
LEMMA CloseStep == ASSUME IngestionInv, NEW f \in Fetchers, Close(f) PROVE IngestionInv'
<1>1. /\ CallTypes /\ TableTypes /\ Locked /\ InOrder /\ Kept /\ Closed /\ OneRowPerUrl
      /\ \A g \in Fetchers : pending[g] # Null <=> stage[g] = "committing"
      /\ \A g \in Fetchers : Asking(g) /\ Audited(g) /\ Fits(g)
  BY InvParts
<1>2. /\ stage[f] = "writing" /\ Len(audit[f]) = Len(response[f])
      /\ run' = [run EXCEPT ![f].outcome = Outcome(f), ![f].counts = counts[f]]
      /\ \E call \in StatesAfter(f) : state' = [state EXCEPT ![Source(f)] = call]
      /\ Steps(f, "over") /\ stage' = [stage EXCEPT ![f] = "over"] /\ Release(f)
      /\ UNCHANGED <<answer, response, pending, counts, audit, row, snapshots, duplicates, faults>>
  BY DEF Close, Steps, fetched
<1>3. run[f].outcome = "pending" /\ run[f].order > 0 BY <1>1, <1>2 DEF Asking
<1>4. PICK o \in {"failed", "no_change", "partial", "succeeded"} :
        o = Outcome(f) /\ (counts[f]["failed"] > 0 => o = "partial")
  <2>1. answer[f] \in {"items", "partial", "no_change", "failed"} BY <1>1, <1>2 DEF CallTypes, Asking
  <2>2. CASE counts[f]["failed"] > 0 BY <2>2 DEF Outcome
  <2>3. CASE ~(counts[f]["failed"] > 0) BY <2>1, <2>3 DEF Outcome
  <2> QED BY <2>2, <2>3
<1> DEFINE x == [run[f] EXCEPT !.outcome = o, !.counts = counts[f]]
<1>5. /\ run[f] \in RunRows /\ counts[f] \in [Actions -> Nat] BY <1>1 DEF CallTypes, TableTypes
<1>6. /\ x \in RunRows /\ x.order = run[f].order /\ x.outcome = o /\ x.counts = counts[f]
  BY <1>5 DEF RunRows, Outcomes
<1>7. run' = [run EXCEPT ![f] = x] BY <1>1, <1>2, <1>4 DEF TableTypes
<1> HIDE DEF x
<1>8. /\ stage'[f] = "over" /\ run'[f] = x
      /\ \A g \in Fetchers : run'[g].order = run[g].order
      /\ \A g \in Fetchers : g # f => stage'[g] = stage[g] /\ run'[g] = run[g]
  BY <1>1, <1>2, <1>6, <1>7 DEF CallTypes, TableTypes
<1>9. PICK call \in StatesAfter(f) : state' = [state EXCEPT ![Source(f)] = call] BY <1>2
<1>10. /\ call \in Fetchers \cup {Null} /\ state' \in [Sources -> Fetchers \cup {Null}]
       /\ call # Null => \/ call = f /\ o \in {"succeeded", "partial"}
                         \/ call = state[Source(f)]
  <2>1. state[Source(f)] \in Fetchers \cup {Null} BY <1>1, SourcesOfCalls DEF TableTypes
  <2>2. \/ call = state[Source(f)] \/ call = Null
        \/ call = f /\ o \notin {"failed", "no_change"}
    BY <1>4 DEF StatesAfter
  <2>3. call \in Fetchers \cup {Null} BY <2>1, <2>2
  <2> QED BY <1>1, <1>9, <2>2, <2>3 DEF TableTypes
<1>11. TableTypes'
  <2>1. run' \in [Fetchers -> RunRows] BY <1>1, <1>6, <1>7 DEF TableTypes
  <2> QED BY <1>1, <1>2, <1>10, <2>1 DEF TableTypes
<1>12. CallTypes'
  <2>1. lock' \in [Sources -> Fetchers \cup {Null}] BY <1>1, <1>2 DEF CallTypes, Release
  <2> QED BY <1>1, <1>2, <2>1 DEF CallTypes, Places
<1>13. Locked' BY <1>1, <1>2, LockReleased DEF CallTypes, Inside
<1>14. InOrder'
  <2>1. Begun' = Begun BY <1>8 DEF Begun
  <2>2. \A g \in Fetchers : stage'[g] \in {"writing", "committing"} => stage[g] \in {"writing", "committing"}
    BY <1>2, <1>8
  <2> QED BY <1>1, <1>8, <2>1, <2>2 DEF InOrder, Source
<1>15. Kept'
  <2> SUFFICES ASSUME NEW g \in Fetchers, NEW n \in 1..Len(audit'[g]), audit'[g][n].action \in Stored
               PROVE  KeptBy(g, n)'
    BY DEF Kept
  <2>1. n \in 1..Len(audit[g]) /\ audit[g][n].action \in Stored BY <1>2
  <2>2. PICK id \in Rows(Source(g)) :
          /\ run[row[id].seen].order >= run[g].order
          /\ <<response[g][n].url, response[g][n].content>> \in snapshots[id]
    BY <1>1, <2>1 DEF Kept, KeptBy
  <2>3. row[id] \in Records BY <1>1, <2>2 DEF Rows, TableTypes
  <2>4. PICK h \in Fetchers : h = row[id].seen BY <2>3 DEF Records
  <2>5. run'[h].order >= run'[g].order BY <1>8, <2>2, <2>4
  <2>6. id \in Rows(Source(g))' /\ row'[id].seen = h BY <1>2, <2>2, <2>4 DEF Rows, Source
  <2>7. <<response'[g][n].url, response'[g][n].content>> \in snapshots'[id] BY <1>2, <2>2
  <2> QED BY <2>5, <2>6, <2>7 DEF KeptBy, Source
<1>16. Closed'
  <2> SUFFICES ASSUME NEW s \in Sources, state'[s] # Null
               PROVE  Source(state'[s]) = s
                      /\ run'[state'[s]].outcome \in {"succeeded", "partial"}
    BY DEF Closed, Source
  <2>0. state'[s] # Null OBVIOUS
  <2>1. CASE s = Source(f) /\ call = f
    <3>1. state'[s] = f BY <1>1, <1>9, <2>1 DEF TableTypes
    <3>2. o \in {"succeeded", "partial"} \/ f = state[s] BY <1>10, <2>1, NotNull
    <3>3. f # state[s] BY <1>1, <1>3, <2>1, NotNull DEF Closed
    <3> QED BY <1>6, <1>8, <2>1, <3>1, <3>2, <3>3
  <2>2. CASE ~(s = Source(f) /\ call = f)
    <3>1. state'[s] = state[s]
      <4>1. CASE s = Source(f)
        <5>1. state'[s] = call /\ call # Null BY <1>1, <1>9, <2>0, <4>1 DEF TableTypes
        <5> QED BY <1>10, <2>2, <4>1, <5>1
      <4>2. CASE s # Source(f) BY <1>1, <1>9, <4>2 DEF TableTypes
      <4> QED BY <4>1, <4>2
    <3>2. PICK g \in Fetchers : g = state[s] BY <1>1, <2>0, <3>1 DEF TableTypes
    <3>3. Source(g) = s /\ run[g].outcome \in {"succeeded", "partial"}
      BY <1>1, <2>0, <3>1, <3>2 DEF Closed
    <3>4. g # f BY <1>3, <3>3
    <3> QED BY <1>8, <3>1, <3>2, <3>3, <3>4
  <2> QED BY <2>1, <2>2
<1>17. OneRowPerUrl' BY <1>1, <1>2 DEF OneRowPerUrl
<1>18. \A g \in Fetchers : pending'[g] # Null <=> stage'[g] = "committing"
  BY <1>1, <1>2, <1>8
<1>19. ASSUME NEW g \in Fetchers PROVE Asking(g)' /\ Audited(g)' /\ Fits(g)'
  <2>1. Asking(g) /\ Audited(g) /\ Fits(g) BY <1>1
  <2>2. CASE g # f
    <3>1. /\ run'[g] = run[g] /\ audit'[g] = audit[g] /\ counts'[g] = counts[g] /\ answer'[g] = answer[g]
          /\ response'[g] = response[g] /\ pending'[g] = pending[g] /\ stage'[g] = stage[g] /\ row' = row
      BY <1>2, <1>8, <2>2
    <3>2. Asking(g)' BY <2>1, <3>1 DEF Asking
    <3>3. Audited(g)' BY <2>1, <3>1 DEF Audited, EntriesOf
    <3>4. Fits(g)' BY <2>1, <3>1 DEF Fits, Rows, ItemOf, Source
    <3> QED BY <3>2, <3>3, <3>4
  <2>3. CASE g = f
    <3>1. run'[f] # NoRun BY <1>3, <1>6, <1>8 DEF NoRun
    <3>2. answer[f] \notin Delivered => response[f] = <<>> BY <1>1 DEF Asking
    <3>3. Asking(f)' BY <1>2, <1>8, <3>1, <3>2 DEF Asking
    <3>4. /\ run'[f].outcome = o /\ run'[f].counts = counts'[f] BY <1>2, <1>6, <1>8
    <3>5. counts'[f]["failed"] # 0 => o = "partial"
      <4>1. counts[f]["failed"] \in Nat BY <1>5 DEF Actions
      <4> QED BY <1>2, <1>4, <4>1
    <3>6. Audited(f)'
      <4>1. /\ Len(audit[f]) <= Len(response[f])
            /\ \A n \in 1..Len(audit[f]) : audit[f][n].ext = response[f][n].ext
            /\ \A a \in Actions : counts[f][a] = Cardinality(EntriesOf(f, a))
        BY <1>1 DEF Audited
      <4>2. \A a \in Actions : EntriesOf(f, a)' = EntriesOf(f, a) BY <1>2 DEF EntriesOf
      <4> QED BY <1>2, <1>8, <3>4, <3>5, <4>1, <4>2 DEF Audited
    <3> QED BY <1>8, <2>3, <3>3, <3>6 DEF Fits
  <2> QED BY <2>2, <2>3
<1> QED BY <1>11, <1>12, <1>13, <1>14, <1>15, <1>16, <1>17, <1>18, <1>19 DEF IngestionInv

(* A dry run leaves nothing.                                               *)
LEMMA EndDryRunStep == ASSUME IngestionInv, NEW f \in Fetchers, EndDryRun(f) PROVE IngestionInv'
<1>1. /\ CallTypes /\ \A g \in Fetchers : pending[g] # Null <=> stage[g] = "committing" BY InvParts
<1>2. Inside(f) /\ pending[f] = Null BY <1>1 DEF EndDryRun, Inside
<1>3. pending' = [pending EXCEPT ![f] = Null] BY <1>1, <1>2 DEF EndDryRun, CallTypes
<1>4. faults' \in 0..MaxFaults BY <1>1 DEF EndDryRun, CallTypes
<1>5. Steps(f, "over") /\ Release(f) /\ UNCHANGED <<fetched, counts, tables>> BY DEF EndDryRun
<1> QED BY <1>2, <1>3, <1>4, <1>5, CallEnds

(* A call that is interrupted leaves what it committed.                    *)
LEMMA InterruptStep == ASSUME IngestionInv, NEW f \in Fetchers, Interrupt(f) PROVE IngestionInv'
<1>1. CallTypes BY InvParts
<1>2. faults' \in 0..MaxFaults BY <1>1, IngestionAssumption DEF Interrupt, CallTypes
<1>3. /\ Inside(f) /\ Steps(f, "over") /\ Release(f) /\ pending' = [pending EXCEPT ![f] = Null]
      /\ UNCHANGED <<fetched, counts, tables>>
  BY DEF Interrupt
<1> QED BY <1>2, <1>3, CallEnds

(* Every step keeps the invariant.                                         *)
LEMMA IngestionStep == IngestionInv /\ [IngestionNext]_ingestionVars => IngestionInv'
<1> SUFFICES ASSUME IngestionInv, [IngestionNext]_ingestionVars PROVE IngestionInv'
  OBVIOUS
<1>1. ASSUME NEW f \in Fetchers, Acquire(f) PROVE IngestionInv' BY <1>1, AcquireStep
<1>2. ASSUME NEW f \in Fetchers, Interrupt(f) PROVE IngestionInv' BY <1>2, InterruptStep
<1>3. ASSUME NEW f \in Fetchers, Respond(f) PROVE IngestionInv' BY <1>3, RespondStep
<1>4. ASSUME NEW f \in Fetchers, EndDryRun(f) PROVE IngestionInv' BY <1>4, EndDryRunStep
<1>5. ASSUME NEW f \in Fetchers, Upsert(f) PROVE IngestionInv' BY <1>5, UpsertStep
<1>6. ASSUME NEW f \in Fetchers, Commit(f) PROVE IngestionInv' BY <1>6, CommitStep
<1>7. ASSUME NEW f \in Fetchers, Close(f) PROVE IngestionInv' BY <1>7, CloseStep
<1>8. CASE UNCHANGED ingestionVars
  <2>1. UNCHANGED <<lock, stage, answer, response, pending, counts, run, audit, row, snapshots,
                    duplicates, state, faults>>
    BY <1>8 DEF ingestionVars, fetched, tables
  <2>2. /\ CallTypes /\ TableTypes /\ Locked /\ InOrder /\ Kept /\ Closed /\ OneRowPerUrl
        /\ \A g \in Fetchers : pending[g] # Null <=> stage[g] = "committing"
        /\ \A g \in Fetchers : Asking(g) /\ Audited(g) /\ Fits(g)
    BY InvParts
  <2>3. CallTypes' /\ Locked' BY <2>1, <2>2 DEF CallTypes, Locked, Inside, Source
  <2>4. InOrder' /\ Kept' /\ Closed' /\ OneRowPerUrl' /\ TableTypes' BY <2>1, <2>2, TablesStay
  <2>5. \A g \in Fetchers : Asking(g)' /\ Audited(g)' /\ Fits(g)' BY <2>1, <2>2, CallStays
  <2> QED BY <2>1, <2>2, <2>3, <2>4, <2>5 DEF IngestionInv
<1> QED BY <1>1, <1>2, <1>3, <1>4, <1>5, <1>6, <1>7, <1>8 DEF IngestionNext

(* The invariant of ingestion: locks, order of runs, audits and what was   *)
(* stored.                                                                 *)
THEOREM IngestionInvariance == IngestionSpec => []IngestionInv
<1>1. IngestionInit => IngestionInv BY IngestionInvInit
<1>2. IngestionInv /\ [IngestionNext]_ingestionVars => IngestionInv' BY IngestionStep
<1> QED BY <1>1, <1>2, PTL DEF IngestionSpec

(* A run with an item that failed is a partial one.                        *)
LEMMA FailuresCount ==
  ASSUME IngestionInv, NEW f \in Fetchers, run[f].outcome \notin {"none", "pending"},
         NEW n \in DOMAIN audit[f], audit[f][n].action = "failed"
  PROVE  run[f].outcome = "partial"
<1>1. /\ counts[f]["failed"] # 0 => run[f].outcome = "partial"
      /\ \A a \in Actions : counts[f][a] = Cardinality(EntriesOf(f, a))
  BY InvParts DEF Audited
<1>2. audit[f] \in Seq(Entries) BY InvParts DEF TableTypes
<1>3. DOMAIN audit[f] = 1..Len(audit[f]) BY <1>2, LenProperties
<1>4. IsFiniteSet(EntriesOf(f, "failed"))
  <2>1. PICK l \in Nat : l = Len(audit[f]) BY <1>2
  <2>2. IsFiniteSet(1..l) BY FS_Interval
  <2>3. EntriesOf(f, "failed") \subseteq 1..l BY <1>3, <2>1 DEF EntriesOf
  <2> QED BY <2>2, <2>3, FS_Subset
<1>5. n \in EntriesOf(f, "failed") BY DEF EntriesOf
<1>6. Cardinality(EntriesOf(f, "failed")) # 0 BY <1>4, <1>5, FS_EmptySet
<1> QED BY <1>1, <1>6 DEF Actions

(* The counts of an ended run (_finish_run) are those of its audit,        *)
(* whatever was interrupted or failed between items.                       *)
THEOREM EveryRunMatches == IngestionSpec => []RunsMatchAudit
<1>1. ASSUME IngestionInv PROVE RunsMatchAudit
  <2> SUFFICES ASSUME NEW f \in Fetchers, run[f].outcome \notin {"none", "pending"}
               PROVE  /\ \A a \in Actions :
                           run[f].counts[a] = Cardinality({n \in DOMAIN audit[f] : audit[f][n].action = a})
                      /\ [n \in DOMAIN audit[f] |-> audit[f][n].ext]
                           = [n \in DOMAIN response[f] |-> response[f][n].ext]
                      /\ run[f].outcome = "succeeded" =>
                           \A n \in DOMAIN audit[f] : audit[f][n].action # "failed"
    BY DEF RunsMatchAudit
  <2>1. /\ Len(audit[f]) = Len(response[f]) /\ run[f].counts = counts[f]
        /\ \A n \in 1..Len(audit[f]) : audit[f][n].ext = response[f][n].ext
        /\ \A a \in Actions : counts[f][a] = Cardinality(EntriesOf(f, a))
    BY <1>1, InvParts DEF Audited
  <2>2. audit[f] \in Seq(Entries) BY <1>1, InvParts DEF TableTypes
  <2>3. response[f] \in Seq(Item)
    <3>1. <<>> \in Seq(Item) OBVIOUS
    <3> QED BY <1>1, <3>1, InvParts, IngestionAssumption DEF CallTypes
  <2>4. DOMAIN audit[f] = 1..Len(audit[f]) /\ DOMAIN response[f] = 1..Len(response[f])
    BY <2>2, <2>3, LenProperties
  <2>5. \A a \in Actions :
          run[f].counts[a] = Cardinality({n \in DOMAIN audit[f] : audit[f][n].action = a})
    BY <2>1 DEF EntriesOf
  <2>6. [n \in DOMAIN audit[f] |-> audit[f][n].ext] = [n \in DOMAIN response[f] |-> response[f][n].ext]
    BY <2>1, <2>4
  <2>7. ASSUME run[f].outcome = "succeeded", NEW n \in DOMAIN audit[f], audit[f][n].action = "failed"
        PROVE  FALSE
    <3>1. run[f].outcome = "partial" BY <1>1, <2>7, FailuresCount
    <3> QED BY <2>7, <3>1
  <2> QED BY <2>5, <2>6, <2>7
<1> QED BY <1>1, IngestionInvariance, PTL

(* Within a source no URL has two rows, and every item that the state for  *)
(* conditional requests passes over is stored, or on record as left out.   *)
THEOREM EveryRowIsKept == IngestionSpec => []RowsAreKept
<1>1. ASSUME IngestionInv PROVE RowsAreKept
  <2>1. /\ CallTypes /\ TableTypes /\ Locked /\ InOrder /\ Kept /\ Closed /\ OneRowPerUrl
        /\ \A g \in Fetchers : pending[g] # Null <=> stage[g] = "committing"
        /\ \A g \in Fetchers : Asking(g) /\ Audited(g) /\ Fits(g)
    BY <1>1, InvParts
  <2>2. IngestionTypeOK
    <3>1. \A f \in Fetchers : IF stage[f] = "committing" THEN pending[f] \in Writes ELSE pending[f] = Null
      BY <2>1 DEF Fits
    <3>2. ASSUME NEW f \in Fetchers
          PROVE  /\ answer[f] \in {"none", "items", "partial", "no_change", "failed"}
                 /\ response[f] \in Responses \cup {<<>>}
                 /\ answer[f] \notin Delivered => response[f] = <<>>
      BY <2>1 DEF CallTypes, Asking
    <3>3. ASSUME NEW f \in Fetchers
          PROVE  /\ run[f] \in RunRows /\ audit[f] \in Seq(Entries)
      BY <2>1 DEF TableTypes
    <3>4. /\ row \in [Ids -> {Null} \cup Records]
          /\ \A id \in Ids : snapshots[id] \subseteq Urls \X Contents
          /\ duplicates \subseteq SUBSET Ids /\ state \in [Sources -> Fetchers \cup {Null}]
      BY <2>1 DEF TableTypes
    <3>5. /\ lock \in [Sources -> Fetchers \cup {Null}] /\ stage \in [Fetchers -> Places]
          /\ faults \in 0..MaxFaults
          /\ \A s \in Sources : lock[s] # Null => Source(lock[s]) = s /\ Inside(lock[s])
      BY <2>1 DEF CallTypes, Locked
    <3> QED BY ONLY <3>1, <3>2, <3>3, <3>4, <3>5 DEF IngestionTypeOK, RunRows, Entries, Places, Outcomes
  <2>3. StateIsAccounted
    <3> SUFFICES ASSUME NEW s \in Sources, state[s] # Null
                 PROVE  /\ run[state[s]].outcome \in {"succeeded", "partial"}
                        /\ Len(audit[state[s]]) = Len(response[state[s]])
                        /\ \A n \in DOMAIN response[state[s]] : KeptBy(state[s], n) \/ LeftOut(state[s], n)
      BY DEF StateIsAccounted
    <3>1. PICK f \in Fetchers : f = state[s] BY <2>1 DEF TableTypes
    <3>2. Source(f) = s /\ run[f].outcome \in {"succeeded", "partial"}
      BY <2>1, <3>1 DEF Closed
    <3>3. Len(audit[f]) = Len(response[f]) BY <2>1, <3>2 DEF Audited
    <3>4. audit[f] \in Seq(Entries) /\ response[f] \in Seq(Item)
      <4>1. <<>> \in Seq(Item) OBVIOUS
      <4> QED BY <2>1, <4>1, IngestionAssumption DEF CallTypes, TableTypes
    <3>5. ASSUME NEW n \in DOMAIN response[f] PROVE KeptBy(f, n) \/ LeftOut(f, n)
      <4>1. n \in 1..Len(audit[f]) /\ n \in DOMAIN audit[f] BY <3>3, <3>4, LenProperties
      <4>2. audit[f][n] \in Entries BY <3>4, <4>1
      <4>3. CASE audit[f][n].action \in Stored BY <2>1, <4>1, <4>3 DEF Kept
      <4>4. CASE audit[f][n].action = "failed"
        <5>1. run[f].outcome = "partial" BY <1>1, <3>2, <4>1, <4>4, FailuresCount
        <5> QED BY <4>4, <5>1 DEF LeftOut
      <4>5. CASE audit[f][n].action = "skipped" BY <4>5 DEF LeftOut
      <4> QED BY <4>2, <4>3, <4>4, <4>5 DEF Entries, Actions, Stored
    <3> QED BY <3>1, <3>2, <3>3, <3>5
  <2> QED BY <2>1, <2>2, <2>3 DEF RowsAreKept
<1> QED BY <1>1, IngestionInvariance, PTL

---------------------------------------------------------------------------
(* Events.                                                                 *)

EventRows == [item : Items, added : Nat, removed : Nat]
Stages == {"start", "plan", "publish", "claim", "edit", "write", "apply", "done", "failed"}
Carriers == Pipelines \cup Editors

(* The members of a version, by the rows.                                  *)
RowsAt(rows, n) == {m.item : m \in {r \in rows : r.added <= n /\ (r.removed = 0 \/ r.removed > n)}}

EventTypes ==
  /\ version \in [Keys -> Seq(SUBSET Items)]
  /\ visibility \in [Keys -> {"current", "legacy"}]
  /\ member \in [Keys -> SUBSET EventRows]
  /\ \A k \in Keys :
       /\ Number(k) \in Numbers
       /\ \A m \in member[k] : m.added \in 1..Number(k) /\ m.removed \in 0..Number(k)

LeaseTypes ==
  /\ lease \in [Keys -> Handlers \cup {None}]
  /\ open \in [Keys -> BOOLEAN]

LocalTypes ==
  /\ at \in [Handlers -> Stages]
  /\ plan \in [Pipelines -> [Keys -> SUBSET Items]]
  /\ todo \in [Pipelines -> SUBSET Keys]
  /\ manifest \in [Pipelines -> [Keys -> Numbers]]
  /\ hand \in [Carriers -> Keys \cup {None}]
  /\ seen \in [Carriers -> Numbers]
  /\ cut \in [Editors -> SUBSET Items]

(* A number that was read may be old, never one to come; and what is in    *)
(* the manifest was published then or later.                               *)
PipelineOK(h) ==
  /\ at[h] = "start" => \A k \in Keys : manifest[h][k] = 0
  /\ hand[h] # None => seen[h] <= Number(hand[h])
  /\ \A k \in Keys : manifest[h][k] # 0 =>
       \E n \in manifest[h][k]..Number(k) : version[k][n] = plan[h][k]

EditorOK(h) == at[h] \in {"claim", "edit", "write"} => hand[h] # None

HandlerOK(h) == (h \in Pipelines => PipelineOK(h)) /\ (h \in Editors => EditorOK(h))

(* A candidate names versions that were published; once it was applied,    *)
(* the next versions are the merge.                                        *)
JoinedAfter(l, n, q, m) ==
  Len(l) > n /\ Len(q) > m /\ {l[n + 1], q[m + 1]} = {l[n] \cup q[m], {}}
CandidateOK(c) ==
  candidate[c] # None =>
    /\ candidate[c].left # candidate[c].right
    /\ candidate[c].lv \in 1..Number(candidate[c].left)
    /\ candidate[c].rv \in 1..Number(candidate[c].right)
    /\ candidate[c].status = "applied" =>
         JoinedAfter(version[candidate[c].left], candidate[c].lv,
                     version[candidate[c].right], candidate[c].rv)

EventInv ==
  /\ EventTypes /\ LeaseTypes /\ LocalTypes /\ RowsRebuildVersions
  /\ candidate \in [Candidates -> Proposals \cup {None}]
  /\ \A h \in Handlers : HandlerOK(h)
  /\ \A c \in Candidates : CandidateOK(c)

(* Versions are added to an event, and stay what they are.                 *)
Grown ==
  \A k \in Keys : /\ Number(k) <= Number(k)'
                  /\ \A n \in 1..Number(k) : version'[k][n] = version[k][n]

Untouched(g) ==
  /\ at'[g] = at[g]
  /\ g \in Pipelines => plan'[g] = plan[g] /\ manifest'[g] = manifest[g]
  /\ g \in Carriers => hand'[g] = hand[g] /\ seen'[g] = seen[g]

(* New rows of event_items change what they say of the new version only.   *)
LEMMA ReplacedRows ==
  ASSUME NEW rows \in SUBSET EventRows, NEW members \in SUBSET Items, NEW l \in Nat,
         \A r \in rows : r.added \in 1..l /\ r.removed \in 0..l
  PROVE  /\ Replaced(rows, members, l + 1) \in SUBSET EventRows
         /\ \A r \in Replaced(rows, members, l + 1) : r.added \in 1..(l + 1) /\ r.removed \in 0..(l + 1)
         /\ RowsAt(Replaced(rows, members, l + 1), l + 1) = members
         /\ \A j \in 1..l : RowsAt(Replaced(rows, members, l + 1), j) = RowsAt(rows, j)
<1>0. PICK n \in Nat : n = l + 1 /\ n > 0 /\ l < n OBVIOUS
<1> DEFINE new == Replaced(rows, members, n)
<1> DEFINE Closing(r) == IF r.removed = 0 /\ r.item \notin members THEN [r EXCEPT !.removed = n] ELSE r
           Opened(i) == [item |-> i, added |-> n, removed |-> 0]
           fresh == {i \in members : \A r \in rows : r.removed = 0 => r.item # i}
<1>1. new = {Closing(r) : r \in rows} \cup {Opened(i) : i \in fresh} BY DEF Replaced
<1> HIDE DEF new
<1>2. \A r \in rows : r.item \in Items /\ r.added \in Nat /\ r.removed \in Nat BY DEF EventRows
<1>3. \A r \in rows :
        /\ Closing(r) \in EventRows /\ Closing(r).item = r.item /\ Closing(r).added = r.added
        /\ Closing(r).removed = IF r.removed = 0 /\ r.item \notin members THEN n ELSE r.removed
  <2> SUFFICES ASSUME NEW r \in rows
               PROVE  /\ Closing(r) \in EventRows /\ Closing(r).item = r.item /\ Closing(r).added = r.added
                      /\ Closing(r).removed = IF r.removed = 0 /\ r.item \notin members THEN n ELSE r.removed
    OBVIOUS
  <2>1. r \in EventRows OBVIOUS
  <2>2. CASE r.removed = 0 /\ r.item \notin members
    <3>1. Closing(r) = [r EXCEPT !.removed = n] BY <2>2
    <3> HIDE DEF Closing
    <3> QED BY <2>1, <2>2, <3>1 DEF EventRows
  <2>3. CASE ~(r.removed = 0 /\ r.item \notin members) BY <2>1, <2>3
  <2> QED BY <2>2, <2>3
<1>4. \A i \in fresh : /\ Opened(i) \in EventRows /\ Opened(i).item = i /\ Opened(i).added = n
                       /\ Opened(i).removed = 0
  BY DEF EventRows
<1> HIDE DEF Closing, Opened
<1>5. \A r \in new : (\E q \in rows : r = Closing(q)) \/ (\E i \in fresh : r = Opened(i)) BY <1>1
<1>6. new \in SUBSET EventRows BY <1>3, <1>4, <1>5
<1>7. \A r \in new : r.added \in 1..n /\ r.removed \in 0..n
  <2> SUFFICES ASSUME NEW r \in new PROVE r.added \in 1..n /\ r.removed \in 0..n
    OBVIOUS
  <2>1. CASE \E q \in rows : r = Closing(q)
    <3>1. PICK q \in rows : r = Closing(q) BY <2>1
    <3>2. r.added = q.added /\ (r.removed = n \/ r.removed = q.removed) BY <1>3, <3>1
    <3>3. q.added \in 1..l /\ q.removed \in 0..l OBVIOUS
    <3> QED BY <1>0, <3>2, <3>3
  <2>2. CASE \E i \in fresh : r = Opened(i)
    <3>1. r.added = n /\ r.removed = 0 BY <1>4, <2>2
    <3> QED BY <1>0, <3>1
  <2> QED BY <1>5, <2>1, <2>2
<1>8. RowsAt(new, n) = members
  <2>1. ASSUME NEW r \in new, r.added <= n, r.removed = 0 \/ r.removed > n PROVE r.item \in members
    <3>1. r.removed = 0 BY <1>7, <2>1
    <3>2. CASE \E q \in rows : r = Closing(q)
      <4>1. PICK q \in rows : r = Closing(q) BY <3>2
      <4>2. ~(q.removed = 0 /\ q.item \notin members) BY <1>0, <1>3, <3>1, <4>1
      <4>3. r.removed = q.removed /\ r.item = q.item BY <1>3, <4>1, <4>2
      <4> QED BY <3>1, <4>2, <4>3
    <3>3. CASE \E i \in fresh : r = Opened(i) BY <1>4, <3>3
    <3> QED BY <1>5, <3>2, <3>3
  <2>2. ASSUME NEW i \in members
        PROVE  \E r \in new : r.item = i /\ r.added <= n /\ r.removed = 0
    <3>1. CASE i \in fresh
      <4>1. Opened(i) \in new BY <1>1, <3>1
      <4>2. Opened(i).item = i /\ Opened(i).added <= n /\ Opened(i).removed = 0 BY <1>4, <3>1
      <4> QED BY <4>1, <4>2
    <3>2. CASE i \notin fresh
      <4>1. PICK q \in rows : q.removed = 0 /\ q.item = i BY <3>2
      <4>2. Closing(q) \in new /\ Closing(q).item = i /\ Closing(q).removed = 0
        BY <1>1, <1>3, <4>1
      <4>3. Closing(q).added <= n BY <1>7, <4>2
      <4> QED BY <4>2, <4>3
    <3> QED BY <3>1, <3>2
  <2> QED BY <2>1, <2>2 DEF RowsAt
<1>9. ASSUME NEW j \in 1..l
      PROVE  RowsAt(new, j) = RowsAt(rows, j)
  <2>0. j \in Nat /\ j < n /\ j > 0 BY <1>0
  <2>1. ASSUME NEW r \in new, r.added <= j, r.removed = 0 \/ r.removed > j
        PROVE  \E q \in rows : q.item = r.item /\ q.added <= j /\ (q.removed = 0 \/ q.removed > j)
    <3>1. ASSUME NEW i \in fresh, r = Opened(i) PROVE FALSE BY <1>4, <2>0, <2>1, <3>1
    <3>2. PICK q \in rows : r = Closing(q) BY <1>5, <3>1
    <3>3. r.item = q.item /\ r.added = q.added /\ (q.removed = 0 \/ r.removed = q.removed)
      BY <1>3, <3>2
    <3> QED BY <2>1, <3>3
  <2>2. ASSUME NEW q \in rows, q.added <= j, q.removed = 0 \/ q.removed > j
        PROVE  \E r \in new : r.item = q.item /\ r.added <= j /\ (r.removed = 0 \/ r.removed > j)
    <3>1. Closing(q) \in new BY <1>1
    <3>2. /\ Closing(q).item = q.item /\ Closing(q).added = q.added
          /\ (Closing(q).removed = n \/ Closing(q).removed = q.removed)
      BY <1>3
    <3> QED BY <2>0, <2>2, <3>1, <3>2
  <2> QED BY <2>1, <2>2 DEF RowsAt
<1> QED BY <1>0, <1>6, <1>7, <1>8, <1>9 DEF new

(* Publishing adds a version to each of the events, and the rows it needs. *)
LEMMA PublishGrows ==
  ASSUME EventTypes, RowsRebuildVersions, NEW D \in SUBSET Keys, NEW p \in [D -> SUBSET Items],
         NEW legacies, Published(p, legacies)
  PROVE  /\ EventTypes' /\ RowsRebuildVersions' /\ Grown
         /\ \A k \in D : /\ Number(k) \in Nat /\ Number(k)' = Number(k) + 1 /\ Number(k) + 1 \in Numbers
                         /\ version'[k][Number(k) + 1] = p[k]
         /\ \A k \in Keys : k \notin D => version'[k] = version[k]
<1>0. DOMAIN p = D OBVIOUS
<1>1. /\ \A k \in D : Number(k) < MaxVersions
      /\ version' = [k \in Keys |-> IF k \in D THEN Append(version[k], p[k]) ELSE version[k]]
      /\ member' = [k \in Keys |-> IF k \in D THEN Replaced(member[k], p[k], Number(k) + 1) ELSE member[k]]
      /\ visibility' = [k \in Keys |-> IF k \notin D THEN visibility[k]
                                       ELSE IF k \in legacies THEN "legacy" ELSE "current"]
  BY <1>0 DEF Published
<1>2. \A k \in Keys : /\ version[k] \in Seq(SUBSET Items) /\ Number(k) \in Nat
                      /\ Number(k) \in Numbers /\ member[k] \in SUBSET EventRows
  BY DEF EventTypes, Number
<1>3. ASSUME NEW k \in D
      PROVE  /\ version'[k] \in Seq(SUBSET Items) /\ Number(k)' = Number(k) + 1 /\ Number(k) + 1 \in Numbers
             /\ version'[k][Number(k) + 1] = p[k]
             /\ \A n \in 1..Number(k) : version'[k][n] = version[k][n]
  <2>1. version'[k] = Append(version[k], p[k]) /\ p[k] \in SUBSET Items BY <1>1
  <2>2. Number(k) + 1 \in Numbers
    <3>1. Number(k) < MaxVersions /\ Number(k) \in Nat BY <1>1, <1>2
    <3> QED BY <3>1, EventAssumption DEF Numbers
  <2>3. version[k] \in Seq(SUBSET Items) BY <1>2
  <2> QED BY <2>1, <2>2, <2>3, AppendProperties DEF Number
<1>4. \A k \in Keys : k \notin D => version'[k] = version[k] /\ member'[k] = member[k] BY <1>1
<1>5. Grown
  <2> SUFFICES ASSUME NEW k \in Keys
               PROVE  Number(k) <= Number(k)' /\ \A n \in 1..Number(k) : version'[k][n] = version[k][n]
    BY DEF Grown
  <2>1. CASE k \in D BY <1>2, <1>3, <2>1
  <2>2. CASE k \notin D BY <1>2, <1>4, <2>2 DEF Number
  <2> QED BY <2>1, <2>2
<1>6. ASSUME NEW k \in D
      PROVE  /\ member'[k] \in SUBSET EventRows
             /\ \A m \in member'[k] : m.added \in 1..Number(k)' /\ m.removed \in 0..Number(k)'
             /\ \A n \in 1..Number(k)' : RowsAt(member'[k], n) = version'[k][n]
  <2> DEFINE l == Number(k)
  <2>1. member'[k] = Replaced(member[k], p[k], l + 1) BY <1>1
  <2>2. l \in Nat /\ member[k] \in SUBSET EventRows /\ p[k] \in SUBSET Items BY <1>2
  <2>3. \A r \in member[k] : r.added \in 1..l /\ r.removed \in 0..l BY DEF EventTypes
  <2>4. \A n \in 1..l : RowsAt(member[k], n) = version[k][n]
    BY DEF RowsRebuildVersions, RowsAt
  <2> HIDE DEF l
  <2>6. PICK new : new = Replaced(member[k], p[k], l + 1) OBVIOUS
  <2>7. /\ new \in SUBSET EventRows
        /\ \A r \in new : r.added \in 1..(l + 1) /\ r.removed \in 0..(l + 1)
        /\ RowsAt(new, l + 1) = p[k]
        /\ \A j \in 1..l : RowsAt(new, j) = RowsAt(member[k], j)
    BY <2>2, <2>3, <2>6, ReplacedRows, ZenonT(30)
  <2>8. Number(k)' = l + 1 /\ version'[k][l + 1] = p[k] /\ \A n \in 1..l : version'[k][n] = version[k][n]
    BY <1>3 DEF l
  <2>9. member'[k] = new BY <2>1, <2>6
  <2>10. \A n \in 1..(l + 1) : n \in 1..l \/ n = l + 1 BY <2>2
  <2> QED BY <2>4, <2>7, <2>8, <2>9, <2>10
<1>7. RowsRebuildVersions'
  <2> SUFFICES ASSUME NEW k \in Keys, NEW n \in 1..Number(k)'
               PROVE  RowsAt(member'[k], n) = version'[k][n]
    BY DEF RowsRebuildVersions, RowsAt
  <2>1. CASE k \in D BY <1>6, <2>1
  <2>2. CASE k \notin D BY <1>4, <2>2 DEF RowsRebuildVersions, RowsAt, Number
  <2> QED BY <2>1, <2>2
<1>8. EventTypes'
  <2>1. version' \in [Keys -> Seq(SUBSET Items)]
    <3>1. \A k \in Keys : version'[k] \in Seq(SUBSET Items) BY <1>2, <1>3, <1>4
    <3> QED BY <1>1, <3>1
  <2>2. visibility' \in [Keys -> {"current", "legacy"}] BY <1>1 DEF EventTypes
  <2>3. member' \in [Keys -> SUBSET EventRows]
    <3>1. \A k \in Keys : member'[k] \in SUBSET EventRows BY <1>2, <1>4, <1>6
    <3> QED BY <1>1, <3>1
  <2>4. ASSUME NEW k \in Keys
        PROVE  /\ Number(k)' \in Numbers
               /\ \A m \in member'[k] : m.added \in 1..Number(k)' /\ m.removed \in 0..Number(k)'
    <3>1. CASE k \in D BY <1>3, <1>6, <3>1
    <3>2. CASE k \notin D BY <1>4, <3>2 DEF EventTypes, Number
    <3> QED BY <3>1, <3>2
  <2> QED BY <2>1, <2>2, <2>3, <2>4 DEF EventTypes
<1> QED BY <1>2, <1>3, <1>4, <1>5, <1>7, <1>8

(* What changes no event keeps all that holds of events.                   *)
LEMMA EventsStay ==
  ASSUME EventTypes, RowsRebuildVersions, UNCHANGED event
  PROVE  EventTypes' /\ RowsRebuildVersions' /\ Grown /\ \A k \in Keys : version'[k] = version[k]
<1>1. UNCHANGED <<version, visibility, member>> BY DEF event
<1>2. \A k \in Keys : Number(k) \in Nat BY DEF EventTypes, Number
<1>3. EventTypes' /\ RowsRebuildVersions' BY <1>1 DEF EventTypes, RowsRebuildVersions, Number
<1> QED BY <1>1, <1>2, <1>3 DEF Grown, Number

(* The active members are those of the last version.                       *)
LEMMA ActiveAreLast ==
  ASSUME EventTypes, RowsRebuildVersions, NEW k \in Keys
  PROVE  /\ Active(k) \in SUBSET Items /\ Number(k) \in Nat
         /\ Number(k) # 0 => Active(k) = version[k][Number(k)]
<1>1. /\ Number(k) \in Nat /\ member[k] \in SUBSET EventRows
      /\ \A m \in member[k] : m.added \in 1..Number(k) /\ m.removed \in 0..Number(k)
  BY DEF EventTypes, Number
<1>2. Active(k) \in SUBSET Items BY <1>1 DEF Active, EventRows
<1>3. ASSUME Number(k) # 0 PROVE Active(k) = version[k][Number(k)]
  <2>1. Number(k) \in 1..Number(k) BY <1>1, <1>3
  <2>2. RowsAt(member[k], Number(k)) = version[k][Number(k)]
    BY <2>1 DEF RowsRebuildVersions, RowsAt
  <2>3. \A r \in member[k] : (r.added <= Number(k) /\ (r.removed = 0 \/ r.removed > Number(k))) <=> r.removed = 0
    BY <1>1
  <2> QED BY <2>2, <2>3 DEF Active, RowsAt
<1> QED BY <1>1, <1>2, <1>3

(* None is none of the values, and nobody has two roles.                   *)
LEMMA NoneIsNone ==
  /\ None \notin Keys /\ None \notin Handlers /\ None \notin Proposals
  /\ \A h \in Deciders : h \notin Carriers
  /\ \A h \in Pipelines : h \notin Editors
  /\ 0 \in Numbers
  /\ \A h \in Carriers : h \in Handlers
BY EventAssumption DEF Numbers, Carriers, Handlers

(* The parts of the invariant, for the steps.                              *)
LEMMA EventInvParts ==
  ASSUME EventInv
  PROVE  /\ EventTypes /\ LeaseTypes /\ LocalTypes /\ RowsRebuildVersions
         /\ candidate \in [Candidates -> Proposals \cup {None}]
         /\ \A h \in Handlers : HandlerOK(h)
         /\ \A c \in Candidates : CandidateOK(c)
BY DEF EventInv

(* At first there are no events.                                           *)
LEMMA EventInvInit == Init => EventInv
<1> SUFFICES ASSUME Init PROVE EventInv
  OBVIOUS
<1> USE DEF Init
<1>1. \A k \in Keys : Number(k) = 0 BY DEF Number
<1>2. EventTypes
  <2>1. <<>> \in Seq(SUBSET Items) OBVIOUS
  <2> QED BY <1>1, <2>1, NoneIsNone DEF EventTypes
<1>3. LeaseTypes BY DEF LeaseTypes
<1>4. LocalTypes BY NoneIsNone DEF LocalTypes, Stages, Carriers
<1>5. RowsRebuildVersions BY <1>1 DEF RowsRebuildVersions
<1>6. \A h \in Handlers : HandlerOK(h) BY DEF HandlerOK, PipelineOK, EditorOK
<1>7. \A c \in Candidates : CandidateOK(c) BY DEF CandidateOK
<1> QED BY <1>2, <1>3, <1>4, <1>5, <1>6, <1>7 DEF EventInv

(* While versions are added, what a handler knows and a candidate names    *)
(* stays right.                                                            *)
LEMMA HandlerStays ==
  ASSUME EventTypes, EventTypes', Grown, LocalTypes, NEW g \in Handlers, HandlerOK(g), Untouched(g)
  PROVE  HandlerOK(g)'
<1>1. \A k \in Keys : /\ Number(k) \in Nat /\ Number(k)' \in Nat /\ Number(k) <= Number(k)'
                      /\ \A n \in 1..Number(k) : version'[k][n] = version[k][n]
  BY DEF EventTypes, Number, Grown
<1>2. ASSUME g \in Pipelines PROVE PipelineOK(g)'
  <2>1. PipelineOK(g) BY <1>2 DEF HandlerOK
  <2>2. /\ at'[g] = at[g] /\ plan'[g] = plan[g] /\ manifest'[g] = manifest[g] /\ hand'[g] = hand[g]
        /\ seen'[g] = seen[g] /\ hand[g] \in Keys \cup {None} /\ seen[g] \in Nat
        /\ \A k \in Keys : manifest[g][k] \in Nat
    BY <1>2, EventAssumption DEF Untouched, Carriers, LocalTypes, Numbers
  <2>3. ASSUME NEW k \in Keys, k = hand[g] PROVE seen[g] <= Len(version'[k])
    <3>1. seen[g] <= Number(k) BY <2>1, <2>3, NoneIsNone DEF PipelineOK
    <3> QED BY <1>1, <2>2, <3>1 DEF Number
  <2>4. ASSUME NEW k \in Keys, manifest[g][k] # 0
        PROVE  \E n \in manifest[g][k]..Number(k)' : version'[k][n] = plan[g][k]
    <3>1. PICK n \in manifest[g][k]..Number(k) : version[k][n] = plan[g][k] BY <2>1, <2>4 DEF PipelineOK
    <3>2. n \in 1..Number(k) /\ n \in manifest[g][k]..Number(k)' BY <1>1, <2>2, <2>4
    <3> QED BY <1>1, <3>1, <3>2
  <2>5. at'[g] = "start" => \A k \in Keys : manifest'[g][k] = 0 BY <2>1, <2>2 DEF PipelineOK
  <2>6. \A k \in Keys : manifest'[g][k] # 0 =>
          \E n \in manifest'[g][k]..Number(k)' : version'[k][n] = plan'[g][k]
    BY <2>2, <2>4
  <2>7. hand'[g] # None => seen'[g] <= Len(version'[hand'[g]]) BY <2>2, <2>3
  <2> QED BY <2>5, <2>6, <2>7 DEF PipelineOK, Number
<1>3. ASSUME g \in Editors PROVE EditorOK(g)'
  BY <1>3 DEF HandlerOK, EditorOK, Untouched, Carriers
<1> QED BY <1>2, <1>3 DEF HandlerOK

(* What a candidate names stays published; only a merge makes it applied.  *)
LEMMA CandidateStays ==
  ASSUME EventTypes, EventTypes', Grown, NEW c \in Candidates, candidate[c] \in Proposals, CandidateOK(c),
         candidate'[c] \in Proposals,
         candidate'[c].left = candidate[c].left, candidate'[c].right = candidate[c].right,
         candidate'[c].lv = candidate[c].lv, candidate'[c].rv = candidate[c].rv,
         candidate'[c].status = "applied" => candidate[c].status = "applied"
  PROVE  CandidateOK(c)'
<1>1. PICK k \in Keys, l \in Keys, n \in Numbers, m \in Numbers :
        k = candidate[c].left /\ l = candidate[c].right /\ n = candidate[c].lv /\ m = candidate[c].rv
  BY DEF Proposals
<1>2. \A e \in {k, l} : /\ Number(e) \in Nat /\ Number(e)' \in Nat /\ Number(e) <= Number(e)'
                        /\ \A i \in 1..Number(e) : version'[e][i] = version[e][i]
  BY DEF EventTypes, Number, Grown
<1>3. candidate[c] # None BY NoneIsNone
<1>4. /\ k # l /\ n \in 1..Number(k) /\ m \in 1..Number(l)
      /\ candidate[c].status = "applied" => JoinedAfter(version[k], n, version[l], m)
  BY <1>1, <1>3 DEF CandidateOK
<1>5. n \in 1..Number(k)' /\ m \in 1..Number(l)' BY <1>2, <1>4
<1>6. ASSUME candidate[c].status = "applied" PROVE JoinedAfter(version'[k], n, version'[l], m)
  <2>1. JoinedAfter(version[k], n, version[l], m) BY <1>4, <1>6
  <2>2. n + 1 \in 1..Number(k) /\ m + 1 \in 1..Number(l) BY <1>2, <1>4, <2>1 DEF JoinedAfter, Number
  <2>3. /\ version'[k][n] = version[k][n] /\ version'[k][n + 1] = version[k][n + 1]
        /\ version'[l][m] = version[l][m] /\ version'[l][m + 1] = version[l][m + 1]
    BY <1>2, <1>4, <2>2
  <2>4. Len(version'[k]) > n /\ Len(version'[l]) > m
    BY <1>2, <1>4, <2>2 DEF Number
  <2> QED BY <2>1, <2>3, <2>4 DEF JoinedAfter
<1>7. /\ candidate'[c].left = k /\ candidate'[c].right = l /\ candidate'[c].lv = n /\ candidate'[c].rv = m
      /\ candidate'[c].status = "applied" => JoinedAfter(version'[k], n, version'[l], m)
  BY <1>1, <1>6
<1> QED BY <1>4, <1>5, <1>7 DEF CandidateOK, Number

(* ... all of them, when none is changed.                                  *)
LEMMA CandidatesStay ==
  ASSUME EventTypes, EventTypes', Grown, candidate \in [Candidates -> Proposals \cup {None}],
         \A c \in Candidates : CandidateOK(c), UNCHANGED candidate
  PROVE  /\ candidate' \in [Candidates -> Proposals \cup {None}]
         /\ \A c \in Candidates : CandidateOK(c)'
<1> SUFFICES ASSUME NEW c \in Candidates PROVE CandidateOK(c)'
  OBVIOUS
<1>1. CASE candidate[c] = None BY <1>1 DEF CandidateOK
<1>2. CASE candidate[c] # None
  <2>1. candidate[c] \in Proposals BY <1>2
  <2> QED BY <2>1, CandidateStays
<1> QED BY <1>1, <1>2

(* A handler that ends gives everything up.                                *)
LEMMA HandlerEnds ==
  ASSUME EventTypes, EventTypes', Grown, LocalTypes, \A g \in Handlers : HandlerOK(g),
         NEW h \in Handlers, NEW how \in {"done", "failed"}, Ends(h, how)
  PROVE  LocalTypes' /\ \A g \in Handlers : HandlerOK(g)'
<1>1. /\ at' = [at EXCEPT ![h] = how]
      /\ plan' = [g \in Pipelines |-> IF g = h THEN [k \in Keys |-> {}] ELSE plan[g]]
      /\ todo' = [g \in Pipelines |-> IF g = h THEN {} ELSE todo[g]]
      /\ manifest' = [g \in Pipelines |-> IF g = h THEN [k \in Keys |-> 0] ELSE manifest[g]]
      /\ hand' = [g \in Carriers |-> IF g = h THEN None ELSE hand[g]]
      /\ seen' = [g \in Carriers |-> IF g = h THEN 0 ELSE seen[g]]
      /\ cut' = [g \in Editors |-> IF g = h THEN {} ELSE cut[g]]
  BY DEF Ends, Goes, LocalTypes
<1>2. LocalTypes' BY <1>1, NoneIsNone DEF LocalTypes, Stages
<1>3. ASSUME NEW g \in Handlers PROVE HandlerOK(g)'
  <2>1. CASE g = h
    <3>1. at'[g] = how BY <1>1, <2>1 DEF LocalTypes
    <3>2. g \in Pipelines => hand'[g] = None /\ \A k \in Keys : manifest'[g][k] = 0
      BY <1>1, <2>1 DEF Carriers
    <3> QED BY <3>1, <3>2 DEF HandlerOK, PipelineOK, EditorOK
  <2>2. CASE g # h
    <3>1. Untouched(g) BY <1>1, <2>2 DEF Untouched, LocalTypes
    <3> QED BY <3>1, HandlerStays
  <2> QED BY <2>1, <2>2
<1> QED BY <1>2, <1>3

(* release_event keeps the leases well-formed.                             *)
LEMMA LeasesReleased ==
  ASSUME LeaseTypes, NEW h, Released(h) PROVE LeaseTypes'
BY DEF LeaseTypes, Released

(* No handler moves.                                                       *)
LEMMA AllStay ==
  ASSUME EventTypes, EventTypes', Grown, LocalTypes, \A g \in Handlers : HandlerOK(g),
         UNCHANGED <<at, pipeline, local>>
  PROVE  LocalTypes' /\ \A g \in Handlers : HandlerOK(g)'
<1>1. UNCHANGED <<at, plan, todo, manifest, hand, seen, cut>> BY DEF pipeline, local
<1>2. LocalTypes' BY <1>1 DEF LocalTypes
<1>3. \A g \in Handlers : Untouched(g) BY <1>1 DEF Untouched
<1> QED BY <1>2, <1>3, HandlerStays

(* One handler moves.                                                      *)
LEMMA OneMoves ==
  ASSUME EventTypes, EventTypes', Grown, LocalTypes, \A g \in Handlers : HandlerOK(g),
         NEW h \in Handlers, HandlerOK(h)', \A g \in Handlers : g # h => Untouched(g)
  PROVE  \A g \in Handlers : HandlerOK(g)'
<1> SUFFICES ASSUME NEW g \in Handlers PROVE HandlerOK(g)'
  OBVIOUS
<1>1. CASE g = h BY <1>1
<1>2. CASE g # h BY <1>2, HandlerStays
<1> QED BY <1>1, <1>2

(* A lease runs out.                                                       *)
LEMMA LeaseStep == ASSUME EventInv, NEW k \in Keys, LeaseExpires(k) PROVE EventInv' /\ Grown
<1>1. /\ EventTypes /\ LeaseTypes /\ LocalTypes /\ RowsRebuildVersions
      /\ candidate \in [Candidates -> Proposals \cup {None}]
      /\ \A h \in Handlers : HandlerOK(h)
      /\ \A c \in Candidates : CandidateOK(c)
  BY EventInvParts
<1>2. /\ open' = [open EXCEPT ![k] = FALSE] /\ UNCHANGED lease /\ UNCHANGED event
      /\ UNCHANGED <<at, pipeline, local>> /\ UNCHANGED candidate
  BY DEF LeaseExpires
<1>3. EventTypes' /\ RowsRebuildVersions' /\ Grown BY <1>1, <1>2, EventsStay
<1>4. LeaseTypes' BY <1>1, <1>2 DEF LeaseTypes
<1>5. LocalTypes' /\ \A g \in Handlers : HandlerOK(g)' BY <1>1, <1>2, <1>3, AllStay
<1>6. candidate' \in [Candidates -> Proposals \cup {None}] /\ \A c \in Candidates : CandidateOK(c)'
  BY <1>1, <1>2, <1>3, CandidatesStay
<1> QED BY <1>3, <1>4, <1>5, <1>6 DEF EventInv

(* A handler that ends, with its leases or without, and changes no event.  *)
LEMMA EndStep ==
  ASSUME EventInv, NEW h \in Handlers, NEW how \in {"done", "failed"}, Ends(h, how),
         UNCHANGED event, UNCHANGED candidate, LeaseTypes'
  PROVE  EventInv' /\ Grown
<1>1. /\ EventTypes /\ LocalTypes /\ RowsRebuildVersions
      /\ candidate \in [Candidates -> Proposals \cup {None}]
      /\ \A g \in Handlers : HandlerOK(g)
      /\ \A c \in Candidates : CandidateOK(c)
  BY EventInvParts
<1>2. EventTypes' /\ RowsRebuildVersions' /\ Grown BY <1>1, EventsStay
<1>3. LocalTypes' /\ \A g \in Handlers : HandlerOK(g)' BY <1>1, <1>2, HandlerEnds
<1>4. candidate' \in [Candidates -> Proposals \cup {None}] /\ \A c \in Candidates : CandidateOK(c)'
  BY <1>1, <1>2, CandidatesStay
<1> QED BY <1>2, <1>3, <1>4 DEF EventInv

(* Leases that nobody touches.                                             *)
LEMMA LeasesStay == ASSUME EventInv, UNCHANGED leases PROVE LeaseTypes'
BY DEF EventInv, LeaseTypes, leases

(* A handler dies.                                                         *)
LEMMA DieStep == ASSUME EventInv, NEW h \in Handlers, Die(h) PROVE EventInv' /\ Grown
<1>1. Ends(h, "failed") /\ UNCHANGED event /\ UNCHANGED candidate /\ UNCHANGED leases BY DEF Die
<1> QED BY <1>1, EndStep, LeasesStay

(* A pipeline goes on, and nobody else does.                               *)
LEMMA PipelineMoves ==
  ASSUME EventInv, EventTypes', RowsRebuildVersions', Grown, LeaseTypes', LocalTypes',
         NEW h \in Pipelines, PipelineOK(h)', UNCHANGED candidate,
         \A g \in Handlers : g # h => Untouched(g)
  PROVE  EventInv' /\ Grown
<1>1. /\ EventTypes /\ LocalTypes
      /\ candidate \in [Candidates -> Proposals \cup {None}]
      /\ \A g \in Handlers : HandlerOK(g)
      /\ \A c \in Candidates : CandidateOK(c)
  BY EventInvParts
<1>2. h \in Handlers /\ HandlerOK(h)' BY NoneIsNone DEF HandlerOK, Handlers
<1>3. \A g \in Handlers : HandlerOK(g)' BY <1>1, <1>2, OneMoves
<1>4. candidate' \in [Candidates -> Proposals \cup {None}] /\ \A c \in Candidates : CandidateOK(c)'
  BY <1>1, CandidatesStay
<1> QED BY <1>3, <1>4 DEF EventInv

(* The candidates of a pipeline are new, and nothing is in its manifest.   *)
LEMMA ClusterStep == ASSUME EventInv, NEW h \in Pipelines, Cluster(h) PROVE EventInv' /\ Grown
<1>1. EventTypes /\ LeaseTypes /\ LocalTypes /\ RowsRebuildVersions /\ HandlerOK(h) /\ h \in Handlers
  BY EventInvParts DEF Handlers
<1>0. PICK selected \in SUBSET Items :
        \E p \in Clusterings(selected) :
          /\ plan' = [plan EXCEPT ![h] = p]
          /\ todo' = [todo EXCEPT ![h] = {k \in Keys : p[k] # {}}]
  BY DEF Cluster, Selections
<1>2. PICK p \in Clusterings(selected) :
        /\ plan' = [plan EXCEPT ![h] = p]
        /\ todo' = [todo EXCEPT ![h] = {k \in Keys : p[k] # {}}]
  BY <1>0
<1>3. /\ at[h] = "start" /\ at' = [at EXCEPT ![h] = "plan"] /\ UNCHANGED event /\ UNCHANGED leases
      /\ UNCHANGED <<manifest, hand, seen, cut>> /\ UNCHANGED candidate
  BY DEF Cluster, MayStart, Goes, local
<1>4. p \in [Keys -> SUBSET Items] BY <1>2 DEF Clusterings
<1>5. EventTypes' /\ RowsRebuildVersions' /\ Grown /\ \A k \in Keys : version'[k] = version[k]
  BY <1>1, <1>3, EventsStay
<1>6. LocalTypes' BY <1>1, <1>2, <1>3, <1>4 DEF LocalTypes, Stages
<1>7. PipelineOK(h)'
  <2>1. PipelineOK(h) BY <1>1 DEF HandlerOK
  <2>2. \A k \in Keys : manifest'[h][k] = 0 BY <1>3, <2>1 DEF PipelineOK
  <2>3. hand'[h] = hand[h] /\ seen'[h] = seen[h] BY <1>3
  <2>4. version' = version BY <1>3 DEF event
  <2>5. hand'[h] # None => seen'[h] <= Len(version'[hand'[h]])
    BY <2>1, <2>3, <2>4 DEF PipelineOK, Number
  <2> QED BY <2>2, <2>5 DEF PipelineOK, Number
<1>8. \A g \in Handlers : g # h => Untouched(g)
  BY <1>1, <1>2, <1>3 DEF LocalTypes, Untouched, Carriers
<1> QED BY <1>3, <1>5, <1>6, <1>7, <1>8, PipelineMoves, LeasesStay

(* The number that is read is current then.                                *)
LEMMA ReadStep ==
  ASSUME EventInv, NEW h \in Pipelines, NEW k \in Keys, ReadEvent(h, k)
  PROVE  EventInv' /\ Grown
<1>1. EventTypes /\ LeaseTypes /\ LocalTypes /\ RowsRebuildVersions /\ HandlerOK(h) /\ h \in Handlers
  BY EventInvParts DEF Handlers
<1>2. /\ at[h] \in {"plan", "publish"}
      /\ hand' = [hand EXCEPT ![h] = k] /\ seen' = [seen EXCEPT ![h] = Number(k)]
      /\ UNCHANGED event /\ UNCHANGED leases /\ UNCHANGED <<at, plan, todo, manifest, cut>>
      /\ UNCHANGED candidate
  BY DEF ReadEvent, pipeline
<1>3. EventTypes' /\ RowsRebuildVersions' /\ Grown /\ \A l \in Keys : version'[l] = version[l]
  BY <1>1, <1>2, EventsStay
<1>4. Number(k) \in Numbers BY <1>1 DEF EventTypes
<1>5. LocalTypes' BY <1>1, <1>2, <1>4 DEF LocalTypes
<1>6. PipelineOK(h)'
  <2>1. PipelineOK(h) BY <1>1 DEF HandlerOK
  <2>2. h \in Carriers BY DEF Carriers
  <2>3. hand'[h] = k /\ seen'[h] = Number(k) BY <1>1, <1>2, <2>2 DEF LocalTypes
  <2>4. seen'[h] <= Len(version'[k])
    <3>1. Number(k) \in Nat BY <1>4 DEF Numbers
    <3> QED BY <1>3, <2>3, <3>1 DEF Number
  <2>5. \A l \in Keys : manifest'[h][l] # 0 =>
          \E n \in manifest'[h][l]..Len(version'[l]) : version'[l][n] = plan'[h][l]
    BY <1>2, <1>3, <2>1 DEF PipelineOK, Number
  <2>6. at'[h] # "start" BY <1>2
  <2> QED BY <2>3, <2>4, <2>5, <2>6 DEF PipelineOK, Number
<1>7. \A g \in Handlers : g # h => Untouched(g)
  BY <1>1, <1>2 DEF LocalTypes, Untouched, Carriers
<1> QED BY <1>2, <1>3, <1>5, <1>6, <1>7, PipelineMoves, LeasesStay

(* What a pipeline puts into its manifest: the members it wants are those  *)
(* of the version named, or of a later one.                                *)
LEMMA CaptureStep ==
  ASSUME EventInv, NEW h \in Pipelines, NEW k \in Keys, k = hand[h], at[h] \in {"plan", "publish"},
         EventTypes', RowsRebuildVersions', Grown, LeaseTypes',
         NEW n \in Numbers, Captured(h, k, n),
         \E v \in n..Number(k)' : version'[k][v] = plan[h][k],
         todo' = [todo EXCEPT ![h] = todo[h] \ {k}], PutDown(h),
         UNCHANGED <<at, plan, cut, candidate>>
  PROVE  EventInv' /\ Grown
<1>1. LocalTypes /\ EventTypes /\ HandlerOK(h) /\ h \in Handlers /\ h \in Carriers
  BY EventInvParts DEF Handlers, Carriers
<1>2. /\ manifest' = [manifest EXCEPT ![h][k] = n]
      /\ hand' = [hand EXCEPT ![h] = None] /\ seen' = [seen EXCEPT ![h] = 0]
  BY DEF Captured, PutDown
<1>3. manifest[h] \in [Keys -> Numbers] BY <1>1 DEF LocalTypes
<1>4. /\ manifest'[h] = [manifest[h] EXCEPT ![k] = n]
      /\ \A g \in Pipelines : g # h => manifest'[g] = manifest[g]
  BY <1>1, <1>2 DEF LocalTypes
<1>5. LocalTypes'
  <2>1. manifest' \in [Pipelines -> [Keys -> Numbers]] BY <1>1, <1>2, <1>3 DEF LocalTypes
  <2>2. hand' \in [Carriers -> Keys \cup {None}] /\ seen' \in [Carriers -> Numbers]
    BY <1>1, <1>2, NoneIsNone DEF LocalTypes
  <2>3. todo' \in [Pipelines -> SUBSET Keys] BY <1>1 DEF LocalTypes
  <2> QED BY <1>1, <2>1, <2>2, <2>3 DEF LocalTypes
<1>6. PipelineOK(h)'
  <2>1. PipelineOK(h) BY <1>1 DEF HandlerOK
  <2>2. hand'[h] = None BY <1>1, <1>2 DEF LocalTypes
  <2>3. ASSUME NEW l \in Keys, manifest'[h][l] # 0
        PROVE  \E v \in manifest'[h][l]..Len(version'[l]) : version'[l][v] = plan'[h][l]
    <3>1. CASE l = k BY <1>3, <1>4, <3>1 DEF Number
    <3>2. CASE l # k
      <4>1. manifest'[h][l] = manifest[h][l] /\ manifest[h][l] \in Nat /\ manifest[h][l] # 0
        BY <1>3, <1>4, <2>3, <3>2 DEF Numbers
      <4>2. PICK v \in manifest[h][l]..Number(l) : version[l][v] = plan[h][l]
        BY <2>1, <4>1 DEF PipelineOK
      <4>3. Number(l) \in Nat /\ Len(version'[l]) \in Nat /\ Number(l) <= Len(version'[l])
            /\ \A i \in 1..Number(l) : version'[l][i] = version[l][i]
        BY <1>1 DEF EventTypes, Grown, Number
      <4>4. v \in 1..Number(l) /\ v \in manifest[h][l]..Len(version'[l]) BY <4>1, <4>2, <4>3
      <4> QED BY <4>1, <4>2, <4>3, <4>4
    <3> QED BY <3>1, <3>2
  <2> QED BY <2>2, <2>3 DEF PipelineOK, Number
<1>7. \A g \in Handlers : g # h => Untouched(g)
  BY <1>1, <1>2, <1>4 DEF LocalTypes, Untouched, Carriers
<1> QED BY <1>5, <1>6, <1>7, PipelineMoves

(* A version seen earlier whose members are still wanted.                  *)
LEMMA SameIsPublished ==
  ASSUME EventInv, NEW h \in Pipelines, NEW k \in Keys, k = hand[h], SameMembership(h, k), UNCHANGED event
  PROVE  seen[h] \in Numbers /\ \E v \in seen[h]..Number(k)' : version'[k][v] = plan[h][k]
<1>1. /\ EventTypes /\ LocalTypes /\ RowsRebuildVersions /\ HandlerOK(h) BY EventInvParts DEF Handlers
<1>2. h \in Carriers /\ k # None BY NoneIsNone DEF Carriers
<1>3. seen[h] \in Numbers BY <1>1, <1>2 DEF LocalTypes
<1>5. seen[h] # 0 /\ Active(k) = plan[h][k] BY DEF SameMembership
<1>6. seen[h] <= Number(k) BY <1>1, <1>2 DEF HandlerOK, PipelineOK
<1>7. Number(k) \in Nat /\ (Number(k) # 0 => Active(k) = version[k][Number(k)]) BY <1>1, ActiveAreLast
<1>8. seen[h] \in Nat BY <1>3 DEF Numbers
<1>9. Number(k) # 0 /\ Number(k) \in seen[h]..Number(k) BY <1>5, <1>6, <1>7, <1>8
<1>10. version' = version BY DEF event
<1>11. Number(k)' = Number(k) BY <1>10 DEF Number
<1>12. version'[k][Number(k)] = plan[h][k] BY <1>5, <1>7, <1>9, <1>10
<1> QED BY <1>3, <1>9, <1>11, <1>12

(* First phase of a candidate: captured, or left to be published.          *)
LEMMA PlanStep == ASSUME EventInv, NEW h \in Pipelines, PlanCandidate(h) PROVE EventInv' /\ Grown
<1>1. EventTypes /\ LeaseTypes /\ LocalTypes /\ RowsRebuildVersions /\ HandlerOK(h) /\ h \in Carriers
  BY EventInvParts DEF Handlers, Carriers
<1>2. hand[h] \in Keys BY <1>1 DEF PlanCandidate, LocalTypes
<1>3. PICK k \in Keys : k = hand[h] BY <1>2
<1>4. /\ at[h] = "plan" /\ todo' = [todo EXCEPT ![h] = todo[h] \ {k}] /\ PutDown(h)
      /\ UNCHANGED event /\ UNCHANGED leases /\ UNCHANGED <<at, plan, cut, candidate>>
      /\ IF SameMembership(h, k) THEN Captured(h, k, seen[h]) ELSE UNCHANGED manifest
  BY <1>3 DEF PlanCandidate
<1>5. EventTypes' /\ RowsRebuildVersions' /\ Grown /\ \A l \in Keys : version'[l] = version[l]
  BY <1>1, <1>4, EventsStay
<1>6. LeaseTypes' BY <1>4, LeasesStay
<1>7. CASE SameMembership(h, k)
  <2>1. PICK n \in Numbers : n = seen[h] /\ \E v \in n..Number(k)' : version'[k][v] = plan[h][k]
    BY <1>3, <1>4, <1>7, SameIsPublished
  <2>2. Captured(h, k, n) BY <1>4, <1>7, <2>1
  <2> QED BY <1>3, <1>4, <1>5, <1>6, <2>1, <2>2, CaptureStep
<1>8. CASE ~SameMembership(h, k)
  <2>1. UNCHANGED manifest /\ hand' = [hand EXCEPT ![h] = None] /\ seen' = [seen EXCEPT ![h] = 0]
    BY <1>4, <1>8 DEF PutDown
  <2>2. LocalTypes' BY <1>1, <1>4, <2>1, NoneIsNone DEF LocalTypes
  <2>3. PipelineOK(h)'
    <3>1. PipelineOK(h) BY <1>1 DEF HandlerOK
    <3>2. hand'[h] = None /\ at'[h] = "plan" BY <1>1, <1>4, <2>1 DEF LocalTypes
    <3>3. \A l \in Keys : manifest'[h][l] # 0 =>
            \E v \in manifest'[h][l]..Len(version'[l]) : version'[l][v] = plan'[h][l]
      BY <1>4, <1>5, <2>1, <3>1 DEF PipelineOK, Number
    <3> QED BY <3>2, <3>3 DEF PipelineOK, Number
  <2>4. \A g \in Handlers : g # h => Untouched(g)
    BY <1>1, <1>4, <2>1 DEF LocalTypes, Untouched, Carriers
  <2> QED BY <1>4, <1>5, <1>6, <2>2, <2>3, <2>4, PipelineMoves
<1> QED BY <1>7, <1>8

(* Between the phases nothing is published.                                *)
LEMMA EnrichStep == ASSUME EventInv, NEW h \in Pipelines, Enrich(h) PROVE EventInv' /\ Grown
<1>1. EventTypes /\ LeaseTypes /\ LocalTypes /\ RowsRebuildVersions /\ HandlerOK(h) /\ h \in Handlers
  BY EventInvParts DEF Handlers
<1>2. /\ at' = [at EXCEPT ![h] = "publish"]
      /\ todo' = [todo EXCEPT ![h] = {k \in Keys : plan[h][k] # {} /\ manifest[h][k] = 0}]
      /\ hand[h] = None
      /\ UNCHANGED event /\ UNCHANGED leases /\ UNCHANGED <<plan, manifest, hand, seen, cut>>
      /\ UNCHANGED candidate
  BY DEF Enrich, Goes, local
<1>3. EventTypes' /\ RowsRebuildVersions' /\ Grown /\ \A l \in Keys : version'[l] = version[l]
  BY <1>1, <1>2, EventsStay
<1>4. LocalTypes' BY <1>1, <1>2 DEF LocalTypes, Stages
<1>5. PipelineOK(h)'
  <2>1. PipelineOK(h) BY <1>1 DEF HandlerOK
  <2>2. hand'[h] = None /\ at'[h] = "publish" BY <1>1, <1>2 DEF LocalTypes
  <2>3. \A l \in Keys : manifest'[h][l] # 0 =>
          \E v \in manifest'[h][l]..Len(version'[l]) : version'[l][v] = plan'[h][l]
    BY <1>2, <1>3, <2>1 DEF PipelineOK, Number
  <2> QED BY <2>2, <2>3 DEF PipelineOK, Number
<1>6. \A g \in Handlers : g # h => Untouched(g)
  BY <1>1, <1>2 DEF LocalTypes, Untouched, Carriers
<1> QED BY <1>2, <1>3, <1>4, <1>5, <1>6, PipelineMoves, LeasesStay

(* Second phase of a candidate that needs no version any more.             *)
LEMMA CaptureSameStep ==
  ASSUME EventInv, NEW h \in Pipelines, CaptureSame(h)
  PROVE  EventInv' /\ Grown
<1>1. EventTypes /\ LocalTypes /\ RowsRebuildVersions /\ h \in Carriers
  BY EventInvParts DEF Carriers
<1>2. PICK k \in Keys : k = hand[h] BY <1>1 DEF CaptureSame, LocalTypes
<1>3. /\ at[h] = "publish" /\ todo' = [todo EXCEPT ![h] = todo[h] \ {k}] /\ PutDown(h)
      /\ UNCHANGED event /\ UNCHANGED leases /\ UNCHANGED <<at, plan, cut, candidate>>
      /\ SameMembership(h, k) /\ Captured(h, k, seen[h])
  BY <1>2 DEF CaptureSame
<1>4. EventTypes' /\ RowsRebuildVersions' /\ Grown BY <1>1, <1>3, EventsStay
<1>5. LeaseTypes' BY <1>3, LeasesStay
<1>6. PICK n \in Numbers : n = seen[h] /\ \E v \in n..Number(k)' : version'[k][v] = plan[h][k]
  BY <1>2, <1>3, SameIsPublished
<1>7. Captured(h, k, n) BY <1>3, <1>6
<1> QED BY <1>2, <1>3, <1>4, <1>5, <1>6, <1>7, CaptureStep

(* A candidate that another transaction has published.                     *)
LEMMA ReuseStep == ASSUME EventInv, NEW h \in Pipelines, ReuseCollided(h) PROVE EventInv' /\ Grown
<1>1. EventTypes /\ LocalTypes /\ RowsRebuildVersions /\ h \in Carriers
  BY EventInvParts DEF Carriers
<1>2. PICK k \in Keys : k = hand[h] BY <1>1 DEF ReuseCollided, LocalTypes
<1>3. /\ at[h] = "publish" /\ todo' = [todo EXCEPT ![h] = todo[h] \ {k}] /\ PutDown(h)
      /\ UNCHANGED event /\ UNCHANGED leases /\ UNCHANGED <<at, plan, cut, candidate>>
      /\ Number(k) # 0 /\ Active(k) = plan[h][k] /\ Captured(h, k, Number(k))
  BY <1>2 DEF ReuseCollided
<1>4. EventTypes' /\ RowsRebuildVersions' /\ Grown /\ version'[k] = version[k]
  BY <1>1, <1>3, EventsStay
<1>5. LeaseTypes' BY <1>3, LeasesStay
<1>6. PICK n \in Numbers : n = Number(k) BY <1>1 DEF EventTypes
<1>7. version[k][n] = plan[h][k] /\ n \in Nat BY <1>1, <1>3, <1>6, ActiveAreLast
<1>8. \E v \in n..Number(k)' : version'[k][v] = plan[h][k] BY <1>4, <1>6, <1>7 DEF Number
<1>9. Captured(h, k, n) BY <1>3, <1>6
<1> QED BY <1>2, <1>3, <1>4, <1>5, <1>6, <1>8, <1>9, CaptureStep

(* Publication by a pipeline: the version it names is the one it has made. *)
LEMMA PublishStep ==
  ASSUME EventInv, NEW h \in Pipelines, NEW k \in Keys, k = hand[h], at[h] = "publish",
         Published([l \in {k} |-> plan[h][k]], {}), Captured(h, k, Number(k) + 1), LeaseTypes',
         todo' = [todo EXCEPT ![h] = todo[h] \ {k}], PutDown(h), UNCHANGED <<at, plan, cut, candidate>>
  PROVE  EventInv' /\ Grown
<1>1. EventTypes /\ LocalTypes /\ RowsRebuildVersions BY EventInvParts
<1>2. PICK D \in SUBSET Keys : D = {k} OBVIOUS
<1>3. plan[h][k] \in SUBSET Items BY <1>1 DEF LocalTypes
<1>4. PICK p \in [D -> SUBSET Items] : p = [l \in {k} |-> plan[h][k]] BY <1>2, <1>3
<1>5. Published(p, {}) BY <1>4
<1>6. /\ EventTypes' /\ RowsRebuildVersions' /\ Grown
      /\ \A l \in D : /\ Number(l) \in Nat /\ Number(l)' = Number(l) + 1 /\ Number(l) + 1 \in Numbers
                      /\ version'[l][Number(l) + 1] = p[l]
  BY <1>1, <1>5, PublishGrows
<1>7. PICK n \in Numbers : n = Number(k) + 1 BY <1>2, <1>6
<1>8. Captured(h, k, n) BY <1>7
<1>9. version'[k][n] = plan[h][k] /\ Number(k)' = n /\ n \in Nat BY <1>2, <1>4, <1>6, <1>7
<1>10. \E v \in n..Number(k)' : version'[k][v] = plan[h][k] BY <1>9
<1> QED BY <1>6, <1>8, <1>10, CaptureStep

(* A candidate is published as the next version of its event.              *)
LEMMA PublishCandidateStep ==
  ASSUME EventInv, NEW h \in Pipelines, PublishCandidate(h)
  PROVE  EventInv' /\ Grown
<1>1. LeaseTypes /\ LocalTypes /\ h \in Carriers BY EventInvParts DEF Carriers
<1>2. PICK k \in Keys : k = hand[h] BY <1>1 DEF PublishCandidate, LocalTypes
<1>3. /\ at[h] = "publish" /\ Published([l \in {k} |-> plan[h][k]], {}) /\ Captured(h, k, Number(k) + 1)
      /\ lease' = [lease EXCEPT ![k] = None] /\ open' = [open EXCEPT ![k] = FALSE]
      /\ todo' = [todo EXCEPT ![h] = todo[h] \ {k}] /\ PutDown(h) /\ UNCHANGED <<at, plan, cut, candidate>>
  BY <1>2 DEF PublishCandidate
<1>4. LeaseTypes' BY <1>1, <1>3 DEF LeaseTypes
<1> QED BY <1>2, <1>3, <1>4, PublishStep

(* ... or as the first of a new one.                                       *)
LEMMA PublishNewStep ==
  ASSUME EventInv, NEW h \in Pipelines, PublishNew(h)
  PROVE  EventInv' /\ Grown
<1>1. LocalTypes /\ h \in Carriers BY EventInvParts DEF Carriers
<1>2. PICK k \in Keys : k = hand[h] BY <1>1 DEF PublishNew, LocalTypes
<1>3. /\ at[h] = "publish" /\ Published([l \in {k} |-> plan[h][k]], {}) /\ Captured(h, k, Number(k) + 1)
      /\ UNCHANGED leases
      /\ todo' = [todo EXCEPT ![h] = todo[h] \ {k}] /\ PutDown(h) /\ UNCHANGED <<at, plan, cut, candidate>>
  BY <1>2 DEF PublishNew
<1>4. LeaseTypes' BY <1>3, LeasesStay
<1> QED BY <1>2, <1>3, <1>4, PublishStep

(* A publication that is refused ends the pipeline.                        *)
LEMMA ConflictStep ==
  ASSUME EventInv, NEW h \in Pipelines, PublicationConflict(h)
  PROVE  EventInv' /\ Grown
<1>1. Ends(h, "failed") /\ UNCHANGED event /\ UNCHANGED candidate /\ UNCHANGED leases
  BY DEF PublicationConflict
<1> QED BY <1>1, EndStep, LeasesStay DEF Handlers

(* A pipeline ends.                                                        *)
LEMMA FinishStep ==
  ASSUME EventInv, NEW h \in Pipelines, FinishPipeline(h)
  PROVE  EventInv' /\ Grown
<1>1. Ends(h, "done") /\ UNCHANGED event /\ UNCHANGED candidate /\ UNCHANGED leases
  BY DEF FinishPipeline
<1> QED BY <1>1, EndStep, LeasesStay DEF Handlers

---------------------------------------------------------------------------
(* Editors.                                                                *)

(* An editor moves and changes no event.                                   *)
LEMMA EditorMoves ==
  ASSUME EventInv, NEW h \in Editors, EditorOK(h)', LeaseTypes', LocalTypes', UNCHANGED event,
         UNCHANGED candidate, \A g \in Handlers : g # h => Untouched(g)
  PROVE  EventInv' /\ Grown
<1>1. /\ EventTypes /\ LocalTypes /\ RowsRebuildVersions
      /\ candidate \in [Candidates -> Proposals \cup {None}]
      /\ \A g \in Handlers : HandlerOK(g)
      /\ \A c \in Candidates : CandidateOK(c)
  BY EventInvParts
<1>2. EventTypes' /\ RowsRebuildVersions' /\ Grown BY <1>1, EventsStay
<1>3. h \in Handlers /\ h \notin Pipelines BY NoneIsNone DEF Handlers
<1>4. HandlerOK(h)' BY <1>3 DEF HandlerOK
<1>5. \A g \in Handlers : HandlerOK(g)' BY <1>1, <1>2, <1>3, <1>4, OneMoves
<1>6. candidate' \in [Candidates -> Proposals \cup {None}] /\ \A c \in Candidates : CandidateOK(c)'
  BY <1>1, <1>2, CandidatesStay
<1> QED BY <1>2, <1>5, <1>6 DEF EventInv

(* An action is validated, outside its lease.                              *)
LEMMA ValidateStep ==
  ASSUME EventInv, NEW h \in Editors, NEW k \in Keys, ValidateAction(h, k)
  PROVE  EventInv' /\ Grown
<1>1. EventTypes /\ LeaseTypes /\ LocalTypes /\ RowsRebuildVersions /\ h \in Carriers /\ h \in Handlers
  BY EventInvParts DEF Carriers, Handlers
<1>2. PICK members \in SUBSET Active(k) : cut' = [cut EXCEPT ![h] = members] BY DEF ValidateAction
<1>3. /\ hand' = [hand EXCEPT ![h] = k] /\ at' = [at EXCEPT ![h] = "claim"]
      /\ UNCHANGED event /\ UNCHANGED leases /\ UNCHANGED <<plan, todo, manifest, seen>>
      /\ UNCHANGED candidate
  BY DEF ValidateAction, Goes, pipeline
<1>4. members \in SUBSET Items BY <1>1, <1>2, ActiveAreLast
<1>5. LocalTypes' BY <1>1, <1>2, <1>3, <1>4 DEF LocalTypes, Stages
<1>6. EditorOK(h)' BY <1>1, <1>3, NoneIsNone DEF EditorOK, LocalTypes
<1>7. \A g \in Handlers : g # h => Untouched(g)
  BY <1>1, <1>3 DEF LocalTypes, Untouched, Carriers
<1> QED BY <1>3, <1>5, <1>6, <1>7, EditorMoves, LeasesStay

(* claim_event keeps the leases well-formed.                               *)
LEMMA ClaimedTypes ==
  ASSUME LeaseTypes, NEW h \in Handlers, NEW ks, Claimed(h, ks) PROVE LeaseTypes'
BY DEF LeaseTypes, Claimed

(* An action claims its event, or fails.                                   *)
LEMMA ClaimStep == ASSUME EventInv, NEW h \in Editors, ClaimEvent(h) PROVE EventInv' /\ Grown
<1>1. EventTypes /\ LeaseTypes /\ LocalTypes /\ HandlerOK(h) /\ h \in Carriers /\ h \in Handlers
  BY EventInvParts DEF Carriers, Handlers
<1>2. UNCHANGED event /\ UNCHANGED candidate /\ at[h] = "claim" BY DEF ClaimEvent
<1>3. CASE Claimed(h, {hand[h]}) /\ Goes(h, "edit") /\ UNCHANGED <<pipeline, local>>
  <2>1. LeaseTypes' BY <1>1, <1>3, ClaimedTypes
  <2>2. at' = [at EXCEPT ![h] = "edit"] /\ UNCHANGED <<plan, todo, manifest, hand, seen, cut>>
    BY <1>3 DEF Goes, pipeline, local
  <2>3. LocalTypes' BY <1>1, <2>2 DEF LocalTypes, Stages
  <2>4. EditorOK(h)' BY <1>1, <1>2, <2>2 DEF HandlerOK, EditorOK
  <2>5. \A g \in Handlers : g # h => Untouched(g)
    BY <1>1, <2>2 DEF LocalTypes, Untouched, Carriers
  <2> QED BY <1>2, <2>1, <2>3, <2>4, <2>5, EditorMoves
<1>4. CASE Ends(h, "failed") /\ UNCHANGED leases
  BY <1>1, <1>2, <1>4, EndStep, LeasesStay
<1> QED BY <1>3, <1>4 DEF ClaimEvent

(* An action reads the current number.                                     *)
LEMMA ReadForStep == ASSUME EventInv, NEW h \in Editors, ReadForAction(h) PROVE EventInv' /\ Grown
<1>1. EventTypes /\ LeaseTypes /\ LocalTypes /\ HandlerOK(h) /\ h \in Carriers /\ h \in Handlers
  BY EventInvParts DEF Carriers, Handlers
<1>2. /\ at[h] = "edit" /\ at' = [at EXCEPT ![h] = "write"] /\ seen' = [seen EXCEPT ![h] = Number(hand[h])]
      /\ UNCHANGED event /\ UNCHANGED leases /\ UNCHANGED <<plan, todo, manifest, hand, cut>>
      /\ UNCHANGED candidate
  BY DEF ReadForAction, Goes, pipeline
<1>3. hand[h] # None BY <1>1, <1>2 DEF HandlerOK, EditorOK
<1>4. hand[h] \in Keys BY <1>1, <1>3 DEF LocalTypes
<1>5. Number(hand[h]) \in Numbers BY <1>1, <1>4 DEF EventTypes
<1>6. LocalTypes' BY <1>1, <1>2, <1>5 DEF LocalTypes, Stages
<1>7. EditorOK(h)' BY <1>2, <1>3 DEF EditorOK
<1>8. \A g \in Handlers : g # h => Untouched(g)
  BY <1>1, <1>2 DEF LocalTypes, Untouched, Carriers
<1> QED BY <1>2, <1>6, <1>7, <1>8, EditorMoves, LeasesStay

(* A split publishes a version of each of two events.                      *)
LEMMA SplitGrows ==
  ASSUME EventTypes, RowsRebuildVersions, NEW k \in Keys, NEW members \in SUBSET Items, Split(k, members)
  PROVE  EventTypes' /\ RowsRebuildVersions' /\ Grown
<1>1. PICK other \in Keys \ {k} :
        Published([l \in {k, other} |-> IF l = k THEN Active(k) \ members ELSE members], {})
  BY DEF Split
<1>2. PICK D \in SUBSET Keys : D = {k, other} OBVIOUS
<1>3. Active(k) \in SUBSET Items BY ActiveAreLast
<1>4. PICK p \in [D -> SUBSET Items] :
        p = [l \in {k, other} |-> IF l = k THEN Active(k) \ members ELSE members]
  BY <1>2, <1>3
<1>5. Published(p, {}) BY <1>1, <1>4
<1> QED BY <1>5, PublishGrows

(* A version with the members of the one before.                           *)
LEMMA ReissueGrows ==
  ASSUME EventTypes, RowsRebuildVersions, NEW k \in Keys, Reissued(k)
  PROVE  EventTypes' /\ RowsRebuildVersions' /\ Grown
<1>1. PICK D \in SUBSET Keys : D = {k} OBVIOUS
<1>2. Active(k) \in SUBSET Items BY ActiveAreLast
<1>3. PICK p \in [D -> SUBSET Items] : p = [l \in {k} |-> Active(k)] BY <1>1, <1>2
<1>4. Published(p, {}) BY <1>3 DEF Reissued
<1> QED BY <1>4, PublishGrows

(* An action publishes, releases and ends.                                 *)
LEMMA ApplyActionStep ==
  ASSUME EventInv, NEW h \in Editors, ApplyAction(h)
  PROVE  EventInv' /\ Grown
<1>1. /\ EventTypes /\ LeaseTypes /\ LocalTypes /\ RowsRebuildVersions
      /\ candidate \in [Candidates -> Proposals \cup {None}]
      /\ \A g \in Handlers : HandlerOK(g)
      /\ \A c \in Candidates : CandidateOK(c)
      /\ h \in Handlers /\ h \in Carriers
  BY EventInvParts DEF Handlers, Carriers
<1>2. hand[h] # None BY <1>1 DEF ApplyAction, HandlerOK, EditorOK
<1>3. PICK k \in Keys : k = hand[h] BY <1>1, <1>2 DEF LocalTypes
<1>4. /\ IF cut[h] # {} THEN Split(k, cut[h]) ELSE Reissued(k) \/ Reclustered(k)
      /\ Released(h) /\ Ends(h, "done") /\ UNCHANGED candidate
  BY <1>3 DEF ApplyAction
<1>5. EventTypes' /\ RowsRebuildVersions' /\ Grown
  <2>1. CASE cut[h] # {}
    <3>1. cut[h] \in SUBSET Items BY <1>1 DEF LocalTypes
    <3> QED BY <1>1, <1>4, <2>1, <3>1, SplitGrows
  <2>2. CASE cut[h] = {} /\ Reissued(k) BY <1>1, <2>2, ReissueGrows
  <2>3. CASE cut[h] = {} /\ Reclustered(k)
    <3>1. CASE UNCHANGED event BY <1>1, <3>1, EventsStay
    <3>2. CASE \E members \in (SUBSET Active(k)) \ {{}, Active(k)} : Split(k, members)
      <4>1. PICK members \in SUBSET Active(k) : Split(k, members) BY <3>2
      <4>2. members \in SUBSET Items BY <1>1, <4>1, ActiveAreLast
      <4> QED BY <1>1, <4>1, <4>2, SplitGrows
    <3> QED BY <2>3, <3>1, <3>2 DEF Reclustered
  <2> QED BY <1>4, <2>1, <2>2, <2>3
<1>6. LocalTypes' /\ \A g \in Handlers : HandlerOK(g)' BY <1>1, <1>4, <1>5, HandlerEnds
<1>7. LeaseTypes' BY <1>1, <1>4, LeasesReleased
<1>8. candidate' \in [Candidates -> Proposals \cup {None}] /\ \A c \in Candidates : CandidateOK(c)'
  BY <1>1, <1>4, <1>5, CandidatesStay
<1> QED BY <1>5, <1>6, <1>7, <1>8 DEF EventInv

(* An action fails and releases.                                           *)
LEMMA ActionFailsStep ==
  ASSUME EventInv, NEW h \in Editors, ActionFails(h)
  PROVE  EventInv' /\ Grown
<1>1. LeaseTypes /\ h \in Handlers BY EventInvParts DEF Handlers
<1>2. Released(h) /\ Ends(h, "failed") /\ UNCHANGED event /\ UNCHANGED candidate BY DEF ActionFails
<1>3. LeaseTypes' BY <1>1, <1>2, LeasesReleased
<1> QED BY <1>1, <1>2, <1>3, EndStep

---------------------------------------------------------------------------
(* Merges.                                                                 *)

(* A decider moves, and keeps nothing.                                     *)
LEMMA DeciderMoves ==
  ASSUME EventInv, EventTypes', Grown, NEW h \in Deciders, NEW s \in Stages, Goes(h, s),
         UNCHANGED <<pipeline, local>>
  PROVE  LocalTypes' /\ \A g \in Handlers : HandlerOK(g)'
<1>1. /\ EventTypes /\ LocalTypes /\ \A g \in Handlers : HandlerOK(g)
      /\ h \in Handlers /\ h \notin Carriers
  BY EventInvParts, NoneIsNone DEF Handlers
<1>2. at' = [at EXCEPT ![h] = s] /\ UNCHANGED <<plan, todo, manifest, hand, seen, cut>>
  BY DEF Goes, pipeline, local
<1>3. LocalTypes' BY <1>1, <1>2 DEF LocalTypes
<1>4. HandlerOK(h)' BY <1>1 DEF HandlerOK, Carriers
<1>5. \A g \in Handlers : g # h => Untouched(g) BY <1>1, <1>2 DEF Untouched, LocalTypes
<1> QED BY <1>1, <1>3, <1>4, <1>5, OneMoves

(* The status of a candidate changes, to anything but applied.             *)
LEMMA CandidateMarked ==
  ASSUME EventInv, EventTypes', Grown, NEW c \in Candidates, candidate[c] # None,
         NEW x \in Proposals, candidate' = [candidate EXCEPT ![c] = x],
         x.left = candidate[c].left, x.right = candidate[c].right,
         x.lv = candidate[c].lv, x.rv = candidate[c].rv, x.status # "applied"
  PROVE  /\ candidate' \in [Candidates -> Proposals \cup {None}]
         /\ \A d \in Candidates : CandidateOK(d)'
<1>1. /\ EventTypes /\ candidate \in [Candidates -> Proposals \cup {None}]
      /\ \A d \in Candidates : CandidateOK(d)
  BY EventInvParts
<1>2. candidate'[c] = x BY <1>1
<1>3. ASSUME NEW d \in Candidates PROVE CandidateOK(d)'
  <2>1. CASE d = c BY <1>1, <1>2, <2>1, CandidateStays
  <2>2. CASE d # c
    <3>1. candidate'[d] = candidate[d] BY <1>1, <2>2
    <3>2. CASE candidate[d] = None BY <3>1, <3>2 DEF CandidateOK
    <3>3. CASE candidate[d] # None
      <4>1. candidate[d] \in Proposals BY <1>1, <3>3
      <4> QED BY <1>1, <3>1, <4>1, CandidateStays
    <3> QED BY <3>2, <3>3
  <2> QED BY <2>1, <2>2
<1> QED BY <1>1, <1>3

Results == {"pending", "confirmed", "dismissed", "expired"}

(* The decision of a handler is such a change.                             *)
LEMMA CandidateReviewed ==
  ASSUME EventInv, EventTypes', Grown, NEW c \in Candidates, candidate[c] # None,
         NEW s \in Results, NEW h \in Handlers, Reviewed(h, c, s)
  PROVE  /\ candidate' \in [Candidates -> Proposals \cup {None}]
         /\ \A d \in Candidates : CandidateOK(d)'
<1>1. candidate \in [Candidates -> Proposals \cup {None}] BY EventInvParts
<1>2. PICK r \in Proposals : r = candidate[c] BY <1>1
<1>3. PICK x : x = [r EXCEPT !.status = s, !.by = h] OBVIOUS
<1>4. /\ x \in Proposals /\ x.left = r.left /\ x.right = r.right /\ x.lv = r.lv /\ x.rv = r.rv
      /\ x.status # "applied"
  BY <1>2, <1>3 DEF Proposals, Results
<1>5. candidate' = [candidate EXCEPT ![c] = x] BY <1>1, <1>2, <1>3 DEF Reviewed
<1> QED BY <1>2, <1>4, <1>5, CandidateMarked

(* ... and so is that a candidate expires.                                 *)
LEMMA CandidateExpired ==
  ASSUME EventInv, EventTypes', Grown, NEW c \in Candidates, candidate[c] # None, Marked(c, "expired")
  PROVE  /\ candidate' \in [Candidates -> Proposals \cup {None}]
         /\ \A d \in Candidates : CandidateOK(d)'
<1>1. candidate \in [Candidates -> Proposals \cup {None}] BY EventInvParts
<1>2. PICK r \in Proposals : r = candidate[c] BY <1>1
<1>3. PICK x : x = [r EXCEPT !.status = "expired"] OBVIOUS
<1>4. /\ x \in Proposals /\ x.left = r.left /\ x.right = r.right /\ x.lv = r.lv /\ x.rv = r.rv
      /\ x.status # "applied"
  BY <1>2, <1>3 DEF Proposals
<1>5. candidate' = [candidate EXCEPT ![c] = x] BY <1>1, <1>2, <1>3 DEF Marked
<1> QED BY <1>2, <1>4, <1>5, CandidateMarked

(* A candidate expires.                                                    *)
LEMMA ExpireStep == ASSUME EventInv, NEW c \in Candidates, ExpireStale(c) PROVE EventInv' /\ Grown
<1>1. /\ EventTypes /\ LeaseTypes /\ LocalTypes /\ RowsRebuildVersions /\ \A g \in Handlers : HandlerOK(g)
  BY EventInvParts
<1>2. /\ candidate[c] # None /\ Marked(c, "expired") /\ UNCHANGED event /\ UNCHANGED leases
      /\ UNCHANGED <<at, pipeline, local>>
  BY DEF ExpireStale
<1>3. EventTypes' /\ RowsRebuildVersions' /\ Grown BY <1>1, <1>2, EventsStay
<1>4. LocalTypes' /\ \A g \in Handlers : HandlerOK(g)' BY <1>1, <1>2, <1>3, AllStay
<1>5. LeaseTypes' BY <1>2, LeasesStay
<1>6. candidate' \in [Candidates -> Proposals \cup {None}] /\ \A d \in Candidates : CandidateOK(d)'
  BY <1>2, <1>3, CandidateExpired
<1> QED BY <1>3, <1>4, <1>5, <1>6 DEF EventInv

(* A new candidate names versions that are there.                          *)
LEMMA ProposeStep ==
  ASSUME EventInv, NEW c \in Candidates, NEW k \in Keys, NEW l \in Keys, ProposeMerge(c, k, l)
  PROVE  EventInv' /\ Grown
<1>1. /\ EventTypes /\ LeaseTypes /\ LocalTypes /\ RowsRebuildVersions /\ \A g \in Handlers : HandlerOK(g)
      /\ candidate \in [Candidates -> Proposals \cup {None}]
      /\ \A d \in Candidates : CandidateOK(d)
  BY EventInvParts
<1>2. PICK kv \in Facts(k), lv \in Facts(l) : Proposed(c, k, l, kv, lv) BY DEF ProposeMerge
<1>3. PICK manual \in BOOLEAN :
        candidate' = [candidate EXCEPT ![c] =
          [left |-> k, right |-> l, lv |-> kv, rv |-> lv, manual |-> manual,
           status |-> "pending", by |-> None]]
  BY <1>2 DEF Proposed
<1>4. k # l /\ UNCHANGED event /\ UNCHANGED leases /\ UNCHANGED <<at, pipeline, local>> BY DEF ProposeMerge
<1>5. EventTypes' /\ RowsRebuildVersions' /\ Grown /\ \A e \in Keys : version'[e] = version[e]
  BY <1>1, <1>4, EventsStay
<1>6. LocalTypes' /\ \A g \in Handlers : HandlerOK(g)' BY <1>1, <1>4, <1>5, AllStay
<1>7. LeaseTypes' BY <1>4, LeasesStay
<1>8. kv \in 1..Number(k) /\ lv \in 1..Number(l) /\ Number(k) \in Numbers /\ Number(l) \in Numbers
  BY <1>1, <1>2 DEF Facts, EventTypes
<1>9. kv \in Numbers /\ lv \in Numbers BY <1>8, EventAssumption DEF Numbers
<1> DEFINE x == [left |-> k, right |-> l, lv |-> kv, rv |-> lv, manual |-> manual,
                 status |-> "pending", by |-> None]
<1>10. x \in Proposals BY <1>9 DEF Proposals
<1>11. /\ x.left = k /\ x.right = l /\ x.lv = kv /\ x.rv = lv /\ x.status = "pending"
       /\ candidate' = [candidate EXCEPT ![c] = x]
  BY <1>3
<1> HIDE DEF x
<1>12. candidate' \in [Candidates -> Proposals \cup {None}] /\ candidate'[c] = x BY <1>1, <1>10, <1>11
<1>13. ASSUME NEW d \in Candidates PROVE CandidateOK(d)'
  <2>1. CASE d = c
    BY <1>4, <1>5, <1>8, <1>11, <1>12, <2>1 DEF CandidateOK, Number
  <2>2. CASE d # c
    <3>1. candidate'[d] = candidate[d] BY <1>1, <1>11, <2>2
    <3>2. CASE candidate[d] = None BY <3>1, <3>2 DEF CandidateOK
    <3>3. CASE candidate[d] # None
      <4>1. candidate[d] \in Proposals BY <1>1, <3>3
      <4> QED BY <1>1, <1>5, <3>1, <4>1, CandidateStays
    <3> QED BY <3>2, <3>3
  <2> QED BY <2>1, <2>2
<1> QED BY <1>5, <1>6, <1>7, <1>12, <1>13 DEF EventInv

(* Decisions that change no event.                                         *)
LEMMA Decided ==
  ASSUME EventInv, NEW h \in Deciders, NEW s \in Stages, Goes(h, s), UNCHANGED event, LeaseTypes',
         UNCHANGED <<pipeline, local>>, candidate' \in [Candidates -> Proposals \cup {None}],
         \A d \in Candidates : CandidateOK(d)'
  PROVE  EventInv' /\ Grown
<1>1. EventTypes /\ RowsRebuildVersions BY EventInvParts
<1>2. EventTypes' /\ RowsRebuildVersions' /\ Grown BY <1>1, EventsStay
<1>3. LocalTypes' /\ \A g \in Handlers : HandlerOK(g)' BY <1>2, DeciderMoves
<1> QED BY <1>2, <1>3 DEF EventInv

(* EventsStay, from the invariant.                                         *)
LEMMA QuietFacts ==
  ASSUME EventInv, UNCHANGED event
  PROVE  EventTypes' /\ RowsRebuildVersions' /\ Grown
BY EventInvParts, EventsStay

(* A candidate is dismissed.                                               *)
LEMMA DismissStep ==
  ASSUME EventInv, NEW h \in Deciders, NEW c \in Candidates, Dismiss(h, c) PROVE EventInv' /\ Grown
<1>1. /\ candidate[c] # None /\ Reviewed(h, c, "dismissed") /\ Goes(h, "done") /\ UNCHANGED event
      /\ UNCHANGED leases /\ UNCHANGED <<pipeline, local>>
  BY DEF Dismiss, DecidesOn
<1>2. EventTypes' /\ Grown BY <1>1, QuietFacts
<1>3. h \in Handlers /\ "dismissed" \in Results /\ "done" \in Stages BY DEF Handlers, Results, Stages
<1>4. candidate' \in [Candidates -> Proposals \cup {None}] /\ \A d \in Candidates : CandidateOK(d)'
  BY <1>1, <1>2, <1>3, CandidateReviewed
<1> QED BY <1>1, <1>3, <1>4, Decided, LeasesStay

(* A merge begins, with a candidate that is confirmed or direct.           *)
LEMMA BeginStep ==
  ASSUME EventInv, NEW h \in Deciders, NEW c \in Candidates, BeginMerge(h, c) PROVE EventInv' /\ Grown
<1>1. /\ candidate[c] # None /\ (UNCHANGED candidate \/ Reviewed(h, c, "confirmed")) /\ Goes(h, "claim")
      /\ UNCHANGED event /\ UNCHANGED leases /\ UNCHANGED <<pipeline, local>>
  BY DEF BeginMerge, DecidesOn
<1>2. EventTypes' /\ Grown BY <1>1, QuietFacts
<1>3. h \in Handlers /\ "confirmed" \in Results /\ "claim" \in Stages BY DEF Handlers, Results, Stages
<1>4. candidate' \in [Candidates -> Proposals \cup {None}] /\ \A d \in Candidates : CandidateOK(d)'
  <2>1. CASE UNCHANGED candidate BY <1>2, <2>1, EventInvParts, CandidatesStay
  <2>2. CASE Reviewed(h, c, "confirmed") BY <1>1, <1>2, <1>3, <2>2, CandidateReviewed
  <2> QED BY <1>1, <2>1, <2>2
<1> QED BY <1>1, <1>3, <1>4, Decided, LeasesStay

(* Both events are claimed, or neither.                                    *)
LEMMA ClaimBothStep ==
  ASSUME EventInv, NEW h \in Deciders, NEW c \in Candidates, ClaimBoth(h, c) PROVE EventInv' /\ Grown
<1>1. /\ UNCHANGED event /\ UNCHANGED candidate /\ UNCHANGED <<pipeline, local>>
      /\ \/ Claimed(h, {candidate[c].left, candidate[c].right}) /\ Goes(h, "apply")
         \/ Goes(h, "failed") /\ UNCHANGED leases
  BY DEF ClaimBoth
<1>2. EventTypes' /\ Grown BY <1>1, QuietFacts
<1>3. h \in Handlers /\ "apply" \in Stages /\ "failed" \in Stages BY DEF Handlers, Stages
<1>4. candidate' \in [Candidates -> Proposals \cup {None}] /\ \A d \in Candidates : CandidateOK(d)'
  BY <1>1, <1>2, EventInvParts, CandidatesStay
<1>5. LeaseTypes BY EventInvParts
<1>6. CASE Claimed(h, {candidate[c].left, candidate[c].right}) /\ Goes(h, "apply")
  <2>1. LeaseTypes' BY <1>3, <1>5, <1>6, ClaimedTypes
  <2> QED BY <1>1, <1>3, <1>4, <1>6, <2>1, Decided
<1>7. CASE Goes(h, "failed") /\ UNCHANGED leases
  <2>1. LeaseTypes' BY <1>7, LeasesStay
  <2> QED BY <1>1, <1>3, <1>4, <1>7, <2>1, Decided
<1> QED BY <1>1, <1>6, <1>7

(* A merge fails and releases.                                             *)
LEMMA MergeFailsStep ==
  ASSUME EventInv, NEW h \in Deciders, MergeFails(h)
  PROVE  EventInv' /\ Grown
<1>1. LeaseTypes /\ h \in Handlers BY EventInvParts DEF Handlers
<1>2. Released(h) /\ Ends(h, "failed") /\ UNCHANGED event /\ UNCHANGED candidate BY DEF MergeFails
<1>3. LeaseTypes' BY <1>1, <1>2, LeasesReleased
<1> QED BY <1>1, <1>2, <1>3, EndStep

(* A candidate is replaced by one of the present versions.                 *)
LEMMA RecheckStep ==
  ASSUME EventInv, NEW h \in Deciders, NEW c \in Candidates, Recheck(h, c) PROVE EventInv' /\ Grown
<1>0. /\ EventTypes /\ candidate \in [Candidates -> Proposals \cup {None}]
      /\ \A d \in Candidates : CandidateOK(d)
  BY EventInvParts
<1>1. /\ candidate[c] # None /\ candidate[c].status = "pending" /\ Goes(h, "done") /\ UNCHANGED event
      /\ UNCHANGED leases /\ UNCHANGED <<pipeline, local>>
  BY DEF Recheck, DecidesOn
<1>2. EventTypes' /\ Grown BY <1>1, QuietFacts
<1>3. h \in Handlers /\ "expired" \in Results /\ "done" \in Stages BY DEF Handlers, Results, Stages
<1>4. candidate' \in [Candidates -> Proposals \cup {None}] /\ \A d \in Candidates : CandidateOK(d)'
  <2>1. CASE Reviewed(h, c, "expired") BY <1>1, <1>2, <1>3, <2>1, CandidateReviewed
  <2>2. ASSUME NEW manual \in BOOLEAN, NEW d \in Candidates, candidate[d] = None,
               candidate' = [candidate EXCEPT
                 ![c].status = "expired", ![c].by = h,
                 ![d] = [candidate[c] EXCEPT !.lv = Number(candidate[c].left),
                                             !.rv = Number(candidate[c].right), !.manual = manual]]
        PROVE  /\ candidate' \in [Candidates -> Proposals \cup {None}]
               /\ \A e \in Candidates : CandidateOK(e)'
    <3>1. PICK r \in Proposals : r = candidate[c] BY <1>0, <1>1
    <3>2. PICK k \in Keys, l \in Keys : k = r.left /\ l = r.right BY DEF Proposals
    <3>3. PICK n \in Numbers, m \in Numbers : n = Number(k) /\ m = Number(l) BY <1>0 DEF EventTypes
    <3>4. PICK x : x = [r EXCEPT !.status = "expired", !.by = h] OBVIOUS
    <3>5. PICK y : y = [r EXCEPT !.lv = n, !.rv = m, !.manual = manual] OBVIOUS
    <3>6. candidate' = [candidate EXCEPT ![c] = x, ![d] = y] /\ c # d
      BY <1>0, <1>1, <2>2, <3>1, <3>2, <3>3, <3>4, <3>5
    <3>7. /\ x \in Proposals /\ x.left = k /\ x.right = l /\ x.lv = r.lv /\ x.rv = r.rv /\ x.status = "expired"
      BY <1>3, <3>1, <3>2, <3>4 DEF Proposals
    <3>8. /\ y \in Proposals /\ y.left = k /\ y.right = l /\ y.lv = n /\ y.rv = m /\ y.status = "pending"
      BY <1>1, <3>1, <3>2, <3>5 DEF Proposals
    <3>9. /\ candidate'[c] = x /\ candidate'[d] = y
          /\ \A e \in Candidates : e # c /\ e # d => candidate'[e] = candidate[e]
          /\ candidate' \in [Candidates -> Proposals \cup {None}]
      BY <1>0, <3>6, <3>7, <3>8
    <3>10. /\ k # l /\ r.lv \in 1..Number(k) /\ r.rv \in 1..Number(l)
      BY <1>0, <1>1, <3>1, <3>2 DEF CandidateOK
    <3>11. version' = version BY <1>1 DEF event
    <3>12. n \in 1..Len(version'[k]) /\ m \in 1..Len(version'[l])
      <4>1. n \in Nat /\ m \in Nat /\ n = Len(version'[k]) /\ m = Len(version'[l])
        BY <3>3, <3>11 DEF Numbers, Number
      <4>2. n >= 1 /\ m >= 1 BY <3>3, <3>10, <4>1
      <4> QED BY <4>1, <4>2
    <3>13. ASSUME NEW e \in Candidates PROVE CandidateOK(e)'
      <4>1. CASE e = c
        <5>1. candidate[c] \in Proposals /\ candidate'[c] \in Proposals BY <3>1, <3>7, <3>9
        <5>2. /\ candidate'[c].left = candidate[c].left /\ candidate'[c].right = candidate[c].right
              /\ candidate'[c].lv = candidate[c].lv /\ candidate'[c].rv = candidate[c].rv
              /\ candidate'[c].status # "applied"
          BY <3>1, <3>2, <3>7, <3>9
        <5> QED BY <1>0, <1>2, <4>1, <5>1, <5>2, CandidateStays
      <4>2. CASE e = d
        BY <3>8, <3>9, <3>10, <3>12, <4>2 DEF CandidateOK, Number
      <4>3. CASE e # c /\ e # d
        <5>1. candidate'[e] = candidate[e] BY <3>9, <4>3
        <5>2. CASE candidate[e] = None BY <5>1, <5>2 DEF CandidateOK
        <5>3. CASE candidate[e] # None
          <6>1. candidate[e] \in Proposals BY <1>0, <5>3
          <6> QED BY <1>0, <1>2, <5>1, <6>1, CandidateStays
        <5> QED BY <5>2, <5>3
      <4> QED BY <4>1, <4>2, <4>3
    <3> QED BY <3>9, <3>13
  <2> QED BY <2>1, <2>2 DEF Recheck
<1>5. LeaseTypes' BY <1>1, LeasesStay
<1> QED BY <1>1, <1>3, <1>4, <1>5, Decided

(* The versions of a merge are the next after those of its candidate.      *)
LEMMA JoinGrows ==
  ASSUME EventTypes, RowsRebuildVersions, NEW c \in Candidates, candidate[c] \in Proposals, CandidateOK(c),
         StillSafe(c), Joined(c)
  PROVE  /\ EventTypes' /\ RowsRebuildVersions' /\ Grown
         /\ JoinedAfter(version'[candidate[c].left], candidate[c].lv,
                        version'[candidate[c].right], candidate[c].rv)
<1>1. PICK k \in Keys, l \in Keys, n \in Numbers, m \in Numbers :
        k = candidate[c].left /\ l = candidate[c].right /\ n = candidate[c].lv /\ m = candidate[c].rv
  BY DEF Proposals
<1>2. k # l /\ n \in 1..Number(k) /\ m \in 1..Number(l) BY <1>1, NoneIsNone DEF CandidateOK
<1>3. n = Number(k) /\ m = Number(l) BY <1>1 DEF StillSafe, Stale
<1>4. PICK survivor \in {k, l} :
        Published([e \in {k, l} |-> IF e = survivor THEN UNION {Active(f) : f \in {k, l}} ELSE {}],
                  {k, l} \ {survivor})
  BY <1>1 DEF Joined
<1>5. /\ Active(k) \in SUBSET Items /\ Active(l) \in SUBSET Items
      /\ Active(k) = version[k][n] /\ Active(l) = version[l][m]
      /\ n \in Nat /\ m \in Nat /\ n # 0 /\ m # 0
  BY <1>2, <1>3, ActiveAreLast
<1>6. PICK all \in SUBSET Items : all = Active(k) \cup Active(l) BY <1>5
<1>7. UNION {Active(f) : f \in {k, l}} = all BY <1>6
<1>8. PICK D \in SUBSET Keys : D = {k, l} OBVIOUS
<1>9. PICK p \in [D -> SUBSET Items] : p = [e \in {k, l} |-> IF e = survivor THEN all ELSE {}]
  <2>1. {} \in SUBSET Items OBVIOUS
  <2> QED BY <1>8, <2>1
<1>10. Published(p, {k, l} \ {survivor}) BY <1>4, <1>7, <1>9
<1>11. /\ EventTypes' /\ RowsRebuildVersions' /\ Grown
       /\ \A e \in D : /\ Number(e) \in Nat /\ Number(e)' = Number(e) + 1
                       /\ version'[e][Number(e) + 1] = p[e]
  BY <1>10, PublishGrows
<1>12. /\ version'[k][n + 1] = p[k] /\ version'[l][m + 1] = p[l]
       /\ Len(version'[k]) = n + 1 /\ Len(version'[l]) = m + 1
  BY <1>3, <1>8, <1>11 DEF Number
<1>13. /\ version'[k][n] = version[k][n] /\ version'[l][m] = version[l][m]
  BY <1>2, <1>11 DEF Grown
<1>14. {p[k], p[l]} = {all, {}}
  <2>1. p[k] = (IF k = survivor THEN all ELSE {}) /\ p[l] = (IF l = survivor THEN all ELSE {})
    BY <1>8, <1>9
  <2>2. CASE survivor = k BY <1>2, <2>1, <2>2
  <2>3. CASE survivor = l BY <1>2, <2>1, <2>3
  <2> QED BY <2>2, <2>3
<1>15. version'[k][n] \cup version'[l][m] = all BY <1>5, <1>6, <1>13
<1>16. JoinedAfter(version'[k], n, version'[l], m)
  <2>1. PICK a, b : a = version'[k] /\ b = version'[l] OBVIOUS
  <2>2. Len(a) > n /\ Len(b) > m BY <1>5, <1>12, <2>1
  <2>3. {a[n + 1], b[m + 1]} = {all, {}} BY ONLY <1>12, <1>14, <2>1
  <2>4. a[n] \cup b[m] = all BY <1>15, <2>1
  <2>5. JoinedAfter(a, n, b, m) BY ONLY <2>2, <2>3, <2>4 DEF JoinedAfter
  <2> QED BY <2>1, <2>5
<1> QED BY <1>1, <1>11, <1>16

(* A merge is applied to the versions reviewed, or its candidate expires.  *)
LEMMA ApplyMergeStep ==
  ASSUME EventInv, NEW h \in Deciders, NEW c \in Candidates, ApplyMerge(h, c) PROVE EventInv' /\ Grown
<1>1. /\ EventTypes /\ LeaseTypes /\ RowsRebuildVersions
      /\ candidate \in [Candidates -> Proposals \cup {None}]
      /\ \A d \in Candidates : CandidateOK(d)
  BY EventInvParts
<1>2. candidate[c] # None /\ Released(h) /\ UNCHANGED <<pipeline, local>> BY DEF ApplyMerge
<1>3. LeaseTypes' BY <1>1, <1>2, LeasesReleased
<1>4. "done" \in Stages /\ "failed" \in Stages BY DEF Stages
<1>5. CASE StillSafe(c) /\ Joined(c) /\ Marked(c, "applied") /\ Goes(h, "done")
  <2>1. PICK r \in Proposals : r = candidate[c] BY <1>1, <1>2
  <2>2. /\ EventTypes' /\ RowsRebuildVersions' /\ Grown
        /\ JoinedAfter(version'[r.left], r.lv, version'[r.right], r.rv)
    BY <1>1, <1>5, <2>1, JoinGrows
  <2>3. PICK x : x = [r EXCEPT !.status = "applied"] OBVIOUS
  <2>4. x \in Proposals /\ x.left = r.left /\ x.right = r.right /\ x.lv = r.lv /\ x.rv = r.rv
    BY <2>1, <2>3 DEF Proposals
  <2>5. candidate' = [candidate EXCEPT ![c] = x] BY <1>1, <1>5, <2>1, <2>3 DEF Marked
  <2>6. /\ candidate' \in [Candidates -> Proposals \cup {None}] /\ candidate'[c] = x
        /\ \A d \in Candidates : d # c => candidate'[d] = candidate[d]
    BY <1>1, <2>4, <2>5
  <2>7. CandidateOK(c)'
    <3>1. PICK k \in Keys, l \in Keys, n \in Numbers, m \in Numbers :
            k = r.left /\ l = r.right /\ n = r.lv /\ m = r.rv
      BY <2>1 DEF Proposals
    <3>2. k # l /\ n \in 1..Number(k) /\ m \in 1..Number(l)
      BY <1>1, <1>2, <2>1, <3>1 DEF CandidateOK
    <3>3. \A e \in Keys : Number(e) \in Nat /\ Number(e)' \in Nat /\ Number(e) <= Number(e)'
      BY <1>1, <2>2 DEF EventTypes, Number, Grown
    <3>4. n \in 1..Len(version'[k]) /\ m \in 1..Len(version'[l]) BY <3>2, <3>3 DEF Number
    <3>5. JoinedAfter(version'[k], n, version'[l], m) BY <2>2, <3>1
    <3>6. candidate'[c].left = k /\ candidate'[c].right = l /\ candidate'[c].lv = n /\ candidate'[c].rv = m
      BY <2>4, <2>6, <3>1
    <3> QED BY <3>2, <3>4, <3>5, <3>6 DEF CandidateOK, Number
  <2>8. ASSUME NEW d \in Candidates PROVE CandidateOK(d)'
    <3>1. CASE d = c BY <2>7, <3>1
    <3>2. CASE d # c /\ candidate[d] = None BY <2>6, <3>2 DEF CandidateOK
    <3>3. CASE d # c /\ candidate[d] # None
      <4>1. candidate[d] \in Proposals /\ candidate'[d] = candidate[d] BY <1>1, <2>6, <3>3
      <4> QED BY <1>1, <2>2, <4>1, CandidateStays
    <3> QED BY <3>1, <3>2, <3>3
  <2>9. LocalTypes' /\ \A g \in Handlers : HandlerOK(g)' BY <1>2, <1>4, <1>5, <2>2, DeciderMoves
  <2> QED BY <1>3, <2>2, <2>6, <2>8, <2>9 DEF EventInv
<1>6. CASE Marked(c, "expired") /\ Goes(h, "failed") /\ UNCHANGED event
  <2>1. EventTypes' /\ Grown BY <1>6, QuietFacts
  <2>2. candidate' \in [Candidates -> Proposals \cup {None}] /\ \A d \in Candidates : CandidateOK(d)'
    BY <1>2, <1>6, <2>1, CandidateExpired
  <2> QED BY <1>2, <1>3, <1>4, <1>6, <2>2, Decided
<1> QED BY <1>5, <1>6 DEF ApplyMerge

(* Every step keeps the invariant, and the versions.                       *)
LEMMA EventStep == EventInv /\ [Next]_vars => EventInv' /\ Grown
<1> SUFFICES ASSUME EventInv, [Next]_vars PROVE EventInv' /\ Grown
  OBVIOUS
<1>1. ASSUME NEW k \in Keys, LeaseExpires(k) PROVE EventInv' /\ Grown BY <1>1, LeaseStep
<1>2. ASSUME NEW h \in Handlers, Die(h) PROVE EventInv' /\ Grown BY <1>2, DieStep
<1>3. ASSUME NEW h \in Pipelines,
             \/ Cluster(h) \/ PlanCandidate(h) \/ Enrich(h) \/ CaptureSame(h)
             \/ PublishCandidate(h) \/ PublicationConflict(h) \/ PublishNew(h)
             \/ ReuseCollided(h) \/ FinishPipeline(h)
             \/ \E k \in Keys : ReadEvent(h, k)
      PROVE  EventInv' /\ Grown
  BY <1>3, ClusterStep, PlanStep, EnrichStep, CaptureSameStep, PublishCandidateStep, ConflictStep,
     PublishNewStep, ReuseStep, FinishStep, ReadStep
<1>4. ASSUME NEW h \in Editors,
             \/ ClaimEvent(h) \/ ReadForAction(h) \/ ApplyAction(h) \/ ActionFails(h)
             \/ \E k \in Keys : ValidateAction(h, k)
      PROVE  EventInv' /\ Grown
  BY <1>4, ClaimStep, ReadForStep, ApplyActionStep, ActionFailsStep, ValidateStep
<1>5. ASSUME NEW h \in Deciders,
             \/ MergeFails(h)
             \/ \E c \in Candidates :
                  Dismiss(h, c) \/ Recheck(h, c) \/ BeginMerge(h, c) \/ ClaimBoth(h, c) \/ ApplyMerge(h, c)
      PROVE  EventInv' /\ Grown
  BY <1>5, MergeFailsStep, DismissStep, RecheckStep, BeginStep, ClaimBothStep, ApplyMergeStep
<1>6. ASSUME NEW c \in Candidates,
             ExpireStale(c) \/ \E k, l \in Keys : ProposeMerge(c, k, l)
      PROVE  EventInv' /\ Grown
  BY <1>6, ExpireStep, ProposeStep
<1>7. CASE UNCHANGED vars
  <2>1. /\ UNCHANGED event /\ UNCHANGED leases /\ UNCHANGED <<at, pipeline, local>> /\ UNCHANGED candidate
    BY <1>7 DEF vars
  <2>2. /\ EventTypes /\ LocalTypes
        /\ candidate \in [Candidates -> Proposals \cup {None}]
        /\ \A h \in Handlers : HandlerOK(h)
        /\ \A c \in Candidates : CandidateOK(c)
    BY EventInvParts
  <2>3. EventTypes' /\ RowsRebuildVersions' /\ Grown BY <2>1, QuietFacts
  <2>4. LocalTypes' /\ \A h \in Handlers : HandlerOK(h)' BY <2>1, <2>2, <2>3, AllStay
  <2>5. candidate' \in [Candidates -> Proposals \cup {None}] /\ \A c \in Candidates : CandidateOK(c)'
    BY <2>1, <2>2, <2>3, CandidatesStay
  <2>6. LeaseTypes' BY <2>1, LeasesStay
  <2> QED BY <2>3, <2>4, <2>5, <2>6 DEF EventInv
<1> QED BY <1>1, <1>2, <1>3, <1>4, <1>5, <1>6, <1>7 DEF Next

(* The invariant of events: rows, manifests and candidates fit the         *)
(* versions.                                                               *)
THEOREM EventInvariance == Spec => []EventInv
<1>1. Init => EventInv BY EventInvInit
<1>2. EventInv /\ [Next]_vars => EventInv' BY EventStep
<1> QED BY <1>1, <1>2, PTL DEF Spec

(* No step of any handler changes or takes back a version that was         *)
(* published.                                                              *)
THEOREM VersionsNeverChange == Spec => [][Grown]_vars
<1>1. EventInv /\ [Next]_vars => [Grown]_vars BY EventStep
<1> QED BY <1>1, EventInvariance, PTL DEF Spec

(* The rows of event_items rebuild every version (VersionsAreKept), and    *)
(* manifests name what was published.                                      *)
THEOREM VersionsKept == Spec => []VersionsAreKept
<1>1. ASSUME EventInv PROVE VersionsAreKept
  <2>1. /\ EventTypes /\ LeaseTypes /\ LocalTypes /\ RowsRebuildVersions
        /\ candidate \in [Candidates -> Proposals \cup {None}]
        /\ \A h \in Handlers : HandlerOK(h)
    BY <1>1, EventInvParts
  <2>2. TypeOK
    <3>1. \A k \in Keys : \A m \in member[k] :
            m.item \in Items /\ m.added \in 1..Number(k) /\ m.removed \in 0..Number(k)
      BY <2>1 DEF EventTypes, EventRows
    <3> QED BY <2>1, <3>1 DEF TypeOK, EventTypes, LeaseTypes, LocalTypes, Stages, Carriers
  <2>3. ManifestIsPublished BY <2>1 DEF ManifestIsPublished, HandlerOK, PipelineOK, Handlers
  <2> QED BY <2>1, <2>2, <2>3 DEF VersionsAreKept
<1> QED BY <1>1, EventInvariance, PTL

(* A merge joins the versions its candidate was reviewed for               *)
(* (MergedAsReviewed), whatever others publish.                            *)
THEOREM MergesAreReviewed == Spec => []MergedAsReviewed
<1>1. ASSUME EventInv PROVE MergedAsReviewed
  <2> SUFFICES ASSUME NEW c \in Candidates, candidate[c] # None, candidate[c].status = "applied"
               PROVE  JoinedAfter(version[candidate[c].left], candidate[c].lv,
                                  version[candidate[c].right], candidate[c].rv)
    BY DEF MergedAsReviewed, JoinedAfter
  <2> QED BY <1>1, EventInvParts DEF CandidateOK
<1> QED BY <1>1, EventInvariance, PTL
---------------------------------------------------------------------------
(* The ways a source is asked in.                                          *)

USE SourcesAssumption

(* Some of the methods of a definition have a first one.                   *)
LEMMA FirstIs ==
  ASSUME NEW d \in Definitions, NEW ids \in SUBSET DOMAIN d.methods
  PROVE  /\ ids # {} => First(d, ids) # Refused /\ \E i \in ids : First(d, ids) = d.methods[i]
         /\ First(d, ids) # Refused => ids # {}
<1>1. CASE ids = {}
  BY <1>1 DEF First
<1>2. CASE ids # {}
  <2>1. ids \in SUBSET Nat
    OBVIOUS
  <2>2. \E m \in ids : \A h \in ids : m <= h
    <3> DEFINE R == OpToRel(<, Nat)
    <3>1. IsWellFoundedOn(R, Nat)
      BY NatLessThanWellFounded
    <3>2. PICK m \in ids : \A h \in ids : ~(<<h, m>> \in R)
      BY ONLY <3>1, <2>1, <1>2, WFMin, Zenon
    <3>3. ASSUME NEW h \in ids PROVE m <= h
      <4>1. m \in Nat /\ h \in Nat /\ <<h, m>> \notin R
        BY <2>1, <3>2
      <4> QED BY <4>1 DEF OpToRel
    <3> QED BY <3>3
  <2>3. Min(ids) \in ids
    BY <2>2 DEF Min
  <2>4. First(d, ids) = d.methods[Min(ids)]
    BY <1>2 DEF First
  <2>5. d.methods[Min(ids)].kind # NoKind
    BY <2>3
  <2>6. d.methods[Min(ids)] # Refused
    BY <2>5 DEF Refused, NoKind
  <2> QED BY <1>2, <2>3, <2>4, <2>6
<1> QED BY <1>1, <1>2

(* What is fetched is automatic, and has what it needs.                    *)
LEMMA FetchedIs ==
  ASSUME NEW d \in Definitions, NEW approvedOnly \in BOOLEAN, NEW creds, NEW free \in BOOLEAN
  PROVE  LET m == Fetched(d, approvedOnly, creds, free)
         IN  m # Refused =>
               /\ \E i \in DOMAIN d.methods : m = d.methods[i]
               /\ Automatic(m) /\ m.auth \subseteq creds /\ (free => m.auth = {} /\ ~m.secret)
<1> DEFINE m == Fetched(d, approvedOnly, creds, free)
           allowed == Allowed(d, free)
           keyed == Keyed(d, allowed)
<1> SUFFICES ASSUME m # Refused
             PROVE  /\ \E i \in DOMAIN d.methods : m = d.methods[i]
                    /\ Automatic(m) /\ m.auth \subseteq creds /\ (free => m.auth = {} /\ ~m.secret)
  OBVIOUS
<1>1. \/ m = First(d, Configured(d, allowed, creds))
      \/ m = First(d, Configured(d, keyed, creds))
      \/ m = First(d, Fallback(d, allowed))
  BY DEF Fetched
<1>2. /\ Configured(d, allowed, creds) \in SUBSET allowed
      /\ Configured(d, keyed, creds) \in SUBSET allowed
      /\ Fallback(d, allowed) \in SUBSET allowed
      /\ \A i \in Configured(d, allowed, creds) \cup Configured(d, keyed, creds) \cup Fallback(d, allowed) :
           d.methods[i].auth \subseteq creds
  BY DEF Configured, Keyed, Fallback
<1>3. /\ allowed \in SUBSET DOMAIN d.methods
      /\ \A i \in allowed : /\ Automatic(d.methods[i])
                            /\ free => d.methods[i].auth = {} /\ ~d.methods[i].secret
  BY DEF Allowed
<1> HIDE DEF m, allowed, keyed
<1>4. PICK i \in Configured(d, allowed, creds) \cup Configured(d, keyed, creds) \cup Fallback(d, allowed) :
        m = d.methods[i]
  <2>1. \A ids \in SUBSET DOMAIN d.methods :
          First(d, ids) # Refused => \E i \in ids : First(d, ids) = d.methods[i]
    BY FirstIs
  <2> QED BY <1>1, <1>2, <1>3, <2>1
<1> QED BY <1>2, <1>3, <1>4

(* What a plan calls fetchable is fetched, unless the source is blocked,   *)
(* is not active, or is picked for a method that needs no credentials      *)
(* where the definition says they are required.                            *)
LEMMA PlannedOK ==
  ASSUME NEW d \in Definitions, NEW probe, NEW before, NEW creds, Planned(d, probe, before, creds)
  PROVE  LET m == Fetched(d, TRUE, creds, FALSE)
         IN  m = Refused => \/ d.blocked \/ d.status # "active"
                            \/ /\ d.availability = "requires_credentials"
                               /\ Picked(d, probe, before).auth = {}
<1> DEFINE picked == Picked(d, probe, before)
           allowed == Allowed(d, FALSE)
           keyed == Keyed(d, allowed)
<1>1. PICK j \in DOMAIN d.methods : picked = d.methods[j]
  <2>1. PICK k : picked = MethodOf(d, k)
    BY DEF Planned, Picked
  <2>2. {i \in DOMAIN d.methods : d.methods[i].kind = k} \in SUBSET DOMAIN d.methods
    OBVIOUS
  <2>3. picked # Refused
    BY DEF Planned
  <2> QED BY <2>1, <2>2, <2>3, FirstIs DEF MethodOf
<1>2. /\ picked.auth \subseteq creds /\ ~picked.approval /\ d.enabled
      /\ d.availability \in {"ready", "requires_credentials"} /\ d.coverage = "direct"
  BY DEF Planned
<1>3. Automatic(picked)
  BY <1>1, <1>2 DEF Automatic
<1>4. j \in allowed
  BY <1>1, <1>3 DEF Allowed
<1>5. ASSUME ~d.blocked, d.status = "active", d.availability = "ready"
      PROVE  Fetched(d, TRUE, creds, FALSE) # Refused
  <2>1. ~Barred(d)
    BY <1>2, <1>5 DEF Barred
  <2>2. j \in Configured(d, allowed, creds) /\ Configured(d, allowed, creds) \in SUBSET DOMAIN d.methods
    BY <1>1, <1>2, <1>4 DEF Configured, Allowed
  <2>3. First(d, Configured(d, allowed, creds)) # Refused
    BY <2>2, FirstIs
  <2> QED BY <1>2, <1>5, <2>1, <2>3 DEF Fetched
<1>6. ASSUME ~d.blocked, d.status = "active", d.availability = "requires_credentials", picked.auth # {}
      PROVE  Fetched(d, TRUE, creds, FALSE) # Refused
  <2>1. ~Barred(d)
    BY <1>2, <1>6 DEF Barred
  <2>2. j \in Configured(d, keyed, creds) /\ Configured(d, keyed, creds) \in SUBSET DOMAIN d.methods
    BY <1>1, <1>2, <1>4, <1>6 DEF Configured, Keyed, Allowed
  <2>3. First(d, Configured(d, keyed, creds)) # Refused
    BY <2>2, FirstIs
  <2> QED BY <1>2, <1>6, <2>1, <2>2, <2>3 DEF Fetched
<1> QED BY <1>2, <1>5, <1>6

(* A candidate of a health wave is refreshed in the lane of contents.      *)
LEMMA HealthOK ==
  ASSUME NEW d \in Definitions, NEW probe, NEW creds, HealthCandidate(d, probe, creds)
  PROVE  Lane(d, creds) = "content"
BY DEF HealthCandidate, Lane, Automatic

(* A trial asks without credentials, and an active source that is eligible *)
(* for one has a method to try, unless the factory refuses the first one.  *)
LEMMA TriedOK ==
  ASSUME NEW d \in Definitions, NEW probe, NEW creds
  PROVE  LET m == Tried(d, probe, creds)
         IN  /\ m # Refused => /\ m.auth = {} /\ ~m.secret
                               /\ Fetcher(m, TRUE) = "keyed" => m.host = "keyed" /\ m.kind \in AnyHost
             /\ TrialEligible(d, probe) /\ m = Refused =>
                  d.status # "active" \/ ~CredentialFree(First(d, Allowed(d, TRUE)))
<1> DEFINE m == Tried(d, probe, creds)
           p == Passed(d, probe, creds)
<1>1. ASSUME m # Refused
      PROVE  /\ m.auth = {} /\ ~m.secret
             /\ Fetcher(m, TRUE) = "keyed" => m.host = "keyed" /\ m.kind \in AnyHost
  <2>1. m = p /\ Fetcher(p, TRUE) # "refused" /\ p # Refused
    BY <1>1 DEF Tried
  <2>2. p = Fetched(d, FALSE, creds, TRUE)
    BY <2>1 DEF Passed
  <2>3. p.auth = {} /\ ~p.secret
    <3>1. PICK some, free \in BOOLEAN : some = FALSE /\ free = TRUE
      OBVIOUS
    <3>2. p = Fetched(d, some, creds, free) /\ p # Refused
      BY <2>1, <2>2, <3>1
    <3> HIDE DEF p
    <3>3. d \in Definitions /\ some \in BOOLEAN /\ free \in BOOLEAN
      OBVIOUS
    <3>4. p # Refused => (free => p.auth = {} /\ ~p.secret)
      BY ONLY <3>2, <3>3, FetchedIs
    <3> QED BY <2>1, <3>1, <3>4
  <2> HIDE DEF p, m
  <2>4. Fetcher(p, TRUE) = "keyed" => p.host = "keyed" /\ p.kind \in AnyHost
    BY <2>1 DEF Fetcher, CredentialFree
  <2> QED BY <2>1, <2>3, <2>4
<1>2. ASSUME TrialEligible(d, probe), d.status = "active", CredentialFree(First(d, Allowed(d, TRUE)))
      PROVE  m # Refused
  <2>1. ~Barred(d) /\ d.availability = "ready"
    BY <1>2 DEF TrialEligible, Barred
  <2>2. PICK i \in DOMAIN d.methods :
          Automatic(d.methods[i]) /\ d.methods[i].auth = {} /\ ~d.methods[i].secret
    BY <1>2 DEF TrialEligible
  <2>3. /\ i \in Allowed(d, TRUE) /\ Allowed(d, TRUE) \in SUBSET DOMAIN d.methods
        /\ Configured(d, Allowed(d, TRUE), creds) = Allowed(d, TRUE)
    BY <2>2 DEF Configured, Allowed
  <2>4. /\ First(d, Allowed(d, TRUE)) # Refused
        /\ \E j \in Allowed(d, TRUE) : First(d, Allowed(d, TRUE)) = d.methods[j]
    BY <2>3, FirstIs
  <2>5. p = First(d, Allowed(d, TRUE))
    BY <1>2, <2>1, <2>3 DEF Passed, Fetched
  <2>6. ~p.secret
    BY <2>4, <2>5 DEF Allowed
  <2>7. CredentialFree(p)
    BY <1>2, <2>5
  <2> HIDE DEF p
  <2>8. Fetcher(p, TRUE) # "refused"
    BY <2>6, <2>7 DEF Fetcher
  <2> QED BY <2>4, <2>5, <2>8 DEF Tried, p
<1> QED BY <1>1, <1>2

---------------------------------------------------------------------------
(* The rounds of a refresh.                                                *)

GoodOf(s) == {i \in DOMAIN s : s[i] = "good"}

(* The record of the rounds is that of the answers: the good ones, one     *)
(* transient error that was forgiven, and the one that ended it.           *)
WeighedOK(s, r) ==
  /\ r \in [good : Nat, retried : BOOLEAN,
            verdict : {"open", "succeeded", "degraded", "blocked", "failed"}]
  /\ IsFiniteSet(GoodOf(s)) /\ Cardinality(GoodOf(s)) = r.good
  /\ Len(s) = r.good + (IF r.retried THEN 1 ELSE 0)
                     + (IF r.verdict \in {"open", "succeeded"} THEN 0 ELSE 1)
  /\ r.good = 3 <=> r.verdict = "succeeded"
  /\ r.good <= 3
  /\ r.verdict \in {"open", "succeeded"} =>
       \A i \in DOMAIN s : s[i] = "good" \/ CodeOf(s[i]) \in TransientCodes

(* Before the first answer nothing is weighed.                             *)
LEMMA NoneWeighed == WeighedOK(<<>>, NoRound)
<1>1. GoodOf(<<>>) = {}
  BY DEF GoodOf
<1>2. IsFiniteSet({}) /\ Cardinality({}) = 0
  BY FS_EmptySet
<1>3. Len(<<>>) = 0 /\ DOMAIN <<>> = {}
  OBVIOUS
<1>4. /\ NoRound \in [good : Nat, retried : BOOLEAN,
                     verdict : {"open", "succeeded", "degraded", "blocked", "failed"}]
      /\ NoRound.good = 0 /\ NoRound.retried = FALSE /\ NoRound.verdict = "open"
  BY DEF NoRound
<1>5. PICK e, r : e = <<>> /\ r = NoRound
  OBVIOUS
<1>6. WeighedOK(e, r)
  <2>1. GoodOf(e) = {} /\ Len(e) = 0 /\ DOMAIN e = {}
    BY <1>1, <1>3, <1>5
  <2>2. /\ r \in [good : Nat, retried : BOOLEAN,
                 verdict : {"open", "succeeded", "degraded", "blocked", "failed"}]
        /\ r.good = 0 /\ r.retried = FALSE /\ r.verdict = "open"
    BY <1>4, <1>5
  <2> QED BY ONLY <1>2, <2>1, <2>2 DEF WeighedOK
<1> QED BY <1>5, <1>6

(* The good answers after one more.                                        *)
LEMMA GoodAfter ==
  ASSUME NEW s \in Seq(Answers), NEW a \in Answers, IsFiniteSet(GoodOf(s))
  PROVE  /\ IsFiniteSet(GoodOf(Append(s, a)))
         /\ Cardinality(GoodOf(Append(s, a))) = Cardinality(GoodOf(s)) + (IF a = "good" THEN 1 ELSE 0)
<1>1. Len(s) \in Nat /\ DOMAIN s = 1..Len(s) /\ DOMAIN Append(s, a) = 1..(Len(s) + 1)
  OBVIOUS
<1>2. \A i \in 1..Len(s) : Append(s, a)[i] = s[i]
  OBVIOUS
<1>3. Append(s, a)[Len(s) + 1] = a
  OBVIOUS
<1>4. CASE a = "good"
  <2>1. GoodOf(Append(s, a)) = GoodOf(s) \cup {Len(s) + 1}
    BY <1>1, <1>2, <1>3, <1>4 DEF GoodOf
  <2>2. Len(s) + 1 \notin GoodOf(s)
    BY <1>1 DEF GoodOf
  <2> QED BY <1>4, <2>1, <2>2, FS_AddElement
<1>5. CASE a # "good"
  <2>1. GoodOf(Append(s, a)) = GoodOf(s)
    BY <1>1, <1>2, <1>3, <1>5 DEF GoodOf
  <2>2. Cardinality(GoodOf(s)) \in Nat
    BY FS_CardinalityType
  <2> QED BY <1>5, <2>1, <2>2
<1> QED BY <1>4, <1>5

(* The record of the rounds stays that of the answers                      *)
(* (_run_content_member).                                                  *)
LEMMA RoundWeighs ==
  ASSUME NEW s \in Seq(Answers), NEW r, WeighedOK(s, r), r.verdict = "open",
         NEW a \in Answers \ {"unchanged"}
  PROVE  WeighedOK(Append(s, a), Round(r, a))
<1> DEFINE t == Append(s, a)
           q == Round(r, a)
           Verdicts == {"open", "succeeded", "degraded", "blocked", "failed"}
<1> SUFFICES WeighedOK(t, q)
  OBVIOUS
<1>1. PICK g \in Nat, b \in BOOLEAN : r = [good |-> g, retried |-> b, verdict |-> "open"]
  BY DEF WeighedOK
<1>2. /\ IsFiniteSet(GoodOf(s)) /\ Cardinality(GoodOf(s)) = g /\ g <= 2
      /\ Len(s) = g + (IF b THEN 1 ELSE 0)
      /\ \A i \in DOMAIN s : s[i] = "good" \/ CodeOf(s[i]) \in TransientCodes
  BY <1>1 DEF WeighedOK
<1>3. /\ IsFiniteSet(GoodOf(t)) /\ Cardinality(GoodOf(t)) = g + (IF a = "good" THEN 1 ELSE 0)
  BY <1>2, GoodAfter
<1>4. Len(t) = Len(s) + 1 /\ \A i \in DOMAIN t : (i \in DOMAIN s /\ t[i] = s[i]) \/ t[i] = a
  OBVIOUS
<1>5. /\ CodeOf("good") = NoCode /\ OutcomeOf("good") = "success" /\ NoCode \notin TransientCodes
      /\ a # "good" => OutcomeOf(a) # "success"
      /\ StateForCode(CodeOf(a)) \in {"degraded", "blocked", "failed"}
  BY DEF CodeOf, OutcomeOf, NoCode, TransientCodes, StateForCode
<1> HIDE DEF t
(* What the next record has to be like.                                    *)
<1>6. ASSUME q \in [good : Nat, retried : BOOLEAN, verdict : Verdicts],
             q.good = g + (IF a = "good" THEN 1 ELSE 0),
             Len(t) = q.good + (IF q.retried THEN 1 ELSE 0)
                             + (IF q.verdict \in {"open", "succeeded"} THEN 0 ELSE 1),
             q.good = 3 <=> q.verdict = "succeeded",
             q.verdict \in {"open", "succeeded"} => a = "good" \/ CodeOf(a) \in TransientCodes
      PROVE  WeighedOK(t, q)
  <2>1. q.good <= 3
    BY <1>2, <1>6
  <2>2. q.verdict \in {"open", "succeeded"} =>
          \A i \in DOMAIN t : t[i] = "good" \/ CodeOf(t[i]) \in TransientCodes
    BY <1>2, <1>4, <1>6
  <2> HIDE DEF q
  <2> QED BY ONLY <1>3, <1>6, <2>1, <2>2 DEF WeighedOK
<1>7. CASE a # "lost" /\ CodeOf(a) \in TransientCodes /\ ~b
  <2>1. q = [good |-> g, retried |-> TRUE, verdict |-> "open"]
    BY <1>1, <1>7 DEF Round
  <2>2. a # "good"
    BY <1>5, <1>7
  <2>3. Len(t) = g + 1 + 0 /\ g # 3
    BY <1>2, <1>4, <1>7
  <2>f. /\ q \in [good : Nat, retried : BOOLEAN, verdict : Verdicts]
        /\ q.good = g /\ q.retried = TRUE /\ q.verdict = "open"
    BY <2>1
  <2> HIDE DEF q
  <2> QED BY <1>6, <1>7, <2>2, <2>3, <2>f
<1>8. CASE ~(a # "lost" /\ CodeOf(a) \in TransientCodes /\ ~b)
           /\ (a = "lost" \/ CodeOf(a) # NoCode \/ OutcomeOf(a) # "success")
  <2>1. q = [good |-> g, retried |-> b, verdict |-> StateForCode(CodeOf(a))]
    BY <1>1, <1>8 DEF Round
  <2>2. a # "good"
    BY <1>5, <1>8
  <2>3. PICK v \in Verdicts \ {"open", "succeeded"} : v = StateForCode(CodeOf(a))
    BY <1>5
  <2>4. Len(t) = g + (IF b THEN 1 ELSE 0) + 1 /\ g # 3
    BY <1>2, <1>4
  <2>f. /\ q \in [good : Nat, retried : BOOLEAN, verdict : Verdicts]
        /\ q.good = g /\ q.retried = b /\ q.verdict = v
    BY <2>1, <2>3
  <2> HIDE DEF q
  <2> QED BY <1>6, <2>2, <2>3, <2>4, <2>f
<1>9. CASE a # "lost" /\ CodeOf(a) = NoCode /\ OutcomeOf(a) = "success"
  <2>1. q = [good |-> g + 1, retried |-> b, verdict |-> IF g = 2 THEN "succeeded" ELSE "open"]
    BY <1>1, <1>5, <1>9 DEF Round
  <2>2. a = "good"
    BY <1>5, <1>9
  <2>3. PICK v \in {"open", "succeeded"} : v = IF g = 2 THEN "succeeded" ELSE "open"
    OBVIOUS
  <2>4. PICK h \in Nat : h = g + 1
    OBVIOUS
  <2>5. /\ Len(t) = h + (IF b THEN 1 ELSE 0) + 0
        /\ h = 3 <=> v = "succeeded"
    BY <1>2, <1>4, <2>3, <2>4
  <2>6. q = [good |-> h, retried |-> b, verdict |-> v]
    BY <2>1, <2>3, <2>4
  <2>f. /\ q \in [good : Nat, retried : BOOLEAN, verdict : Verdicts]
        /\ q.good = h /\ q.retried = b /\ q.verdict = v
    BY <2>3, <2>4, <2>6
  <2> HIDE DEF q
  <2> QED BY <1>6, <2>2, <2>3, <2>4, <2>5, <2>f
<1> QED BY <1>7, <1>8, <1>9

---------------------------------------------------------------------------

(* The record of the rounds is right, and a fetch goes on only after an    *)
(* answer that is tried again.                                             *)
SourcesInv ==
  /\ question = "nothing" => about = <<>> /\ weighed = NoRound
  /\ question = "source" => about.def \in Definitions
  /\ question = "probes" => about \in Seq(Answers) /\ WeighedOK(about, weighed)
  /\ question = "fetch" => /\ about \in Seq(Answers) /\ Len(about) \in 1..3
                           /\ \A i \in 1 .. Len(about) - 1 : about[i] \in Transient

(* SourcesInv holds of every state.                                        *)
LEMMA SourcesInvariant == SourceSpec => []SourcesInv
<1>1. SourceInit => SourcesInv
  BY DEF SourceInit, SourcesInv
<1>2. SourcesInv /\ [SourceNext]_sourceVars => SourcesInv'
  <2> SUFFICES ASSUME SourcesInv, [SourceNext]_sourceVars PROVE SourcesInv'
    OBVIOUS
  <2>1. CASE Look
    BY <2>1 DEF Look, SourcesInv
  <2>2. CASE Probe
    <3>1. about \in Seq(Answers) /\ WeighedOK(about, weighed)
      <4>1. question = "nothing" \/ question = "probes"
        BY <2>2 DEF Probe
      <4>2. <<>> \in Seq(Answers)
        OBVIOUS
      <4> QED BY ONLY SourcesInv, <4>1, <4>2, NoneWeighed DEF SourcesInv
    <3>2. PICK s, r : s = about /\ r = weighed
      OBVIOUS
    <3>3. s \in Seq(Answers) /\ WeighedOK(s, r) /\ r.verdict = "open"
      BY <2>2, <3>1, <3>2 DEF Probe
    <3>4. PICK a \in Answers \ {"unchanged"} : about' = Append(s, a) /\ weighed' = Round(r, a)
      BY <2>2, <3>2 DEF Probe
    <3>5. Append(s, a) \in Seq(Answers) /\ WeighedOK(Append(s, a), Round(r, a))
      BY <3>3, RoundWeighs
    <3>6. question' = "probes"
      BY <2>2 DEF Probe
    <3> QED BY <3>4, <3>5, <3>6 DEF SourcesInv
  <2>3. CASE Get
    <3>1. /\ about \in Seq(Answers) /\ Len(about) < 3
          /\ \A i \in 1..Len(about) : about[i] \in Transient
      <4>1. question = "nothing" \/ question = "fetch"
        BY <2>3 DEF Get
      <4>2. <<>> \in Seq(Answers)
        OBVIOUS
      <4>3. Asked(about)
        BY <2>3 DEF Get
      <4>4. CASE question = "nothing"
        BY ONLY SourcesInv, <4>2, <4>4 DEF SourcesInv
      <4>5. CASE question = "fetch"
        <5>1. PICK s \in Seq(Answers) : s = about
          BY <4>5 DEF SourcesInv
        <5>2. /\ Len(s) \in 1..3 /\ (\A i \in 1 .. Len(s) - 1 : s[i] \in Transient)
              /\ Len(s) < 3 /\ (s # <<>> => s[Len(s)] \in Transient)
          BY <4>3, <4>5, <5>1 DEF SourcesInv, Asked
        <5>3. s # <<>>
          <6>1. PICK n \in 1..3 : n = Len(s)
            BY ONLY <5>2
          <6>2. n # 0
            BY ONLY n \in 1..3
          <6> QED BY ONLY <6>1, <6>2
        <5>4. \A i \in 1..Len(s) : i = Len(s) \/ i \in 1 .. Len(s) - 1
          OBVIOUS
        <5> QED BY <5>1, <5>2, <5>3, <5>4
      <4> QED BY <4>1, <4>4, <4>5
    <3>2. PICK a \in Answers : about' = Append(about, a)
      BY <2>3 DEF Get
    <3>3. PICK s \in Seq(Answers) : s = about
      BY <3>1
    <3>4. about' = Append(s, a) /\ Len(s) < 3 /\ \A i \in 1..Len(s) : s[i] \in Transient
      BY <3>1, <3>2, <3>3
    <3>5. /\ Append(s, a) \in Seq(Answers) /\ Len(Append(s, a)) \in 1..3
          /\ \A i \in 1 .. Len(Append(s, a)) - 1 : Append(s, a)[i] \in Transient
      BY <3>4
    <3>6. question' = "fetch"
      BY <2>3 DEF Get
    <3> QED BY <3>4, <3>5, <3>6 DEF SourcesInv
  <2>4. CASE UNCHANGED sourceVars
    BY <2>4 DEF sourceVars, SourcesInv
  <2> QED BY <2>1, <2>2, <2>3, <2>4 DEF SourceNext
<1> QED BY <1>1, <1>2, PTL DEF SourceSpec

(* What may pass is tried again by the queue.                              *)
LEMMA PassingIsRetried ==
  ASSUME NEW a \in Transient \cup {"slow"}, NEW host \in {"site", "audited"}
  PROVE  Retryable(FetchResult(a, host))
BY DEF Transient, FetchResult, Retryable, NoCode

(* Sources are asked in the ways that are allowed, and as often as their   *)
(* answers call for: for any definitions, credentials and answers.         *)
THEOREM AllowedAccess == SourceSpec => []AccessIsAsAllowed
<1>1. SourcesInv => AccessIsAsAllowed
  <2> SUFFICES ASSUME SourcesInv PROVE AccessIsAsAllowed
    OBVIOUS
  <2>1. PlannedIsFetched
    <3> SUFFICES ASSUME question = "source" PROVE PlannedIsFetched
      BY DEF PlannedIsFetched
    <3>1. PICK d \in Definitions : d = about.def
      BY DEF SourcesInv
    <3>2. PICK probe, before, creds : probe = about.probe /\ before = about.before /\ creds = about.creds
      OBVIOUS
    <3>3. Planned(d, probe, before, creds) =>
            LET m == Fetched(d, TRUE, creds, FALSE) IN
              /\ m = Refused => \/ d.blocked \/ d.status # "active"
                                \/ /\ d.availability = "requires_credentials"
                                   /\ Picked(d, probe, before).auth = {}
              /\ m # Refused => Automatic(m) /\ m.auth \subseteq creds
      BY PlannedOK, FetchedIs
    <3>4. HealthCandidate(d, probe, creds) => Lane(d, creds) = "content"
      BY HealthOK
    <3> QED BY <3>1, <3>2, <3>3, <3>4 DEF PlannedIsFetched
  <2>2. TrialsUseNoCredentials
    <3> SUFFICES ASSUME question = "source" PROVE TrialsUseNoCredentials
      BY DEF TrialsUseNoCredentials
    <3>1. PICK d \in Definitions : d = about.def
      BY DEF SourcesInv
    <3> QED BY <3>1, TriedOK DEF TrialsUseNoCredentials
  <2>3. AnswersAreWeighed
    <3>1. question = "probes" =>
            /\ Len(about) <= 4
            /\ weighed.verdict = "succeeded" =>
                 /\ Cardinality({i \in DOMAIN about : about[i] = "good"}) = 3
                 /\ \A i \in DOMAIN about : about[i] = "good" \/ CodeOf(about[i]) \in TransientCodes
      BY DEF SourcesInv, WeighedOK, GoodOf
    <3>2. question = "fetch" =>
            /\ Len(about) <= 3 /\ \A i \in 1 .. Len(about) - 1 : about[i] \in Transient
            /\ about[Len(about)] \in Transient \cup {"slow"}
                 => \A host \in {"site", "audited"} : Retryable(FetchResult(about[Len(about)], host))
      BY PassingIsRetried DEF SourcesInv
    <3> QED BY <3>1, <3>2 DEF AnswersAreWeighed
  <2> QED BY <2>1, <2>2, <2>3 DEF AccessIsAsAllowed
<1> QED BY <1>1, SourcesInvariant, PTL
=============================================================================
