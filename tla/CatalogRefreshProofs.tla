------------------------ MODULE CatalogRefreshProofs ------------------------
(***************************************************************************)
(* Safety of CatalogRefresh for every plan, lane, number of batches and    *)
(* handlers: former handlers may finish members beside the newest one,     *)
(* workers may know other definitions, and recoveries and retries of       *)
(* earlier batches are enqueued whenever they have read a plan.            *)
(***************************************************************************)
EXTENDS CatalogRefresh, FiniteSetTheorems, TLAPS

USE CatalogAssumption

(* The verdict of a worker that knows the frozen definition of an entry.   *)
EntryVerdict(s) == IF s \in Verified THEN "succeeded" ELSE "rejected"

USE DEF plans

(* A handler awaits the result of a probe of its own for a member.         *)
Awaits(a, s) ==
  \/ at[a][s] = "probing"
  \/ phase[a] \in {"probing", "finishing"} /\ s \in GroupOf(a)

(* The batch is reported as succeeded, or its handler is about to.         *)
Judged(b) ==
  status[b] = "succeeded" \/ \E a \in Attempts : a[1] = b /\ outcome[a] = "succeeded"

MemberTypes ==
  /\ status \in [Batches -> {"absent", "queued", "running"} \cup Terminal]
  /\ attempts \in [Batches -> 0..MaxAttempts]
  /\ cancel \in [Batches -> BOOLEAN]
  /\ state \in [Batches -> [Sources -> {"absent"} \cup Unfinished \cup Verdicts]]
  /\ claim \in [Batches -> [Sources -> 1..MaxAttempts \cup {None}]]
  /\ probed \in [Batches -> [Sources -> SUBSET (1..MaxAttempts)]]
  /\ progress \in [Batches -> Nat]
  /\ plan = None \/ plan \in SUBSET Sources

HandlerTypes ==
  /\ phase \in [Attempts -> {"none", "start", "content", "capability", "stale", "probing",
                             "finishing", "after", "catalog", "returned", "over"}]
  /\ outcome \in [Attempts -> {"none", "succeeded", "partial", "failed", "error", "cancelled"}]
  /\ drift \in [Attempts -> Drifts \cup {NoDrift}]
  /\ left \in [Attempts -> SUBSET Sources]
  /\ group \in [Attempts -> {Provider[s] : s \in Sources} \cup {None}]
  /\ at \in [Attempts -> [Sources -> {"out", "waiting", "probing", "checked"}]]

(* Nothing exists of a batch before its command, or of a handler before    *)
(* its lease.                                                              *)
Born ==
  /\ \A b \in Batches :
       status[b] = "absent" => attempts[b] = 0 /\ \A s \in Sources : state[b][s] = "absent"
  /\ \A a \in Attempts :
       phase[a] # "none" \/ outcome[a] = "succeeded" => a[2] <= attempts[a[1]]

(* Requests for a member are sent by its only claimant, once it is not     *)
(* pending any more.                                                       *)
Probes ==
  \A b \in Batches, s \in Sources :
    /\ state[b][s] \in {"absent", "pending"} => probed[b][s] = {}
    /\ probed[b][s] \subseteq {claim[b][s]}

(* However many workers check an entry of the catalog, they differ only    *)
(* where one of them does not know it.                                     *)
Entries ==
  \A b \in Batches, s \in Sources :
    Lane[s] = "catalog" /\ state[b][s] \in Verdicts => state[b][s] \in {"stale", EntryVerdict(s)}

(* What a handler has before it are members of the lane it is in.          *)
TasksOf(a) ==
  /\ Cardinality(InFlight(a)) <= Limit
  /\ \A s \in Sources :
       /\ at[a][s] \in {"waiting", "probing"} =>
            phase[a] = "content" /\ Lane[s] = "content" /\ s \in MembersOf(a[1])
       /\ at[a][s] = "checked" =>
            phase[a] = "catalog" /\ Lane[s] = "catalog" /\ s \in MembersOf(a[1])
       /\ s \in left[a] =>
            /\ s \in MembersOf(a[1])
            /\ phase[a] = "catalog" => Lane[s] = "catalog"
            /\ phase[a] \in {"capability", "stale", "probing", "finishing", "after"} =>
                 Lane[s] = "capability"

(* A member whose probe is awaited is claimed by that handler, and has no  *)
(* verdict but that of a worker that did not know it.                      *)
HoldsOf(a) ==
  \A s \in Sources : Awaits(a, s) =>
    claim[a[1]][s] = a[2] /\ state[a[1]][s] \in {"running", "stale"}

(* Once a batch is judged complete, only other definitions can change it.  *)
Complete(b) ==
  Judged(b) =>
    \A s \in MembersOf(b) :
      /\ state[b][s] \in {"succeeded", "stale"}
      /\ Lane[s] = "catalog" => s \in Verified
      /\ \A a \in Attempts : a[1] = b => ~Awaits(a, s)

IInv ==
  /\ MemberTypes /\ HandlerTypes
  /\ Born /\ Probes /\ Entries
  /\ \A a \in Attempts : TasksOf(a) /\ HoldsOf(a)
  /\ \A b \in Batches : Complete(b)
  /\ ProgressCounts /\ OneActiveRefresh

(* What VerdictsAreKept says of a step.                                    *)
Keeps ==
  \A b \in Batches, s \in Sources :
    state[b][s] \in Verdicts /\ state'[b][s] # state[b][s]
      => /\ "stale" \in {state[b][s], state'[b][s]}
         /\ state'[b][s] \in Verdicts

---------------------------------------------------------------------------
(* Sets of sources are finite, and counted by natural numbers.             *)
LEMMA SourcesAreCounted ==
  \A S \in SUBSET Sources : IsFiniteSet(S) /\ Cardinality(S) \in Nat
BY FS_Subset, FS_CardinalityType

(* An attempt is a batch and a number.                                     *)
LEMMA Parts ==
  ASSUME NEW a \in Attempts
  PROVE  /\ a[1] \in Batches /\ a[2] \in 1..MaxAttempts
         /\ \A c \in Attempts : c[1] = a[1] /\ c[2] = a[2] => c = a
BY DEF Attempts

(* The program before its first command satisfies the invariant.           *)
LEMMA InitIInv == Init => IInv
<1> SUFFICES ASSUME Init PROVE IInv
  OBVIOUS
<1> USE DEF Init, Queue!ContractInit
<1>1. \A a \in Attempts : InFlight(a) = {} /\ left[a] = {} /\ phase[a] = "none"
                          /\ outcome[a] = "none" /\ \A s \in Sources : at[a][s] = "out"
  BY DEF InFlight, NoTasks
<1>2. \A b \in Batches : Finished(b) = {} /\ MembersOf(b) = {}
  BY DEF Finished, MembersOf, Verdicts
<1>3. Cardinality({}) = 0 /\ 0 <= Limit BY FS_EmptySet, CatalogAssumption
<1>4. MemberTypes BY DEF MemberTypes
<1>5. HandlerTypes BY DEF HandlerTypes, NoTasks
<1>6. Born BY <1>1 DEF Born
<1>7. Probes BY DEF Probes
<1>8. Entries BY DEF Entries, Verdicts
<1>9. \A a \in Attempts : TasksOf(a)
  <2> SUFFICES ASSUME NEW a \in Attempts PROVE TasksOf(a)
    OBVIOUS
  <2>1. Cardinality(InFlight(a)) <= Limit BY <1>1, <1>3
  <2> QED BY <1>1, <2>1 DEF TasksOf
<1>10. \A a \in Attempts : HoldsOf(a) BY <1>1 DEF HoldsOf, Awaits
<1>11. \A b \in Batches : Complete(b) BY <1>1 DEF Complete, Judged
<1>12. ProgressCounts BY <1>2, <1>3 DEF ProgressCounts
<1>13. OneActiveRefresh BY DEF OneActiveRefresh, Active
<1> QED BY <1>4, <1>5, <1>6, <1>7, <1>8, <1>9, <1>10, <1>11, <1>12, <1>13 DEF IInv

(* What a handler has in flight grows only while there is a slot.          *)
LEMMA FlightIsBounded ==
  ASSUME NEW a \in Attempts, Cardinality(InFlight(a)) <= Limit, NEW m,
         \/ InFlight(a)' \subseteq InFlight(a)
         \/ /\ Cardinality(InFlight(a)) < Limit
            /\ InFlight(a)' \subseteq InFlight(a) \cup {m}
  PROVE  Cardinality(InFlight(a)') <= Limit
<1> DEFINE S == InFlight(a)
           T == InFlight(a)'
           U == S \cup {m}
<1>1. IsFiniteSet(S) /\ Cardinality(S) \in Nat /\ Cardinality(T) \in Nat
  BY SourcesAreCounted DEF InFlight
<1>2. /\ IsFiniteSet(U) /\ Cardinality(U) \in Nat
      /\ Cardinality(U) = IF m \in S THEN Cardinality(S) ELSE Cardinality(S) + 1
  BY <1>1, FS_AddElement, FS_CardinalityType
<1>3. CASE T \subseteq S
  <2>1. Cardinality(T) <= Cardinality(S) BY <1>1, <1>3, FS_Subset
  <2> QED BY <1>1, <2>1
<1>4. CASE Cardinality(S) < Limit /\ T \subseteq U
  <2>1. Cardinality(T) <= Cardinality(U) BY <1>2, <1>4, FS_Subset
  <2> QED BY <1>1, <1>2, <1>4, <2>1
<1> QED BY <1>3, <1>4

---------------------------------------------------------------------------
(* Steps that leave the members alone.                                     *)

(* The handler of a moves, and awaits nothing new.                         *)
Moves(a) ==
  /\ phase[a] = "none" <=> phase'[a] = "none"
  /\ \A s \in Sources : Awaits(a, s)' => Awaits(a, s)
  /\ outcome'[a] = "succeeded" =>
       outcome[a] = "succeeded" \/ (phase[a] # "none" /\ AllSucceeded(a[1]))
  /\ \A c \in Attempts \ {a} :
       /\ phase'[c] = phase[c] /\ outcome'[c] = outcome[c] /\ drift'[c] = drift[c]
       /\ left'[c] = left[c] /\ group'[c] = group[c] /\ at'[c] = at[c]

(* The operations go on: no batch with members becomes active again, and   *)
(* one is reported as succeeded only by a handler that says so.            *)
GoesOn(a) ==
  /\ status' \in [Batches -> {"absent", "queued", "running"} \cup Terminal]
  /\ attempts' \in [Batches -> 0..MaxAttempts]
  /\ cancel' \in [Batches -> BOOLEAN]
  /\ \A b \in Batches :
       /\ status'[b] = "absent" => status[b] = "absent" /\ attempts'[b] = attempts[b]
       /\ attempts'[b] >= attempts[b]
       /\ Active(b)' => Active(b) \/ MembersOf(b) = {}
       /\ status'[b] = "succeeded" =>
            status[b] = "succeeded" \/ (a[1] = b /\ outcome[a] = "succeeded")

(* What a batch that is judged complete rests on is there when it is.      *)
LEMMA AllSucceededIsComplete ==
  ASSUME IInv, NEW b \in Batches, AllSucceeded(b)
  PROVE  \A s \in MembersOf(b) :
           /\ state[b][s] = "succeeded"
           /\ Lane[s] = "catalog" => s \in Verified
           /\ \A a \in Attempts : a[1] = b => ~Awaits(a, s)
<1>1. \A s \in MembersOf(b) : state[b][s] = "succeeded"
  BY DEF AllSucceeded
<1>2. \A s \in MembersOf(b) : Lane[s] = "catalog" => s \in Verified
  BY <1>1 DEF IInv, Entries, EntryVerdict, Verdicts, MembersOf
<1>3. \A s \in MembersOf(b), a \in Attempts : a[1] = b => ~Awaits(a, s)
  BY <1>1 DEF IInv, HoldsOf, MembersOf
<1> QED BY <1>1, <1>2, <1>3

LEMMA HandlerKeeps ==
  ASSUME IInv, NEW a \in Attempts, UNCHANGED <<members, probed>>,
         plan' = None \/ plan' \in SUBSET Sources,
         GoesOn(a), HandlerTypes', TasksOf(a)',
         \/ Moves(a)
         \/ /\ UNCHANGED <<phase, outcome, drift, left, group, at>>
         \/ /\ phase[a] = "none" /\ phase' = [phase EXCEPT ![a] = "start"]
            /\ UNCHANGED <<outcome, left, group, at>>
            /\ \A c \in Attempts \ {a} : drift'[c] = drift[c]
            /\ a[2] <= attempts'[a[1]]
  PROVE  IInv' /\ Keeps
<1> USE DEF members
<1>0. /\ MemberTypes /\ HandlerTypes /\ Born /\ Probes /\ Entries
      /\ \A c \in Attempts : TasksOf(c) /\ HoldsOf(c)
      /\ \A b \in Batches : Complete(b)
      /\ ProgressCounts /\ OneActiveRefresh
  BY DEF IInv
<1>1. \A b \in Batches : MembersOf(b)' = MembersOf(b) /\ Finished(b)' = Finished(b)
  BY DEF MembersOf, Finished
<1>2. /\ \A s \in Sources : Awaits(a, s)' => Awaits(a, s)
      /\ \A c \in Attempts \ {a}, s \in Sources : Awaits(c, s)' <=> Awaits(c, s)
      /\ \A c \in Attempts : phase'[c] # "none" => phase[c] # "none" \/ c[2] <= attempts'[c[1]]
      /\ \A c \in Attempts : outcome'[c] = "succeeded" =>
           outcome[c] = "succeeded" \/ (phase[c] # "none" /\ AllSucceeded(c[1]))
      /\ \A c \in Attempts \ {a} :
           phase'[c] = phase[c] /\ left'[c] = left[c] /\ at'[c] = at[c]
  <2>1. CASE Moves(a) BY <2>1 DEF Moves, Awaits, GroupOf
  <2>2. CASE UNCHANGED <<phase, outcome, drift, left, group, at>>
    BY <2>2 DEF Awaits, GroupOf
  <2>3. CASE /\ phase[a] = "none" /\ phase' = [phase EXCEPT ![a] = "start"]
             /\ UNCHANGED <<outcome, left, group, at>>
             /\ a[2] <= attempts'[a[1]]
    <3>1. phase'[a] = "start" /\ \A c \in Attempts \ {a} : phase'[c] = phase[c]
      BY <1>0, <2>3 DEF HandlerTypes
    <3> QED BY <2>3, <3>1 DEF Awaits, GroupOf
  <2> QED BY <2>1, <2>2, <2>3
<1>3. MemberTypes' BY <1>0 DEF MemberTypes, GoesOn
<1>4. Born'
  <2>1. \A b \in Batches :
          status'[b] = "absent" => attempts'[b] = 0 /\ \A s \in Sources : state'[b][s] = "absent"
    BY <1>0 DEF Born, GoesOn
  <2>2. ASSUME NEW c \in Attempts, phase'[c] # "none" \/ outcome'[c] = "succeeded"
        PROVE  c[2] <= attempts'[c[1]]
    <3>1. c[1] \in Batches /\ c[2] \in Nat BY Parts
    <3>2. phase[c] # "none" \/ outcome[c] = "succeeded" => c[2] <= attempts[c[1]]
      BY <1>0 DEF Born
    <3>3. attempts'[c[1]] >= attempts[c[1]] /\ attempts'[c[1]] \in Nat /\ attempts[c[1]] \in Nat
      BY <1>0, <3>1 DEF GoesOn, MemberTypes
    <3> QED BY <1>2, <2>2, <3>1, <3>2, <3>3
  <2> QED BY <2>1, <2>2 DEF Born
<1>5. Probes' BY <1>0 DEF Probes
<1>6. Entries' BY <1>0 DEF Entries
<1>7. ASSUME NEW c \in Attempts PROVE TasksOf(c)' /\ HoldsOf(c)'
  <2>1. HoldsOf(c)' BY <1>0, <1>2 DEF HoldsOf
  <2>2. CASE c = a BY <2>1, <2>2
  <2>3. CASE c # a
    <3>1. InFlight(c)' = InFlight(c) BY <1>2, <2>3 DEF InFlight
    <3>2. MembersOf(c[1])' = MembersOf(c[1]) BY <1>1, Parts
    <3>3. TasksOf(c) /\ phase'[c] = phase[c] /\ left'[c] = left[c] /\ at'[c] = at[c]
      BY <1>0, <1>2, <2>3
    <3>4. TasksOf(c)' BY <3>1, <3>2, <3>3 DEF TasksOf
    <3> QED BY <2>1, <3>4
  <2> QED BY <2>2, <2>3
<1>8. ASSUME NEW b \in Batches PROVE Complete(b)'
  <2> SUFFICES ASSUME Judged(b)'
               PROVE  \A s \in MembersOf(b) :
                        /\ state[b][s] \in {"succeeded", "stale"}
                        /\ Lane[s] = "catalog" => s \in Verified
                        /\ \A c \in Attempts : c[1] = b => ~Awaits(c, s)'
    BY <1>1 DEF Complete
  <2>1. Judged(b) \/ AllSucceeded(b) BY <1>2 DEF Judged, GoesOn
  <2>2. CASE Judged(b) BY <1>0, <1>2, <2>2 DEF Complete, MembersOf
  <2>3. CASE AllSucceeded(b) BY <1>2, <2>3, AllSucceededIsComplete DEF MembersOf
  <2> QED BY <2>1, <2>2, <2>3
<1>9. ProgressCounts' BY <1>0, <1>1 DEF ProgressCounts
<1>10. OneActiveRefresh' BY <1>0, <1>1 DEF OneActiveRefresh, GoesOn
<1>11. Keeps BY DEF Keeps
<1> QED BY <1>3, <1>4, <1>5, <1>6, <1>7, <1>8, <1>9, <1>10, <1>11 DEF IInv

(* A handler that stops holds nothing any more.                            *)
LEMMA StoppedFacts ==
  ASSUME HandlerTypes, NEW a \in Attempts, NEW p \in {"returned", "over"},
         NEW r \in {"none", "succeeded", "partial", "failed", "error", "cancelled"},
         Stopped(a, p, r), phase[a] # "none", r = "succeeded" => AllSucceeded(a[1])
  PROVE  HandlerTypes' /\ TasksOf(a)' /\ Moves(a) /\ \A s \in Sources : ~Awaits(a, s)'
<1>1. /\ phase'[a] = p /\ outcome'[a] = r /\ left'[a] = {} /\ at'[a] = NoTasks
      /\ \A c \in Attempts \ {a} :
           /\ phase'[c] = phase[c] /\ outcome'[c] = outcome[c] /\ drift'[c] = drift[c]
           /\ left'[c] = left[c] /\ group'[c] = group[c] /\ at'[c] = at[c]
  BY DEF Stopped, Goes, HandlerTypes
<1>2. HandlerTypes' BY DEF HandlerTypes, Stopped, Goes, NoTasks
<1>3. \A s \in Sources : at'[a][s] = "out" BY <1>1 DEF NoTasks
<1>4. \A s \in Sources : ~Awaits(a, s)' BY <1>1, <1>3 DEF Awaits
<1>5. InFlight(a)' = {} BY <1>3 DEF InFlight
<1>6. Cardinality(InFlight(a)') <= Limit
  <2>1. Cardinality({}) = 0 BY FS_EmptySet
  <2> QED BY <1>5, <2>1
<1>7. TasksOf(a)' BY <1>1, <1>3, <1>6 DEF TasksOf
<1>8. Moves(a) BY <1>1, <1>4 DEF Moves
<1> QED BY <1>2, <1>4, <1>7, <1>8

---------------------------------------------------------------------------
(* Steps that write members.                                               *)

(* The members of ms are finished or claimed by the handler of a.          *)
Writes(a, ms) ==
  LET b == a[1]
  IN /\ state' \in [Batches -> [Sources -> {"absent"} \cup Unfinished \cup Verdicts]]
     /\ claim' \in [Batches -> [Sources -> 1..MaxAttempts \cup {None}]]
     /\ probed' \in [Batches -> [Sources -> SUBSET (1..MaxAttempts)]]
     /\ progress' \in [Batches -> Nat]
     /\ \A c \in Batches, s \in Sources : c # b \/ s \notin ms =>
          state'[c][s] = state[c][s] /\ claim'[c][s] = claim[c][s] /\ probed'[c][s] = probed[c][s]
     /\ \A s \in ms :
          /\ s \in MembersOf(b) /\ state'[b][s] \in {"running"} \cup Verdicts
          /\ Lane[s] = "catalog" => state'[b][s] \in {"stale", EntryVerdict(s)}

(* Why it may: it claims a pending member, or finishes one whose probe it  *)
(* awaited, one that its worker does not know, or an entry.                *)
ByClaim(a, s) == state[a[1]][s] = "pending" /\ probed'[a[1]][s] \subseteq {claim'[a[1]][s]}
ByRight(a, s) ==
  /\ claim'[a[1]][s] = claim[a[1]][s] /\ probed'[a[1]][s] = probed[a[1]][s]
  /\ state'[a[1]][s] \in Verdicts
  /\ \/ Awaits(a, s) /\ ~Awaits(a, s)'
     \/ state'[a[1]][s] = "stale"
     \/ Lane[s] = "catalog"

LEMMA MemberStep ==
  ASSUME IInv, NEW a \in Attempts, NEW ms \in SUBSET Sources,
         UNCHANGED <<operation, plans>>,
         Writes(a, ms), \A s \in ms : ByClaim(a, s) \/ ByRight(a, s),
         ProgressCounts', HandlerTypes', TasksOf(a)', HoldsOf(a)',
         phase[a] # "none", phase'[a] # "none",
         \A s \in Sources : Awaits(a, s)' => Awaits(a, s) \/ state[a[1]][s] = "pending",
         outcome'[a] = "succeeded" => outcome[a] = "succeeded",
         \A c \in Attempts \ {a} :
           /\ phase'[c] = phase[c] /\ outcome'[c] = outcome[c]
           /\ left'[c] = left[c] /\ group'[c] = group[c] /\ at'[c] = at[c]
  PROVE  IInv' /\ Keeps
<1> USE DEF operation
<1>0. /\ MemberTypes /\ HandlerTypes /\ Born /\ Probes /\ Entries
      /\ \A c \in Attempts : TasksOf(c) /\ HoldsOf(c)
      /\ \A b \in Batches : Complete(b)
      /\ ProgressCounts /\ OneActiveRefresh
  BY DEF IInv
<1>1. PICK b \in Batches : b = a[1] BY Parts
<1>2. /\ \A c \in Batches, s \in Sources : c # b \/ s \notin ms =>
           state'[c][s] = state[c][s] /\ claim'[c][s] = claim[c][s] /\ probed'[c][s] = probed[c][s]
      /\ \A s \in ms :
           /\ s \in MembersOf(b) /\ state'[b][s] \in {"running"} \cup Verdicts
           /\ Lane[s] = "catalog" => state'[b][s] \in {"stale", EntryVerdict(s)}
  BY <1>1 DEF Writes
<1>3. \A s \in ms :
        \/ state[b][s] = "pending" /\ probed'[b][s] \subseteq {claim'[b][s]}
        \/ /\ claim'[b][s] = claim[b][s] /\ probed'[b][s] = probed[b][s]
           /\ state'[b][s] \in Verdicts
           /\ (Awaits(a, s) /\ ~Awaits(a, s)') \/ state'[b][s] = "stale" \/ Lane[s] = "catalog"
  BY <1>1 DEF ByClaim, ByRight
<1>4. \A c \in Batches : MembersOf(c)' = MembersOf(c)
  <2> SUFFICES ASSUME NEW c \in Batches, NEW s \in Sources
               PROVE  state'[c][s] = "absent" <=> state[c][s] = "absent"
    BY DEF MembersOf
  <2> QED BY <1>2 DEF MembersOf, Verdicts
<1>5. \A c \in Attempts \ {a}, s \in Sources : Awaits(c, s)' <=> Awaits(c, s)
  BY DEF Awaits, GroupOf
<1>6. MemberTypes' BY <1>0 DEF MemberTypes, Writes
<1>7. Born'
  <2>1. \A c \in Batches, s \in Sources : state[c][s] = "absent" => state'[c][s] = "absent"
    BY <1>2 DEF MembersOf
  <2> QED BY <1>0, <2>1 DEF Born
<1>8. Probes'
  <2> SUFFICES ASSUME NEW c \in Batches, NEW s \in Sources
               PROVE  /\ state'[c][s] \in {"absent", "pending"} => probed'[c][s] = {}
                      /\ probed'[c][s] \subseteq {claim'[c][s]}
    BY DEF Probes
  <2>1. CASE c # b \/ s \notin ms BY <1>0, <1>2, <2>1 DEF Probes
  <2>2. CASE c = b /\ s \in ms BY <1>0, <1>2, <1>3, <2>2 DEF Probes, Verdicts
  <2> QED BY <2>1, <2>2
<1>9. Entries'
  <2> SUFFICES ASSUME NEW c \in Batches, NEW s \in Sources, Lane[s] = "catalog",
                      state'[c][s] \in Verdicts
               PROVE  state'[c][s] \in {"stale", EntryVerdict(s)}
    BY DEF Entries
  <2>1. CASE c # b \/ s \notin ms BY <1>0, <1>2, <2>1 DEF Entries
  <2>2. CASE c = b /\ s \in ms BY <1>2, <2>2
  <2> QED BY <2>1, <2>2
<1>10. ASSUME NEW c \in Attempts PROVE TasksOf(c)' /\ HoldsOf(c)'
  <2>1. CASE c = a BY <2>1
  <2>2. CASE c # a
    <3>1. InFlight(c)' = InFlight(c) BY <2>2 DEF InFlight
    <3>2. MembersOf(c[1])' = MembersOf(c[1]) BY <1>4, Parts
    <3>3. TasksOf(c) /\ phase'[c] = phase[c] /\ left'[c] = left[c] /\ at'[c] = at[c]
      BY <1>0, <2>2
    <3>4. TasksOf(c)' BY <3>1, <3>2, <3>3 DEF TasksOf
    <3>5. HoldsOf(c)'
      <4> SUFFICES ASSUME NEW s \in Sources, Awaits(c, s)
                   PROVE  claim'[c[1]][s] = c[2] /\ state'[c[1]][s] \in {"running", "stale"}
        BY <1>5, <2>2 DEF HoldsOf
      <4>1. claim[c[1]][s] = c[2] /\ state[c[1]][s] \in {"running", "stale"} /\ c[1] \in Batches
        BY <1>0, Parts DEF HoldsOf
      <4>2. CASE c[1] # b \/ s \notin ms BY <1>2, <4>1, <4>2
      <4>3. CASE c[1] = b /\ s \in ms
        <5>1. Lane[s] # "catalog" BY <3>3 DEF TasksOf, Awaits, GroupOf
        <5>2. ~Awaits(a, s)
          <6>1. Awaits(a, s) => claim[b][s] = a[2] BY <1>0, <1>1 DEF HoldsOf
          <6> QED BY <1>1, <2>2, <4>1, <4>3, <6>1, Parts
        <5> QED BY <1>3, <4>1, <4>3, <5>1, <5>2
      <4> QED BY <4>2, <4>3
    <3> QED BY <3>4, <3>5
  <2> QED BY <2>1, <2>2
<1>11. ASSUME NEW c \in Batches PROVE Complete(c)'
  <2> SUFFICES ASSUME Judged(c)'
               PROVE  \A s \in MembersOf(c) :
                        /\ state'[c][s] \in {"succeeded", "stale"}
                        /\ Lane[s] = "catalog" => s \in Verified
                        /\ \A d \in Attempts : d[1] = c => ~Awaits(d, s)'
    BY <1>4 DEF Complete
  <2>1. Judged(c) BY DEF Judged
  <2>2. \A s \in MembersOf(c) :
          /\ state[c][s] \in {"succeeded", "stale"}
          /\ Lane[s] = "catalog" => s \in Verified
          /\ \A d \in Attempts : d[1] = c => ~Awaits(d, s)
    BY <1>0, <2>1 DEF Complete
  <2>3. ASSUME NEW s \in MembersOf(c)
        PROVE  /\ state'[c][s] \in {"succeeded", "stale"}
               /\ \A d \in Attempts : d[1] = c => ~Awaits(d, s)'
    <3>0. s \in Sources BY DEF MembersOf
    <3>1. \A d \in Attempts : d[1] = c => ~Awaits(d, s)' BY <1>1, <1>5, <2>2, <3>0
    <3>2. CASE c # b \/ s \notin ms BY <1>2, <2>2, <3>0, <3>1, <3>2
    <3>3. CASE c = b /\ s \in ms
      <4>1. ~Awaits(a, s) /\ state[b][s] # "pending" BY <1>1, <2>2, <3>3
      <4>2. state'[b][s] = "stale" \/ Lane[s] = "catalog" BY <1>3, <3>3, <4>1
      <4> QED BY <1>2, <2>2, <3>1, <3>3, <4>2 DEF EntryVerdict
    <3> QED BY <3>2, <3>3
  <2> QED BY <2>2, <2>3
<1>12. OneActiveRefresh' BY <1>0, <1>4 DEF OneActiveRefresh, Active
<1>13. Keeps
  <2> SUFFICES ASSUME NEW c \in Batches, NEW s \in Sources,
                      state[c][s] \in Verdicts, state'[c][s] # state[c][s]
               PROVE  "stale" \in {state[c][s], state'[c][s]} /\ state'[c][s] \in Verdicts
    BY DEF Keeps
  <2>1. c = b /\ s \in ms BY <1>2
  <2>2. state[b][s] # "pending" BY <2>1 DEF Verdicts
  <2>3. state'[b][s] \in Verdicts BY <1>3, <2>1, <2>2
  <2>4. CASE Awaits(a, s)
    BY <1>0, <1>1, <2>1, <2>3, <2>4 DEF HoldsOf, Verdicts
  <2>5. CASE state'[b][s] = "stale" BY <2>1, <2>3, <2>5
  <2>6. CASE Lane[s] = "catalog"
    BY <1>0, <1>2, <2>1, <2>3, <2>6 DEF Entries
  <2> QED BY <1>3, <2>1, <2>2, <2>4, <2>5, <2>6
<1> QED BY <1>6, <1>7, <1>8, <1>9, <1>10, <1>11, <1>12, <1>13 DEF IInv

(* A verdict on a member is counted when it is the first one.              *)
LEMMA WriteCounts ==
  ASSUME MemberTypes, ProgressCounts, NEW a \in Attempts, NEW s \in MembersOf(a[1]),
         NEW v \in Verdicts, Write(a, s, v)
  PROVE  /\ ProgressCounts' /\ progress' \in [Batches -> Nat]
         /\ state' \in [Batches -> [Sources -> {"absent"} \cup Unfinished \cup Verdicts]]
         /\ state'[a[1]][s] = v
         /\ \A c \in Batches, t \in Sources : c # a[1] \/ t # s => state'[c][t] = state[c][t]
<1>1. PICK b \in Batches : b = a[1] BY Parts
<1>2. s \in Sources BY DEF MembersOf
<1>3. /\ state' \in [Batches -> [Sources -> {"absent"} \cup Unfinished \cup Verdicts]]
      /\ state'[b][s] = v
      /\ \A c \in Batches, t \in Sources : c # b \/ t # s => state'[c][t] = state[c][t]
  BY <1>1, <1>2 DEF Write, MemberTypes
<1>4. \A c \in Batches : c # b => Finished(c)' = Finished(c) BY <1>3 DEF Finished
<1>5. Finished(b)' = Finished(b) \cup {s} BY <1>2, <1>3 DEF Finished
<1>6. /\ IsFiniteSet(Finished(b)) /\ Cardinality(Finished(b)) \in Nat
      /\ IsFiniteSet(MembersOf(b)) /\ Cardinality(MembersOf(b)) \in Nat
  BY SourcesAreCounted DEF Finished, MembersOf
<1>7. /\ progress[b] = Cardinality(Finished(b))
      /\ \A c \in Batches : c # b => progress'[c] = Cardinality(Finished(c)')
      /\ progress'[b] = Counted(b, s)
  BY <1>1, <1>4 DEF Write, ProgressCounts, MemberTypes
<1>8. progress'[b] = Cardinality(Finished(b)')
  <2>1. CASE state[b][s] \in Verdicts
    <3>1. s \in Finished(b) /\ state[b][s] \notin Unfinished
      BY <1>2, <2>1 DEF Finished, Verdicts, Unfinished
    <3>2. Finished(b)' = Finished(b) BY <1>5, <3>1
    <3> QED BY <1>7, <3>1, <3>2 DEF Counted
  <2>2. CASE state[b][s] \in Unfinished
    <3>1. s \notin Finished(b) /\ Finished(b) \subseteq MembersOf(b) \ {s}
      BY <1>2, <2>2 DEF Finished, MembersOf, Verdicts, Unfinished
    <3>2. /\ Cardinality(Finished(b)') = Cardinality(Finished(b)) + 1
      BY <1>5, <1>6, <3>1, FS_AddElement
    <3>3. Cardinality(Finished(b)) < Cardinality(MembersOf(b))
      <4>1. Finished(b) \subseteq MembersOf(b) /\ Finished(b) # MembersOf(b)
        BY <1>1, <3>1
      <4> QED BY <1>6, <4>1, FS_Subset
    <3> QED BY <1>7, <2>2, <3>2, <3>3 DEF Counted
  <2> QED BY <1>1, <1>2, <2>1, <2>2 DEF MemberTypes, MembersOf
<1>9. progress' \in [Batches -> Nat]
  <2>1. Counted(b, s) \in Nat BY <1>6, <1>7 DEF Counted
  <2> QED BY <1>1, <2>1 DEF Write, MemberTypes
<1> QED BY <1>1, <1>3, <1>7, <1>8, <1>9 DEF ProgressCounts

---------------------------------------------------------------------------
(* Commands.                                                               *)

(* A batch is created with its members while no other one is active.       *)
LEMMA CreatedStep ==
  ASSUME IInv, NEW b \in Batches, NEW ms \in SUBSET Sources, Created(b, ms),
         plan' = None \/ plan' \in SUBSET Sources
  PROVE  IInv' /\ Keeps
<1> USE DEF Created, handler, tasks
<1>0. /\ MemberTypes /\ HandlerTypes /\ Born /\ Probes /\ Entries
      /\ \A c \in Attempts : TasksOf(c) /\ HoldsOf(c)
      /\ \A c \in Batches : Complete(c)
      /\ ProgressCounts /\ OneActiveRefresh
  BY DEF IInv
<1>1. /\ status[b] = "absent" /\ status' = [status EXCEPT ![b] = "queued"]
      /\ attempts' = attempts /\ cancel' = cancel
  BY DEF Queue!Submit
<1>2. attempts[b] = 0 /\ \A s \in Sources : state[b][s] = "absent" BY <1>0, <1>1 DEF Born
<1>3. /\ state' \in [Batches -> [Sources -> {"absent"} \cup Unfinished \cup Verdicts]]
      /\ \A s \in Sources : state'[b][s] \in {"absent", "pending"}
      /\ \A c \in Batches \ {b} : state'[c] = state[c]
  BY <1>0 DEF MemberTypes, Unfinished
<1>4. /\ status'[b] = "queued" /\ \A c \in Batches \ {b} : status'[c] = status[c]
      /\ status' \in [Batches -> {"absent", "queued", "running"} \cup Terminal]
  BY <1>0, <1>1 DEF MemberTypes
<1>5. /\ \A c \in Batches \ {b} : MembersOf(c)' = MembersOf(c)
      /\ \A c \in Batches : Finished(c)' = Finished(c)
      /\ MembersOf(b) = {}
  BY <1>2, <1>3 DEF MembersOf, Finished, Verdicts
<1>6. MemberTypes' BY <1>0, <1>1, <1>3, <1>4 DEF MemberTypes
<1>7. HandlerTypes' BY <1>0 DEF HandlerTypes
<1>8. Born' BY <1>0, <1>1, <1>3, <1>4 DEF Born
<1>9. Probes'
  <2> SUFFICES ASSUME NEW c \in Batches, NEW s \in Sources
               PROVE  /\ state'[c][s] \in {"absent", "pending"} => probed[c][s] = {}
                      /\ probed[c][s] \subseteq {claim[c][s]}
    BY DEF Probes
  <2> QED BY <1>0, <1>2, <1>3 DEF Probes
<1>10. Entries' BY <1>0, <1>3 DEF Entries, Verdicts
<1>11. ASSUME NEW a \in Attempts PROVE TasksOf(a)' /\ HoldsOf(a)'
  <2>1. TasksOf(a) /\ HoldsOf(a) /\ a[1] \in Batches BY <1>0, Parts
  <2>2. InFlight(a)' = InFlight(a) /\ \A s \in Sources : Awaits(a, s)' <=> Awaits(a, s)
    BY DEF InFlight, Awaits, GroupOf
  <2>3. MembersOf(a[1]) \subseteq MembersOf(a[1])' BY <1>5, <2>1
  <2>4. TasksOf(a)' BY <2>1, <2>2, <2>3 DEF TasksOf
  <2>5. \A s \in Sources : Awaits(a, s) => a[1] # b BY <1>2, <2>1 DEF HoldsOf
  <2>6. HoldsOf(a)' BY <1>3, <2>1, <2>2, <2>5 DEF HoldsOf
  <2> QED BY <2>4, <2>6
<1>12. ASSUME NEW c \in Batches PROVE Complete(c)'
  <2>1. Judged(c)' => Judged(c) BY <1>4 DEF Judged
  <2>2. \A a \in Attempts, s \in Sources : Awaits(a, s)' <=> Awaits(a, s)
    BY DEF Awaits, GroupOf
  <2>3. CASE c = b
    <3>1. \A a \in Attempts : a[1] = b => outcome[a] # "succeeded"
      <4> SUFFICES ASSUME NEW a \in Attempts, a[1] = b, outcome[a] = "succeeded" PROVE FALSE
        OBVIOUS
      <4>1. a[2] \in 1..MaxAttempts BY Parts
      <4>2. a[2] <= 0 BY <1>0, <1>2 DEF Born
      <4> QED BY <4>1, <4>2, CatalogAssumption
    <3>2. ~Judged(b)' BY <1>4, <3>1 DEF Judged
    <3> QED BY <2>3, <3>2 DEF Complete
  <2>4. CASE c # b BY <1>0, <1>3, <1>5, <2>1, <2>2, <2>4 DEF Complete, MembersOf
  <2> QED BY <2>3, <2>4
<1>13. ProgressCounts' BY <1>0, <1>5 DEF ProgressCounts
<1>14. OneActiveRefresh'
  <2>1. \A c \in Batches \ {b} : ~Active(c)' BY <1>4 DEF NoneActive, Active
  <2> QED BY <2>1 DEF OneActiveRefresh
<1>15. Keeps BY <1>2, <1>3 DEF Keeps, Verdicts
<1> QED BY <1>6, <1>7, <1>8, <1>9, <1>10, <1>11, <1>12, <1>13, <1>14, <1>15 DEF IInv

(* What a command or the queue does to operations alone keeps it.          *)
LEMMA OperationStep ==
  ASSUME IInv, NEW a \in Attempts, UNCHANGED <<members, handler>>, GoesOn(a),
         plan' = None \/ plan' \in SUBSET Sources
  PROVE  IInv' /\ Keeps
<1> USE DEF handler, tasks
<1>1. HandlerTypes /\ TasksOf(a) BY DEF IInv
<1>2. HandlerTypes' BY <1>1 DEF HandlerTypes
<1>3. TasksOf(a)'
  <2>1. InFlight(a)' = InFlight(a) /\ MembersOf(a[1])' = MembersOf(a[1])
    BY DEF InFlight, MembersOf, members
  <2> QED BY <1>1, <2>1 DEF TasksOf
<1> QED BY <1>2, <1>3, HandlerKeeps

LEMMA CommandStep ==
  ASSUME IInv, NEW b \in Batches,
         Refresh(b) \/ ReadPlan(b) \/ EnqueuePlan(b) \/ RequestCancel(b)
         \/ \E c \in Batches : Copy(b, c)
  PROVE  IInv' /\ Keeps
<1>0. MemberTypes /\ Born BY DEF IInv
<1>1. CASE Refresh(b)
  <2>1. PICK ms \in Catalogs : Created(b, ms) /\ UNCHANGED plan BY <1>1 DEF Refresh
  <2>2. ms \in SUBSET Sources BY CatalogAssumption
  <2>3. plan' = None \/ plan' \in SUBSET Sources BY <1>0, <2>1 DEF MemberTypes
  <2> QED BY <2>1, <2>2, <2>3, CreatedStep
<1>2. PICK a \in Attempts : a[1] = b
  <2>1. <<b, 1>> \in Attempts BY DEF Attempts
  <2> QED BY <2>1
<1>3. ASSUME UNCHANGED operation PROVE GoesOn(a)
  BY <1>0, <1>3 DEF GoesOn, operation, MemberTypes, Active
<1>4. CASE ReadPlan(b)
  <2>1. plan' \in SUBSET Sources BY <1>4 DEF ReadPlan, Retryable, Abandoned
  <2> QED BY <1>3, <1>4, <2>1, OperationStep DEF ReadPlan
<1>5. CASE EnqueuePlan(b)
  <2>1. plan \in SUBSET Sources /\ plan' = None BY <1>0, <1>5 DEF EnqueuePlan, MemberTypes
  <2>2. CASE Created(b, plan)
    <3>1. PICK ms \in SUBSET Sources : ms = plan BY <2>1
    <3>2. Created(b, ms) BY <2>2, <3>1
    <3> QED BY <2>1, <3>2, CreatedStep
  <2>3. CASE UNCHANGED <<operation, members, counted, handler>>
    BY <1>3, <2>1, <2>3, OperationStep
  <2> QED BY <1>5, <2>2, <2>3 DEF EnqueuePlan
<1>6. CASE RequestCancel(b)
  <2>1. /\ status[b] \in {"queued", "running"} /\ attempts' = attempts
        /\ status' = [status EXCEPT ![b] = IF @ = "queued" THEN "cancelled" ELSE @]
        /\ cancel' = [cancel EXCEPT ![b] = TRUE]
        /\ UNCHANGED <<members, plans, handler>>
    BY <1>6 DEF RequestCancel, Queue!AskCancel
  <2>2. GoesOn(a) BY <1>0, <2>1 DEF GoesOn, MemberTypes, Active, Terminal
  <2> QED BY <1>0, <2>1, <2>2, OperationStep DEF MemberTypes
<1>7. ASSUME NEW c \in Batches, Copy(b, c) PROVE IInv' /\ Keeps
  <2>1. /\ status[b] = "absent" /\ status' = [status EXCEPT ![b] = "queued"]
        /\ attempts' = attempts /\ cancel' = cancel /\ UNCHANGED <<members, plans, handler>>
    BY <1>7 DEF Copy, Queue!Submit
  <2>2. MembersOf(b) = {} BY <1>0, <2>1 DEF Born, MembersOf
  <2>3. GoesOn(a) BY <1>0, <2>1, <2>2 DEF GoesOn, MemberTypes, Active
  <2> QED BY <1>0, <2>1, <2>3, OperationStep DEF MemberTypes
<1> QED BY <1>1, <1>4, <1>5, <1>6, <1>7

---------------------------------------------------------------------------
(* The operation, as the queue runs it.                                    *)

LEMMA ConcludeFacts ==
  ASSUME IInv, NEW a \in Attempts, NEW r, Conclude(a, r),
         r = "succeeded" => outcome[a] = "succeeded"
  PROVE  GoesOn(a)
<1>0. MemberTypes BY DEF IInv
<1>1. PICK b \in Batches : b = a[1] BY Parts
<1>2. CASE UNCHANGED operation
  BY <1>0, <1>2 DEF GoesOn, operation, MemberTypes, Active
<1>3. CASE Queue!GiveBack(b)
  BY <1>0, <1>3 DEF GoesOn, MemberTypes, Active, Queue!GiveBack
<1>4. ASSUME NEW v \in Terminal, Queue!Decide(b, v), v = "succeeded" => v = r
      PROVE  GoesOn(a)
  BY <1>0, <1>1, <1>4 DEF GoesOn, MemberTypes, Active, Terminal, Queue!Decide
<1>5. \/ UNCHANGED operation \/ Queue!GiveBack(b)
      \/ \E v \in Terminal : Queue!Decide(b, v) /\ (v = "succeeded" => v = r)
  <2>1. CASE ~Current(a) BY <2>1 DEF Conclude
  <2>2. CASE Current(a) /\ cancel[b] BY <1>1, <2>2 DEF Conclude, Terminal
  <2>3. CASE Current(a) /\ ~cancel[b] /\ r = "error" /\ a[2] < MaxAttempts
    <3>1. a[2] # MaxAttempts BY <2>3, Parts
    <3> QED BY <1>1, <2>3, <3>1 DEF Conclude
  <2>4. CASE Current(a) /\ ~cancel[b] /\ (r # "error" \/ a[2] = MaxAttempts)
    <3>1. a[2] \in Nat /\ (a[2] = MaxAttempts => ~(a[2] < MaxAttempts)) BY Parts
    <3>2. Queue!Decide(b, IF r \in {"succeeded", "partial"} THEN r ELSE "failed")
      BY <1>1, <2>4, <3>1 DEF Conclude
    <3> QED BY <3>2 DEF Terminal
  <2>5. a[2] < MaxAttempts \/ a[2] = MaxAttempts BY Parts
  <2> QED BY <2>1, <2>2, <2>3, <2>4, <2>5
<1> QED BY <1>2, <1>3, <1>4, <1>5

LEMMA QueueStep ==
  ASSUME IInv, NEW a \in Attempts, Finish(a) \/ MonitorError(a) \/ Die(a)
  PROVE  IInv' /\ Keeps
<1>0. MemberTypes /\ HandlerTypes BY DEF IInv
<1>1. plan = None \/ plan \in SUBSET Sources BY <1>0 DEF MemberTypes
<1>2. CASE Finish(a)
  <2>1. phase[a] # "none" /\ Stopped(a, "over", "none") /\ UNCHANGED <<members, plans, probed>>
    BY <1>2 DEF Finish, Stopped
  <2>2. GoesOn(a) BY <1>2, ConcludeFacts DEF Finish
  <2>3. HandlerTypes' /\ TasksOf(a)' /\ Moves(a) BY <1>0, <2>1, StoppedFacts
  <2> QED BY <1>1, <2>1, <2>2, <2>3, HandlerKeeps
<1>3. CASE MonitorError(a)
  <2>1. GoesOn(a) /\ UNCHANGED <<members, plans, handler>>
    BY <1>3, ConcludeFacts DEF MonitorError
  <2> QED BY <1>1, <2>1, OperationStep
<1>4. CASE Die(a)
  <2>1. phase[a] # "none" /\ Stopped(a, "over", "none")
        /\ UNCHANGED <<operation, members, plans, probed>>
    BY <1>4 DEF Die, Stopped, AtWork
  <2>2. GoesOn(a) BY <1>0, <2>1 DEF GoesOn, operation, MemberTypes, Active
  <2>3. HandlerTypes' /\ TasksOf(a)' /\ Moves(a) BY <1>0, <2>1, StoppedFacts
  <2> QED BY <1>1, <2>1, <2>2, <2>3, HandlerKeeps
<1> QED BY <1>2, <1>3, <1>4

(* A lease starts a handler that has touched nothing.                      *)
LEMMA LeaseStep ==
  ASSUME IInv, NEW b \in Batches, Lease(b) PROVE IInv' /\ Keeps
<1>0. MemberTypes /\ HandlerTypes /\ Born BY DEF IInv
<1>1. /\ status[b] \in {"queued", "running"} /\ attempts[b] < MaxAttempts
      /\ status' = [status EXCEPT ![b] = "running"]
      /\ attempts' = [attempts EXCEPT ![b] = @ + 1] /\ cancel' = cancel
      /\ UNCHANGED <<members, plans, outcome, left, group, at, probed>>
  BY DEF Lease, Queue!Begin, tasks
<1>2. attempts[b] \in Nat /\ attempts'[b] = attempts[b] + 1 BY <1>0, <1>1 DEF MemberTypes
<1>3. PICK a \in Attempts : a[1] = b /\ a[2] = attempts'[b] /\ a = <<b, attempts'[b]>>
  <2>1. attempts'[b] \in 1..MaxAttempts BY <1>1, <1>2
  <2>2. <<b, attempts'[b]>> \in Attempts BY <2>1 DEF Attempts
  <2> QED BY <2>2
<1>4. /\ phase' = [phase EXCEPT ![a] = "start"]
      /\ \E d \in Drifts : drift' = [drift EXCEPT ![a] = d]
  BY <1>3 DEF Lease, Goes
<1>5. phase[a] = "none"
  <2>1. phase[a] # "none" => a[2] <= attempts[b] BY <1>0, <1>3 DEF Born
  <2> QED BY <1>2, <1>3, <2>1
<1>6. GoesOn(a) BY <1>0, <1>1, <1>2 DEF GoesOn, MemberTypes, Active
<1>7. HandlerTypes' BY <1>0, <1>1, <1>4 DEF HandlerTypes
<1>8. phase'[a] = "start" BY <1>0, <1>4 DEF HandlerTypes
<1>9. TasksOf(a)'
  <2>1. InFlight(a)' = InFlight(a) /\ MembersOf(a[1])' = MembersOf(a[1])
    BY <1>1 DEF InFlight, MembersOf, members
  <2>2. TasksOf(a) BY DEF IInv
  <2> QED BY <1>1, <1>5, <1>8, <2>1, <2>2 DEF TasksOf
<1>10. \A c \in Attempts \ {a} : drift'[c] = drift[c] BY <1>0, <1>4 DEF HandlerTypes
<1>11. (plan' = None \/ plan' \in SUBSET Sources) /\ a[2] <= attempts'[a[1]]
  BY <1>0, <1>1, <1>2, <1>3 DEF MemberTypes
<1> QED BY <1>1, <1>4, <1>5, <1>6, <1>7, <1>9, <1>10, <1>11, HandlerKeeps

---------------------------------------------------------------------------
(* Steps of a handler.                                                     *)

(* What the invariant says of the handler and its batch.                   *)
LEMMA HandlerFacts ==
  ASSUME IInv, NEW a \in Attempts
  PROVE  /\ MemberTypes /\ HandlerTypes /\ TasksOf(a) /\ HoldsOf(a) /\ Probes /\ ProgressCounts
         /\ a[1] \in Batches /\ a[2] \in 1..MaxAttempts
         /\ plan = None \/ plan \in SUBSET Sources
BY Parts DEF IInv, MemberTypes

LEMMA QuietStep ==
  ASSUME IInv, NEW a \in Attempts, UNCHANGED <<operation, members, plans, probed>>,
         HandlerTypes', TasksOf(a)', Moves(a)
  PROVE  IInv' /\ Keeps
<1>1. MemberTypes /\ (plan = None \/ plan \in SUBSET Sources) BY HandlerFacts
<1>2. GoesOn(a) BY <1>1 DEF GoesOn, operation, MemberTypes, Active
<1> QED BY <1>1, <1>2, HandlerKeeps

LEMMA StopStep ==
  ASSUME IInv, NEW a \in Attempts, UNCHANGED <<operation, members, plans>>,
         NEW r \in {"succeeded", "partial", "failed", "error", "cancelled"},
         Stopped(a, "returned", r), phase[a] # "none", r = "succeeded" => AllSucceeded(a[1])
  PROVE  IInv' /\ Keeps
<1>1. HandlerTypes' /\ TasksOf(a)' /\ Moves(a) BY HandlerFacts, StoppedFacts
<1>2. UNCHANGED probed BY DEF Stopped
<1> QED BY <1>1, <1>2, QuietStep

LEMMA InterruptedStep ==
  ASSUME IInv, NEW a \in Attempts, UNCHANGED <<operation, members, plans>>,
         Interrupted(a), phase[a] # "none"
  PROVE  IInv' /\ Keeps
<1>1. CASE Stopped(a, "returned", "cancelled") BY <1>1, StopStep
<1>2. CASE Stopped(a, "returned", "failed") BY <1>2, StopStep
<1> QED BY <1>1, <1>2 DEF Interrupted

(* A step that changes the phase, the list or the tasks of its handler in  *)
(* lanes that do not probe.                                                *)
LEMMA TaskFacts ==
  ASSUME HandlerTypes, NEW a \in Attempts, TasksOf(a), NEW s \in Sources,
         NEW t \in {"out", "waiting", "probing", "checked"}, Task(a, s, t),
         UNCHANGED <<phase, outcome, drift, left, group>>,
         \A c \in Batches : MembersOf(c)' = MembersOf(c),
         t = "out" \/ (/\ t = "probing" /\ phase[a] = "content" /\ Lane[s] = "content"
                       /\ s \in MembersOf(a[1]) /\ Cardinality(InFlight(a)) < Limit)
                   \/ (/\ t = "checked" /\ phase[a] = "catalog" /\ Lane[s] = "catalog"
                       /\ s \in MembersOf(a[1]))
  PROVE  /\ HandlerTypes' /\ TasksOf(a)'
         /\ at'[a][s] = t /\ \A u \in Sources : u # s => at'[a][u] = at[a][u]
         /\ \A u \in Sources : u # s \/ t # "probing" => (Awaits(a, u)' => Awaits(a, u))
         /\ \A c \in Attempts \ {a} : at'[c] = at[c]
<1>0. a[1] \in Batches BY Parts
<1>1. /\ at'[a][s] = t /\ \A u \in Sources : u # s => at'[a][u] = at[a][u]
      /\ \A c \in Attempts \ {a} : at'[c] = at[c]
      /\ at' \in [Attempts -> [Sources -> {"out", "waiting", "probing", "checked"}]]
  BY DEF Task, HandlerTypes
<1>2. HandlerTypes' BY <1>1 DEF HandlerTypes
<1>3. \A u \in Sources : u # s \/ t # "probing" => (Awaits(a, u)' => Awaits(a, u))
  BY <1>1 DEF Awaits, GroupOf
<1>4. Cardinality(InFlight(a)') <= Limit
  <2>1. \/ InFlight(a)' \subseteq InFlight(a)
        \/ Cardinality(InFlight(a)) < Limit /\ InFlight(a)' \subseteq InFlight(a) \cup {s}
    BY <1>1 DEF InFlight
  <2>2. Cardinality(InFlight(a)) <= Limit BY DEF TasksOf
  <2> QED BY <2>1, <2>2, FlightIsBounded
<1>5. TasksOf(a)' BY <1>0, <1>1, <1>4 DEF TasksOf
<1> QED BY <1>1, <1>2, <1>3, <1>5

(* A handler in a lane that does not probe awaits nothing.                 *)
LEMMA AwaitsNothing ==
  ASSUME HandlerTypes, NEW a \in Attempts, TasksOf(a),
         phase[a] \notin {"content", "probing", "finishing"}
  PROVE  \A s \in Sources : ~Awaits(a, s)
BY DEF Awaits, TasksOf

LEMMA ListSteps ==
  ASSUME IInv, NEW a \in Attempts, Start(a) \/ EndContent(a) \/ EndCapability(a)
  PROVE  IInv' /\ Keeps
<1>0. HandlerTypes /\ TasksOf(a) /\ a[1] \in Batches BY HandlerFacts
<1>1. CASE Start(a)
  <2>0. phase[a] = "start" /\ UNCHANGED <<operation, members, plans>> BY <1>1 DEF Start
  <2>1. CASE Stopped(a, "returned", "failed") BY <2>0, <2>1, StopStep
  <2>2. CASE /\ Goes(a, "content")
             /\ at' = [at EXCEPT ![a] =
                        [s \in Sources |-> IF s \in InLane(a, "content") THEN "waiting" ELSE "out"]]
             /\ UNCHANGED <<outcome, drift, left, group, rounds, retried, probed>>
    <3>1. /\ phase'[a] = "content"
          /\ \A s \in Sources :
               at'[a][s] = IF s \in InLane(a, "content") THEN "waiting" ELSE "out"
          /\ \A c \in Attempts \ {a} : phase'[c] = phase[c] /\ at'[c] = at[c]
      BY <1>0, <2>2 DEF HandlerTypes, Goes
    <3>2. HandlerTypes'
      <4>1. at' \in [Attempts -> [Sources -> {"out", "waiting", "probing", "checked"}]]
        BY <1>0, <2>2 DEF HandlerTypes
      <4> QED BY <1>0, <2>2, <4>1 DEF HandlerTypes, Goes
    <3>3. \A s \in Sources : ~Awaits(a, s)' BY <3>1 DEF Awaits
    <3>4. Moves(a) BY <2>0, <2>2, <3>1, <3>3 DEF Moves
    <3>5. MembersOf(a[1])' = MembersOf(a[1]) BY <2>0 DEF MembersOf, members
    <3>6. Cardinality(InFlight(a)') <= Limit
      <4>1. InFlight(a)' = {} BY <3>1 DEF InFlight
      <4>2. Cardinality({}) = 0 BY FS_EmptySet
      <4> QED BY <4>1, <4>2
    <3>7. TasksOf(a)'
      <4>1. \A s \in InLane(a, "content") : Lane[s] = "content" /\ s \in MembersOf(a[1])
        BY DEF InLane, MembersOf, Unfinished
      <4> QED BY <1>0, <2>2, <3>1, <3>5, <3>6, <4>1 DEF TasksOf
    <3> QED BY <2>0, <2>2, <3>2, <3>4, <3>7, QuietStep
  <2> QED BY <1>1, <2>1, <2>2 DEF Start
<1>2. ASSUME NEW p \in {"capability", "catalog"}, Listed(a, p, p), phase[a] # "none",
             \A s \in Sources : at[a][s] = "out"
      PROVE  IInv' /\ Keeps
  <2>1. /\ UNCHANGED <<operation, members, plans, outcome, drift, group, at, probed>>
        /\ phase' = [phase EXCEPT ![a] = p] /\ left' = [left EXCEPT ![a] = InLane(a, p)]
    BY <1>2 DEF Listed, Goes, tasks
  <2>2. InLane(a, p) \in SUBSET Sources BY DEF InLane
  <2>3. HandlerTypes' BY <1>0, <2>1, <2>2 DEF HandlerTypes
  <2>4. /\ phase'[a] = p /\ left'[a] = InLane(a, p)
        /\ \A c \in Attempts \ {a} : phase'[c] = phase[c] /\ left'[c] = left[c]
    BY <1>0, <2>1 DEF HandlerTypes
  <2>5. Moves(a) BY <1>2, <2>1, <2>4 DEF Moves, Awaits
  <2>6. InFlight(a)' = InFlight(a) /\ MembersOf(a[1])' = MembersOf(a[1])
    BY <2>1 DEF InFlight, MembersOf, members
  <2>7. \A s \in InLane(a, p) : Lane[s] = p /\ s \in MembersOf(a[1])
    BY DEF InLane, MembersOf, Unfinished
  <2>8. TasksOf(a)' BY <1>0, <1>2, <2>1, <2>4, <2>6, <2>7 DEF TasksOf
  <2> QED BY <2>1, <2>3, <2>5, <2>8, QuietStep
<1>3. CASE EndContent(a)
  <2>1. \A s \in Sources : at[a][s] = "out" BY <1>3 DEF EndContent, NoTasks
  <2> QED BY <1>2, <1>3, <2>1 DEF EndContent
<1>4. CASE EndCapability(a)
  <2>1. \A s \in Sources : at[a][s] = "out"
    BY <1>0, <1>4 DEF EndCapability, TasksOf, HandlerTypes
  <2> QED BY <1>2, <1>4, <2>1 DEF EndCapability
<1> QED BY <1>1, <1>3, <1>4

(* Members that are claimed begin to run, and are not counted yet.         *)
LEMMA ClaimFacts ==
  ASSUME IInv, NEW a \in Attempts, NEW ms \in SUBSET Sources,
         \A s \in ms : Claimable(a, s), Claimed(a, ms)
  PROVE  /\ \A s \in ms : s \in MembersOf(a[1])
         /\ \A s \in ms : probed[a[1]][s] = {}
         /\ claim' \in [Batches -> [Sources -> 1..MaxAttempts \cup {None}]]
         /\ \A s \in ms : claim'[a[1]][s] = a[2]
         /\ \A c \in Batches, s \in Sources : c # a[1] \/ s \notin ms =>
              claim'[c][s] = claim[c][s]
<1>0. MemberTypes /\ Probes /\ a[1] \in Batches /\ a[2] \in 1..MaxAttempts BY HandlerFacts
<1>1. \A s \in ms : s \in MembersOf(a[1]) BY DEF Claimable, MembersOf
<1>2. \A s \in ms : probed[a[1]][s] = {} BY <1>0 DEF Claimable, Probes
<1>3. /\ claim' \in [Batches -> [Sources -> 1..MaxAttempts \cup {None}]]
      /\ \A s \in ms : claim'[a[1]][s] = a[2]
      /\ \A c \in Batches, s \in Sources : c # a[1] \/ s \notin ms => claim'[c][s] = claim[c][s]
  BY <1>0 DEF Claimed, MemberTypes
<1> QED BY <1>1, <1>2, <1>3

LEMMA SendFacts ==
  ASSUME MemberTypes, NEW a \in Attempts, NEW ms \in SUBSET Sources, Sends(a, ms)
  PROVE  /\ probed' \in [Batches -> [Sources -> SUBSET (1..MaxAttempts)]]
         /\ \A s \in ms : probed'[a[1]][s] = probed[a[1]][s] \cup {a[2]}
         /\ \A c \in Batches, s \in Sources : c # a[1] \/ s \notin ms =>
              probed'[c][s] = probed[c][s]
BY Parts DEF Sends, MemberTypes

LEMMA RunCounts ==
  ASSUME IInv, NEW a \in Attempts, NEW ms \in SUBSET Sources,
         \A s \in ms : Claimable(a, s),
         state' = [state EXCEPT ![a[1]] = [s \in Sources |-> IF s \in ms THEN "running" ELSE @[s]]],
         UNCHANGED progress
  PROVE  /\ ProgressCounts' /\ progress' \in [Batches -> Nat]
         /\ state' \in [Batches -> [Sources -> {"absent"} \cup Unfinished \cup Verdicts]]
         /\ \A s \in ms : state'[a[1]][s] = "running"
         /\ \A c \in Batches, s \in Sources : c # a[1] \/ s \notin ms => state'[c][s] = state[c][s]
<1>0. MemberTypes /\ ProgressCounts /\ a[1] \in Batches BY HandlerFacts
<1>1. /\ state' \in [Batches -> [Sources -> {"absent"} \cup Unfinished \cup Verdicts]]
      /\ \A s \in ms : state'[a[1]][s] = "running"
      /\ \A c \in Batches, s \in Sources : c # a[1] \/ s \notin ms => state'[c][s] = state[c][s]
  BY <1>0 DEF MemberTypes, Unfinished
<1>2. \A c \in Batches : Finished(c)' = Finished(c)
  <2> SUFFICES ASSUME NEW c \in Batches, NEW s \in Sources
               PROVE  state'[c][s] \in Verdicts <=> state[c][s] \in Verdicts
    BY DEF Finished
  <2> QED BY <1>1 DEF Claimable, Verdicts
<1> QED BY <1>0, <1>1, <1>2 DEF ProgressCounts, MemberTypes

(* Writes leave the members of the batches as they are.                    *)
LEMMA WritesKeepMembers ==
  ASSUME NEW a \in Attempts, NEW ms \in SUBSET Sources, Writes(a, ms)
  PROVE  \A c \in Batches : MembersOf(c)' = MembersOf(c)
<1> SUFFICES ASSUME NEW c \in Batches, NEW s \in Sources
             PROVE  state'[c][s] = "absent" <=> state[c][s] = "absent"
  BY DEF MembersOf
<1>1. CASE c # a[1] \/ s \notin ms BY <1>1 DEF Writes
<1>2. CASE c = a[1] /\ s \in ms BY <1>2 DEF Writes, MembersOf, Verdicts
<1> QED BY <1>1, <1>2

---------------------------------------------------------------------------
(* The capability lane.                                                    *)

(* A step that moves a handler of the capability lane on to another phase, *)
(* group or list, and leaves its tasks.                                    *)
MovesGroup(a, p, g, ms) ==
  Goes(a, p) /\ group' = [group EXCEPT ![a] = g] /\ Visited(a, ms)

LEMMA GroupFacts ==
  ASSUME HandlerTypes, NEW a \in Attempts, TasksOf(a),
         phase[a] \in {"capability", "stale", "probing", "finishing", "after"},
         NEW p \in {"capability", "stale", "probing", "finishing", "after"},
         NEW g \in {Provider[s] : s \in Sources} \cup {None},
         NEW ms \in SUBSET Sources, MovesGroup(a, p, g, ms), UNCHANGED <<outcome, drift, at>>,
         \A c \in Batches : MembersOf(c)' = MembersOf(c)
  PROVE  /\ HandlerTypes' /\ TasksOf(a)'
         /\ phase'[a] = p /\ group'[a] = g /\ left'[a] = left[a] \ ms
         /\ \A s \in Sources : at'[a][s] = "out"
         /\ \A c \in Attempts \ {a} :
              /\ phase'[c] = phase[c] /\ outcome'[c] = outcome[c] /\ drift'[c] = drift[c]
              /\ left'[c] = left[c] /\ group'[c] = group[c] /\ at'[c] = at[c]
<1> USE DEF MovesGroup
<1>0. a[1] \in Batches BY Parts
<1>1. /\ phase'[a] = p /\ group'[a] = g /\ left'[a] = left[a] \ ms
      /\ \A c \in Attempts \ {a} :
           /\ phase'[c] = phase[c] /\ outcome'[c] = outcome[c] /\ drift'[c] = drift[c]
           /\ left'[c] = left[c] /\ group'[c] = group[c] /\ at'[c] = at[c]
  BY DEF HandlerTypes, Goes, Visited
<1>2. HandlerTypes'
  <2>1. left' \in [Attempts -> SUBSET Sources] BY DEF HandlerTypes, Visited
  <2>2. group' \in [Attempts -> {Provider[s] : s \in Sources} \cup {None}] BY DEF HandlerTypes
  <2> QED BY <2>1, <2>2 DEF HandlerTypes, Goes
<1>3. \A s \in Sources : at'[a][s] = "out" BY DEF HandlerTypes, TasksOf
<1>4. Cardinality(InFlight(a)') <= Limit
  <2>1. InFlight(a)' = InFlight(a) BY DEF InFlight
  <2> QED BY <2>1 DEF TasksOf
<1>5. TasksOf(a)' BY <1>0, <1>1, <1>3, <1>4 DEF TasksOf
<1> QED BY <1>1, <1>2, <1>3, <1>5

LEMMA GroupQuietStep ==
  ASSUME IInv, NEW a \in Attempts, UNCHANGED <<operation, members, plans, probed, outcome, drift, at>>,
         phase[a] \in {"capability", "stale", "probing", "finishing", "after"},
         NEW p \in {"capability", "stale", "finishing", "after"}, Goes(a, p),
         p = "finishing" => phase[a] = "probing" /\ group' = group,
         NEW g \in {Provider[s] : s \in Sources} \cup {None}, group' = [group EXCEPT ![a] = g],
         NEW ms \in SUBSET Sources, Visited(a, ms)
  PROVE  IInv' /\ Keeps
<1>0. HandlerTypes /\ TasksOf(a) BY HandlerFacts
<1>1. \A c \in Batches : MembersOf(c)' = MembersOf(c) BY DEF MembersOf, members
<1>2. /\ HandlerTypes' /\ TasksOf(a)'
      /\ phase'[a] = p
      /\ \A s \in Sources : at'[a][s] = "out"
      /\ \A c \in Attempts \ {a} :
           /\ phase'[c] = phase[c] /\ outcome'[c] = outcome[c] /\ drift'[c] = drift[c]
           /\ left'[c] = left[c] /\ group'[c] = group[c] /\ at'[c] = at[c]
  <2>1. p \in {"capability", "stale", "probing", "finishing", "after"} OBVIOUS
  <2>2. UNCHANGED <<outcome, drift, at>> OBVIOUS
  <2>3. phase[a] \in {"capability", "stale", "probing", "finishing", "after"} OBVIOUS
  <2>4. MovesGroup(a, p, g, ms) BY DEF MovesGroup
  <2> QED BY ONLY <1>0, <1>1, <2>1, <2>2, <2>3, <2>4, a \in Attempts, ms \in SUBSET Sources,
                  g \in {Provider[t] : t \in Sources} \cup {None}, GroupFacts
<1>3. \A s \in Sources : Awaits(a, s)' => Awaits(a, s)
  <2>1. left'[a] \subseteq left[a] /\ group'[a] = g
    BY <1>0 DEF Visited, HandlerTypes
  <2> QED BY <1>2, <2>1 DEF Awaits, GroupOf
<1>4. Moves(a) BY <1>2, <1>3 DEF Moves
<1> QED BY <1>2, <1>4, QuietStep

LEMMA BeginGroupStep ==
  ASSUME IInv, NEW a \in Attempts, NEW p \in {Provider[s] : s \in Sources}, BeginGroup(a, p)
  PROVE  IInv' /\ Keeps
<1>0. HandlerTypes BY HandlerFacts
<1>1. phase[a] = "capability" /\ UNCHANGED <<operation, members, plans>> BY DEF BeginGroup
<1>2. CASE /\ Goes(a, "stale") /\ group' = [group EXCEPT ![a] = p]
           /\ UNCHANGED <<outcome, drift, left, tasks, probed>>
  <2>1. Visited(a, {}) BY <1>0, <1>2 DEF Visited, HandlerTypes
  <2> QED BY <1>1, <1>2, <2>1, GroupQuietStep DEF tasks
<1>3. CASE Stopped(a, "returned", "error") BY <1>1, <1>3, StopStep
<1>4. CASE Interrupted(a) BY <1>1, <1>4, InterruptedStep
<1> QED BY <1>2, <1>3, <1>4 DEF BeginGroup

LEMMA EndGroupStep ==
  ASSUME IInv, NEW a \in Attempts, EndGroup(a) PROVE IInv' /\ Keeps
<1>0. HandlerTypes BY HandlerFacts
<1>1. phase[a] = "after" /\ UNCHANGED <<operation, members, plans>> BY DEF EndGroup
<1>2. CASE /\ Goes(a, "capability") /\ group' = [group EXCEPT ![a] = None]
           /\ UNCHANGED <<outcome, drift, left, tasks, probed>>
  <2>1. Visited(a, {}) BY <1>0, <1>2 DEF Visited, HandlerTypes
  <2> QED BY <1>1, <1>2, <2>1, GroupQuietStep DEF tasks
<1>3. CASE Stopped(a, "returned", "cancelled") BY <1>1, <1>3, StopStep
<1> QED BY <1>2, <1>3 DEF EndGroup

LEMMA GroupProbedStep ==
  ASSUME IInv, NEW a \in Attempts, GroupProbed(a) PROVE IInv' /\ Keeps
<1>0. HandlerTypes BY HandlerFacts
<1>1. /\ phase[a] = "probing" /\ Goes(a, "finishing")
      /\ UNCHANGED <<operation, members, plans, outcome, drift, left, group, at, probed>>
  BY DEF GroupProbed, tasks
<1>2. PICK g \in {Provider[s] : s \in Sources} \cup {None} : g = group[a]
  BY <1>0 DEF HandlerTypes
<1>3. group' = [group EXCEPT ![a] = g] /\ Visited(a, {})
  BY <1>0, <1>1, <1>2 DEF Visited, HandlerTypes
<1> QED BY <1>1, <1>3, GroupQuietStep

LEMMA FinishStaleStep ==
  ASSUME IInv, NEW a \in Attempts, NEW s \in Sources, FinishStale(a, s) PROVE IInv' /\ Keeps
<1>0. /\ MemberTypes /\ HandlerTypes /\ TasksOf(a) /\ HoldsOf(a) /\ ProgressCounts
      /\ a[1] \in Batches
  BY HandlerFacts
<1>1. /\ phase[a] = "stale" /\ s \in left[a] /\ Write(a, s, "stale") /\ Visited(a, {s})
      /\ UNCHANGED <<operation, claim, plans, phase, outcome, drift, group, at, probed>>
  BY DEF FinishStale, Drifted, GroupOf, tasks
<1>2. s \in MembersOf(a[1]) BY <1>0, <1>1 DEF TasksOf
<1>3. /\ ProgressCounts' /\ progress' \in [Batches -> Nat]
      /\ state' \in [Batches -> [Sources -> {"absent"} \cup Unfinished \cup Verdicts]]
      /\ state'[a[1]][s] = "stale"
      /\ \A c \in Batches, t \in Sources : c # a[1] \/ t # s => state'[c][t] = state[c][t]
  <2>1. PICK v \in Verdicts : v = "stale" BY DEF Verdicts
  <2> QED BY <1>0, <1>1, <1>2, <2>1, WriteCounts
<1>4. Writes(a, {s}) BY <1>0, <1>1, <1>2, <1>3 DEF Writes, MemberTypes, Verdicts
<1>5. ByRight(a, s) BY <1>0, <1>1, <1>3 DEF ByRight, Verdicts
<1>6. \A c \in Batches : MembersOf(c)' = MembersOf(c) BY <1>4, WritesKeepMembers
<1>7. PICK g \in {Provider[t] : t \in Sources} \cup {None} : g = group[a]
  BY <1>0 DEF HandlerTypes
<1>8. group' = [group EXCEPT ![a] = g] /\ Goes(a, "stale")
  BY <1>0, <1>1, <1>7 DEF Goes, HandlerTypes
<1>9. /\ HandlerTypes' /\ TasksOf(a)' /\ phase'[a] = "stale"
      /\ \A t \in Sources : at'[a][t] = "out"
      /\ \A c \in Attempts \ {a} :
           /\ phase'[c] = phase[c] /\ outcome'[c] = outcome[c]
           /\ left'[c] = left[c] /\ group'[c] = group[c] /\ at'[c] = at[c]
  <2>1. UNCHANGED <<outcome, drift, at>> BY <1>1
  <2>2. phase[a] \in {"capability", "stale", "probing", "finishing", "after"} BY <1>1
  <2>3. "stale" \in {"capability", "stale", "probing", "finishing", "after"} OBVIOUS
  <2>4. MovesGroup(a, "stale", g, {s}) BY <1>1, <1>8 DEF MovesGroup
  <2> QED BY ONLY <1>0, <1>6, <2>1, <2>2, <2>3, <2>4, a \in Attempts, {s} \in SUBSET Sources,
                  g \in {Provider[t] : t \in Sources} \cup {None}, GroupFacts, ZenonT(30)
<1>10. \A t \in Sources : ~Awaits(a, t)' BY <1>9 DEF Awaits
<1>11. HoldsOf(a)' BY <1>10 DEF HoldsOf
<1>12. {s} \in SUBSET Sources /\ outcome'[a] = outcome[a] BY <1>1
<1>13. \A t \in {s} : ByClaim(a, t) \/ ByRight(a, t) BY <1>5
<1>14. phase[a] # "none" /\ phase'[a] # "none" BY <1>1, <1>9
<1>15. UNCHANGED <<operation, plans>> BY <1>1
<1> QED BY ONLY IInv, <1>3, <1>4, <1>9, <1>10, <1>11, <1>12, <1>13, <1>14, <1>15, MemberStep

LEMMA ClaimGroupStep ==
  ASSUME IInv, NEW a \in Attempts, ClaimGroup(a) PROVE IInv' /\ Keeps
<1>0. /\ MemberTypes /\ HandlerTypes /\ TasksOf(a) /\ HoldsOf(a) /\ ProgressCounts
      /\ a[1] \in Batches /\ a[2] \in 1..MaxAttempts
  BY HandlerFacts
<1>1. PICK ms \in SUBSET Sources : ms = GroupOf(a) BY <1>0 DEF GroupOf, HandlerTypes
<1>2. phase[a] = "stale" /\ UNCHANGED <<operation, plans, outcome, drift, group, at>>
  BY DEF ClaimGroup, tasks
<1>3. PICK g \in {Provider[s] : s \in Sources} \cup {None} : g = group[a]
  BY <1>0 DEF HandlerTypes
<1>4. group' = [group EXCEPT ![a] = g] BY <1>0, <1>2, <1>3 DEF HandlerTypes
<1>5. CASE Goes(a, "after") /\ Visited(a, ms) /\ UNCHANGED <<members, probed>>
  BY <1>1, <1>2, <1>4, <1>5, GroupQuietStep
<1>6. CASE /\ \A s \in ms : Claimable(a, s)
           /\ Claimed(a, ms) /\ Sends(a, ms)
           /\ state' = [state EXCEPT ![a[1]] =
                         [s \in Sources |-> IF s \in ms THEN "running" ELSE @[s]]]
           /\ Goes(a, "probing") /\ UNCHANGED <<left, progress>>
  <2>1. /\ \A s \in ms : s \in MembersOf(a[1])
        /\ \A s \in ms : probed[a[1]][s] = {}
        /\ claim' \in [Batches -> [Sources -> 1..MaxAttempts \cup {None}]]
        /\ \A s \in ms : claim'[a[1]][s] = a[2]
        /\ \A c \in Batches, s \in Sources : c # a[1] \/ s \notin ms =>
             claim'[c][s] = claim[c][s]
    <3>1. (\A s \in ms : Claimable(a, s)) /\ Claimed(a, ms) BY <1>6
    <3> QED BY ONLY IInv, a \in Attempts, ms \in SUBSET Sources, <3>1, ClaimFacts
  <2>2. /\ probed' \in [Batches -> [Sources -> SUBSET (1..MaxAttempts)]]
        /\ \A s \in ms : probed'[a[1]][s] = probed[a[1]][s] \cup {a[2]}
        /\ \A c \in Batches, s \in Sources : c # a[1] \/ s \notin ms =>
             probed'[c][s] = probed[c][s]
    BY <1>0, <1>6, SendFacts
  <2>3. /\ ProgressCounts' /\ progress' \in [Batches -> Nat]
        /\ state' \in [Batches -> [Sources -> {"absent"} \cup Unfinished \cup Verdicts]]
        /\ \A s \in ms : state'[a[1]][s] = "running"
        /\ \A c \in Batches, s \in Sources : c # a[1] \/ s \notin ms =>
             state'[c][s] = state[c][s]
    BY <1>6, RunCounts
  <2>4. \A s \in ms : Lane[s] = "capability" BY <1>0, <1>1, <1>2 DEF TasksOf, GroupOf
  <2>5. Writes(a, ms) BY <2>1, <2>2, <2>3, <2>4 DEF Writes
  <2>6. \A s \in ms : ByClaim(a, s)
    <3> SUFFICES ASSUME NEW s \in ms PROVE ByClaim(a, s)
      OBVIOUS
    <3>1. probed'[a[1]][s] = {a[2]} /\ claim'[a[1]][s] = a[2] BY <2>1, <2>2
    <3> QED BY <1>6, <3>1 DEF ByClaim, Claimable
  <2>7. \A c \in Batches : MembersOf(c)' = MembersOf(c) BY <2>5, WritesKeepMembers
  <2>8. Visited(a, {}) BY <1>0, <1>6 DEF Visited, HandlerTypes
  <2>9. MovesGroup(a, "probing", g, {}) BY <1>4, <1>6, <2>8 DEF MovesGroup
  <2>10. /\ HandlerTypes' /\ TasksOf(a)' /\ phase'[a] = "probing"
         /\ \A s \in Sources : at'[a][s] = "out"
         /\ \A c \in Attempts \ {a} :
              /\ phase'[c] = phase[c] /\ outcome'[c] = outcome[c]
              /\ left'[c] = left[c] /\ group'[c] = group[c] /\ at'[c] = at[c]
    <3>1. "probing" \in {"capability", "stale", "probing", "finishing", "after"} OBVIOUS
    <3>2. phase[a] \in {"capability", "stale", "probing", "finishing", "after"} BY <1>2
    <3>3. UNCHANGED <<outcome, drift, at>> BY <1>2
    <3> QED BY ONLY <1>0, <2>7, <2>9, <3>1, <3>2, <3>3, a \in Attempts,
                    {} \in SUBSET Sources,
                    g \in {Provider[t] : t \in Sources} \cup {None}, GroupFacts
  <2>11. \A s \in Sources : Awaits(a, s)' <=> s \in ms
    BY <1>1, <1>2, <1>6, <2>10 DEF Awaits, GroupOf
  <2>12. HoldsOf(a)' BY <2>1, <2>3, <2>11 DEF HoldsOf
  <2>13. \A s \in Sources : Awaits(a, s)' => Awaits(a, s) \/ state[a[1]][s] = "pending"
    BY <1>6, <2>11 DEF Claimable
  <2>14. outcome'[a] = outcome[a] /\ phase[a] # "none" /\ phase'[a] # "none"
    BY <1>2, <2>10
  <2>15. UNCHANGED <<operation, plans>> BY <1>2
  <2> QED BY ONLY IInv, <2>3, <2>5, <2>6, <2>10, <2>12, <2>13, <2>14, <2>15, MemberStep
<1> QED BY <1>1, <1>5, <1>6 DEF ClaimGroup

LEMMA FinishCapabilityStep ==
  ASSUME IInv, NEW a \in Attempts, NEW s \in Sources, FinishCapability(a, s)
  PROVE  IInv' /\ Keeps
<1>0. /\ MemberTypes /\ HandlerTypes /\ TasksOf(a) /\ HoldsOf(a) /\ ProgressCounts
      /\ a[1] \in Batches
  BY HandlerFacts
<1>1. /\ phase[a] = "finishing" /\ s \in GroupOf(a)
      /\ UNCHANGED <<operation, claim, plans>>
  BY DEF FinishCapability
<1>2. CASE Stopped(a, "returned", "error") /\ UNCHANGED <<state, progress>>
  BY <1>1, <1>2, StopStep DEF members
<1>3. ASSUME NEW v \in {"succeeded", "transient", "rejected"}, Write(a, s, v), Visited(a, {s}),
             NEW p \in {"after", "finishing"}, Goes(a, p),
             UNCHANGED <<outcome, drift, group, tasks, probed>>
      PROVE  IInv' /\ Keeps
  <2>1. s \in MembersOf(a[1]) /\ Lane[s] = "capability" /\ Awaits(a, s)
    BY <1>0, <1>1 DEF TasksOf, GroupOf, Awaits
  <2>2. v \in Verdicts BY DEF Verdicts
  <2>3. /\ ProgressCounts' /\ progress' \in [Batches -> Nat]
        /\ state' \in [Batches -> [Sources -> {"absent"} \cup Unfinished \cup Verdicts]]
        /\ state'[a[1]][s] = v
        /\ \A c \in Batches, t \in Sources : c # a[1] \/ t # s => state'[c][t] = state[c][t]
    BY <1>0, <1>3, <2>1, <2>2, WriteCounts
  <2>4. Writes(a, {s}) BY <1>0, <1>1, <1>3, <2>1, <2>2, <2>3 DEF Writes, MemberTypes
  <2>5. \A c \in Batches : MembersOf(c)' = MembersOf(c) BY <2>4, WritesKeepMembers
  <2>6. PICK g \in {Provider[t] : t \in Sources} \cup {None} : g = group[a]
    BY <1>0 DEF HandlerTypes
  <2>7. group' = [group EXCEPT ![a] = g] BY <1>0, <1>3, <2>6 DEF HandlerTypes
  <2>8. MovesGroup(a, p, g, {s}) BY <1>3, <2>7 DEF MovesGroup
  <2>9. /\ HandlerTypes' /\ TasksOf(a)' /\ phase'[a] = p
        /\ \A t \in Sources : at'[a][t] = "out"
        /\ \A c \in Attempts \ {a} :
             /\ phase'[c] = phase[c] /\ outcome'[c] = outcome[c]
             /\ left'[c] = left[c] /\ group'[c] = group[c] /\ at'[c] = at[c]
    <3>1. p \in {"capability", "stale", "probing", "finishing", "after"} OBVIOUS
    <3>2. phase[a] \in {"capability", "stale", "probing", "finishing", "after"} BY <1>1
    <3>3. UNCHANGED <<outcome, drift, at>> BY <1>3 DEF tasks
    <3>4. {s} \in SUBSET Sources OBVIOUS
    <3>5. CASE p = "after"
      BY ONLY <1>0, <2>5, <2>8, <3>1, <3>2, <3>3, <3>4, <3>5, a \in Attempts,
              g \in {Provider[t] : t \in Sources} \cup {None}, GroupFacts
    <3>6. CASE p = "finishing"
      BY ONLY <1>0, <2>5, <2>8, <3>1, <3>2, <3>3, <3>4, <3>6, a \in Attempts,
              g \in {Provider[t] : t \in Sources} \cup {None}, GroupFacts
    <3> QED BY <3>5, <3>6
  <2>10. left'[a] = left[a] \ {s} BY <1>0, <1>3 DEF Visited, HandlerTypes
  <2>11. ~Awaits(a, s)' /\ \A t \in Sources : Awaits(a, t)' => Awaits(a, t) /\ t # s
    BY <1>1, <1>3, <2>9, <2>10 DEF Awaits, GroupOf
  <2>12. HoldsOf(a)' BY <1>0, <1>1, <2>3, <2>11 DEF HoldsOf
  <2>13. \A t \in {s} : ByRight(a, t)
    BY <1>1, <1>3, <2>1, <2>2, <2>3, <2>11 DEF ByRight
  <2>14. outcome'[a] = outcome[a] /\ phase[a] # "none" /\ phase'[a] # "none"
    BY <1>1, <1>3, <2>9
  <2>15. UNCHANGED <<operation, plans>> /\ {s} \in SUBSET Sources BY <1>1
  <2> QED BY ONLY IInv, a \in Attempts, <2>3, <2>4, <2>9, <2>11, <2>12, <2>13, <2>14, <2>15,
                  MemberStep
<1>4. /\ HoldsClaim(a, s)
      /\ \/ /\ \E v \in {"succeeded", "transient", "rejected"} : Write(a, s, v)
            /\ Visited(a, {s})
            /\ \E p \in {"after", "finishing"} : Goes(a, p)
            /\ UNCHANGED <<outcome, drift, group, tasks, probed>>
         \/ Stopped(a, "returned", "error") /\ UNCHANGED <<state, progress>>
  BY DEF FinishCapability
<1> QED BY <1>2, <1>3, <1>4

---------------------------------------------------------------------------
(* The catalog lane.                                                       *)

LEMMA CheckCatalogStep ==
  ASSUME IInv, NEW a \in Attempts, NEW s \in Sources, CheckCatalog(a, s) PROVE IInv' /\ Keeps
<1>0. /\ MemberTypes /\ HandlerTypes /\ TasksOf(a) BY HandlerFacts
<1>1. phase[a] = "catalog" /\ s \in left[a] /\ UNCHANGED <<operation, members, plans>>
  BY DEF CheckCatalog
<1>2. CASE Task(a, s, "checked")
           /\ UNCHANGED <<phase, outcome, drift, left, group, rounds, retried, probed>>
  <2>1. \A c \in Batches : MembersOf(c)' = MembersOf(c) BY <1>1 DEF MembersOf, members
  <2>2. Lane[s] = "catalog" /\ s \in MembersOf(a[1]) BY <1>0, <1>1 DEF TasksOf
  <2>3. /\ HandlerTypes' /\ TasksOf(a)'
        /\ \A u \in Sources : Awaits(a, u)' => Awaits(a, u)
        /\ \A c \in Attempts \ {a} : at'[c] = at[c]
    BY <1>0, <1>1, <1>2, <2>1, <2>2, TaskFacts
  <2>4. Moves(a) BY <1>2, <2>3 DEF Moves
  <2> QED BY <1>1, <1>2, <2>3, <2>4, QuietStep
<1>3. CASE Stopped(a, "returned", "error") BY <1>1, <1>3, StopStep
<1>4. CASE Stopped(a, "returned", "cancelled") BY <1>1, <1>4, StopStep
<1> QED BY <1>2, <1>3, <1>4 DEF CheckCatalog

LEMMA FinishCatalogStep ==
  ASSUME IInv, NEW a \in Attempts, NEW s \in Sources, FinishCatalog(a, s) PROVE IInv' /\ Keeps
<1>0. /\ MemberTypes /\ HandlerTypes /\ TasksOf(a) /\ HoldsOf(a) /\ ProgressCounts
      /\ a[1] \in Batches
  BY HandlerFacts
<1>1. /\ phase[a] = "catalog" /\ at[a][s] = "checked" /\ Write(a, s, CatalogVerdict(a, s))
      /\ UNCHANGED <<operation, claim, plans, probed>>
  BY DEF FinishCatalog, Stopped
<1>2. s \in MembersOf(a[1]) /\ Lane[s] = "catalog" BY <1>0, <1>1 DEF TasksOf
<1>3. PICK v \in {"stale", EntryVerdict(s)} : v = CatalogVerdict(a, s)
  BY DEF CatalogVerdict, EntryVerdict
<1>4. v \in Verdicts BY DEF EntryVerdict, Verdicts
<1>5. /\ ProgressCounts' /\ progress' \in [Batches -> Nat]
      /\ state' \in [Batches -> [Sources -> {"absent"} \cup Unfinished \cup Verdicts]]
      /\ state'[a[1]][s] = v
      /\ \A c \in Batches, t \in Sources : c # a[1] \/ t # s => state'[c][t] = state[c][t]
  BY <1>0, <1>1, <1>2, <1>3, <1>4, WriteCounts
<1>6. Writes(a, {s}) BY <1>0, <1>1, <1>2, <1>4, <1>5 DEF Writes, MemberTypes
<1>7. \A c \in Batches : MembersOf(c)' = MembersOf(c) BY <1>6, WritesKeepMembers
<1>8. \A t \in {s} : ByRight(a, t) BY <1>1, <1>2, <1>4, <1>5 DEF ByRight
<1>9. ASSUME HandlerTypes', TasksOf(a)', \A t \in Sources : ~Awaits(a, t)',
             outcome'[a] # "succeeded" \/ outcome'[a] = outcome[a], phase'[a] # "none",
             \A c \in Attempts \ {a} :
               /\ phase'[c] = phase[c] /\ outcome'[c] = outcome[c]
               /\ left'[c] = left[c] /\ group'[c] = group[c] /\ at'[c] = at[c]
      PROVE  IInv' /\ Keeps
  <2>1. HoldsOf(a)' BY <1>9 DEF HoldsOf
  <2>2. UNCHANGED <<operation, plans>> /\ phase[a] # "none" /\ {s} \in SUBSET Sources BY <1>1
  <2> QED BY ONLY IInv, a \in Attempts, <1>5, <1>6, <1>8, <1>9, <2>1, <2>2, MemberStep
<1>10. CASE /\ Task(a, s, "out") /\ Visited(a, {s})
            /\ UNCHANGED <<phase, outcome, drift, group, rounds, retried, probed>>
  <2>1. /\ at'[a][s] = "out" /\ \A u \in Sources : u # s => at'[a][u] = at[a][u]
        /\ left'[a] = left[a] \ {s}
        /\ \A c \in Attempts \ {a} : at'[c] = at[c] /\ left'[c] = left[c]
        /\ HandlerTypes'
    <3>1. /\ at'[a][s] = "out" /\ \A u \in Sources : u # s => at'[a][u] = at[a][u]
          /\ \A c \in Attempts \ {a} : at'[c] = at[c]
          /\ at' \in [Attempts -> [Sources -> {"out", "waiting", "probing", "checked"}]]
      BY <1>0, <1>10 DEF Task, HandlerTypes
    <3>2. /\ left'[a] = left[a] \ {s} /\ \A c \in Attempts \ {a} : left'[c] = left[c]
          /\ left' \in [Attempts -> SUBSET Sources]
      BY <1>0, <1>10 DEF Visited, HandlerTypes
    <3> QED BY <1>0, <1>10, <3>1, <3>2 DEF HandlerTypes
  <2>2. Cardinality(InFlight(a)') <= Limit
    <3>1. InFlight(a)' \subseteq InFlight(a) BY <2>1 DEF InFlight
    <3>2. Cardinality(InFlight(a)) <= Limit BY <1>0 DEF TasksOf
    <3> QED BY <3>1, <3>2, FlightIsBounded
  <2>3. TasksOf(a)'
    <3>1. MembersOf(a[1])' = MembersOf(a[1]) /\ phase'[a] = "catalog" BY <1>0, <1>1, <1>7, <1>10
    <3> QED BY <1>0, <1>1, <2>1, <2>2, <3>1 DEF TasksOf
  <2>4. phase'[a] = "catalog" BY <1>1, <1>10
  <2>5. \A t \in Sources : ~Awaits(a, t)' BY <2>3, <2>4 DEF Awaits, TasksOf
  <2> QED BY <1>9, <1>10, <2>1, <2>3, <2>4, <2>5
<1>11. CASE Stopped(a, "returned", "cancelled")
  <2>1. HandlerTypes' /\ TasksOf(a)' /\ Moves(a) /\ \A t \in Sources : ~Awaits(a, t)'
    BY <1>0, <1>1, <1>11, StoppedFacts
  <2>2. outcome'[a] = "cancelled" /\ phase'[a] = "returned"
    BY <1>0, <1>11 DEF Stopped, Goes, HandlerTypes
  <2> QED BY <1>9, <2>1, <2>2 DEF Moves
<1> QED BY <1>10, <1>11 DEF FinishCatalog

---------------------------------------------------------------------------
(* The content lane.                                                       *)

(* A verdict is written by a handler whose task for the member ends.       *)
LEMMA ContentWriteStep ==
  ASSUME IInv, NEW a \in Attempts, NEW s \in Sources, NEW v \in Verdicts,
         phase[a] = "content", s \in MembersOf(a[1]), Lane[s] = "content",
         Write(a, s, v), Task(a, s, "out"),
         UNCHANGED <<operation, plans, phase, outcome, drift, left, group, probed>>,
         \/ claim' = claim /\ (Awaits(a, s) \/ v = "stale")
         \/ Claimable(a, s) /\ Claimed(a, {s})
  PROVE  IInv' /\ Keeps
<1>0. /\ MemberTypes /\ HandlerTypes /\ TasksOf(a) /\ HoldsOf(a) /\ ProgressCounts /\ Probes
      /\ a[1] \in Batches
  BY HandlerFacts
<1>1. /\ ProgressCounts' /\ progress' \in [Batches -> Nat]
      /\ state' \in [Batches -> [Sources -> {"absent"} \cup Unfinished \cup Verdicts]]
      /\ state'[a[1]][s] = v
      /\ \A c \in Batches, t \in Sources : c # a[1] \/ t # s => state'[c][t] = state[c][t]
  BY <1>0, WriteCounts
<1>2. /\ claim' \in [Batches -> [Sources -> 1..MaxAttempts \cup {None}]]
      /\ \A c \in Batches, t \in Sources : c # a[1] \/ t # s => claim'[c][t] = claim[c][t]
  <2>1. CASE claim' = claim BY <1>0, <2>1 DEF MemberTypes
  <2>2. CASE Claimable(a, s) /\ Claimed(a, {s})
    <3>1. {s} \in SUBSET Sources /\ \A t \in {s} : Claimable(a, t) BY <2>2
    <3> QED BY ONLY IInv, a \in Attempts, <2>2, <3>1, ClaimFacts
  <2> QED BY <2>1, <2>2
<1>3. Writes(a, {s}) BY <1>0, <1>1, <1>2 DEF Writes, MemberTypes
<1>4. \A c \in Batches : MembersOf(c)' = MembersOf(c) BY <1>3, WritesKeepMembers
<1>5. /\ HandlerTypes' /\ TasksOf(a)' /\ at'[a][s] = "out"
      /\ \A u \in Sources : u # s => at'[a][u] = at[a][u]
      /\ \A u \in Sources : Awaits(a, u)' => Awaits(a, u)
      /\ \A c \in Attempts \ {a} : at'[c] = at[c]
  BY <1>0, <1>4, TaskFacts
<1>6. ~Awaits(a, s)' BY <1>5 DEF Awaits
<1>7. HoldsOf(a)'
  <2> SUFFICES ASSUME NEW t \in Sources, Awaits(a, t)'
               PROVE  claim'[a[1]][t] = a[2] /\ state'[a[1]][t] \in {"running", "stale"}
    BY DEF HoldsOf
  <2>1. t # s BY <1>6
  <2>2. Awaits(a, t) BY <1>5, <2>1
  <2>3. claim[a[1]][t] = a[2] /\ state[a[1]][t] \in {"running", "stale"}
    BY <1>0, <2>2 DEF HoldsOf
  <2>4. claim'[a[1]][t] = claim[a[1]][t] /\ state'[a[1]][t] = state[a[1]][t]
    BY <1>0, <1>1, <1>2, <2>1
  <2> QED BY <2>3, <2>4
<1>8. \A t \in {s} : ByClaim(a, t) \/ ByRight(a, t)
  <2>1. CASE claim' = claim /\ (Awaits(a, s) \/ v = "stale")
    BY <1>1, <1>6, <2>1 DEF ByRight
  <2>2. CASE Claimable(a, s) BY <1>0, <2>2 DEF ByClaim, Claimable, Probes
  <2> QED BY <2>1, <2>2
<1>9. /\ UNCHANGED <<operation, plans>> /\ {s} \in SUBSET Sources
      /\ outcome'[a] = outcome[a] /\ phase[a] # "none" /\ phase'[a] # "none"
      /\ \A c \in Attempts \ {a} :
           /\ phase'[c] = phase[c] /\ outcome'[c] = outcome[c]
           /\ left'[c] = left[c] /\ group'[c] = group[c] /\ at'[c] = at[c]
  BY <1>5
<1> QED BY ONLY IInv, a \in Attempts, <1>1, <1>3, <1>5, <1>7, <1>8, <1>9, MemberStep

(* A member is claimed and begins to run, and its request is sent or its   *)
(* handler stops.                                                          *)
LEMMA ContentRunStep ==
  ASSUME IInv, NEW a \in Attempts, NEW s \in Sources,
         phase[a] = "content", s \in MembersOf(a[1]), Lane[s] = "content",
         Cardinality(InFlight(a)) < Limit, Claimable(a, s), Claimed(a, {s}),
         state' = [state EXCEPT ![a[1]][s] = "running"], UNCHANGED <<progress, operation, plans>>,
         \/ /\ Task(a, s, "probing") /\ Sends(a, {s})
            /\ UNCHANGED <<phase, outcome, drift, left, group>>
         \/ Interrupted(a)
  PROVE  IInv' /\ Keeps
<1>0. /\ MemberTypes /\ HandlerTypes /\ TasksOf(a) /\ HoldsOf(a) /\ ProgressCounts /\ Probes
      /\ a[1] \in Batches
  BY HandlerFacts
<1>1. {s} \in SUBSET Sources /\ \A t \in {s} : Claimable(a, t) OBVIOUS
<1>2. /\ \A t \in {s} : probed[a[1]][t] = {}
      /\ claim' \in [Batches -> [Sources -> 1..MaxAttempts \cup {None}]]
      /\ \A t \in {s} : claim'[a[1]][t] = a[2]
      /\ \A c \in Batches, t \in Sources : c # a[1] \/ t \notin {s} => claim'[c][t] = claim[c][t]
  <2>1. Claimed(a, {s}) OBVIOUS
  <2> QED BY ONLY IInv, a \in Attempts, <1>1, <2>1, ClaimFacts
<1>3. /\ ProgressCounts' /\ progress' \in [Batches -> Nat]
      /\ state' \in [Batches -> [Sources -> {"absent"} \cup Unfinished \cup Verdicts]]
      /\ \A t \in {s} : state'[a[1]][t] = "running"
      /\ \A c \in Batches, t \in Sources : c # a[1] \/ t \notin {s} => state'[c][t] = state[c][t]
  <2>1. state' = [state EXCEPT ![a[1]] =
                    [t \in Sources |-> IF t \in {s} THEN "running" ELSE @[t]]]
    BY <1>0 DEF MemberTypes
  <2>2. UNCHANGED progress OBVIOUS
  <2> QED BY ONLY IInv, a \in Attempts, <1>1, <2>1, <2>2, RunCounts
<1>4. ASSUME probed' \in [Batches -> [Sources -> SUBSET (1..MaxAttempts)]],
             probed'[a[1]][s] \subseteq {a[2]},
             \A c \in Batches, t \in Sources : c # a[1] \/ t \notin {s} =>
               probed'[c][t] = probed[c][t],
             HandlerTypes', TasksOf(a)',
             \A t \in Sources : Awaits(a, t)' => Awaits(a, t) \/ t = s,
             outcome'[a] # "succeeded" \/ outcome'[a] = outcome[a], phase'[a] # "none",
             \A c \in Attempts \ {a} :
               /\ phase'[c] = phase[c] /\ outcome'[c] = outcome[c]
               /\ left'[c] = left[c] /\ group'[c] = group[c] /\ at'[c] = at[c]
      PROVE  IInv' /\ Keeps
  <2>1. Writes(a, {s}) BY <1>2, <1>3, <1>4 DEF Writes
  <2>2. \A t \in {s} : ByClaim(a, t) \/ ByRight(a, t)
    BY <1>2, <1>4 DEF ByClaim, Claimable
  <2>3. HoldsOf(a)'
    <3> SUFFICES ASSUME NEW t \in Sources, Awaits(a, t)'
                 PROVE  claim'[a[1]][t] = a[2] /\ state'[a[1]][t] \in {"running", "stale"}
      BY DEF HoldsOf
    <3>1. CASE t = s BY <1>2, <1>3, <3>1
    <3>2. CASE t # s
      <4>1. Awaits(a, t) BY <1>4, <3>2
      <4>2. claim[a[1]][t] = a[2] /\ state[a[1]][t] \in {"running", "stale"}
        BY <1>0, <4>1 DEF HoldsOf
      <4>3. claim'[a[1]][t] = claim[a[1]][t] /\ state'[a[1]][t] = state[a[1]][t]
        BY <1>0, <1>2, <1>3, <3>2
      <4> QED BY <4>2, <4>3
    <3> QED BY <3>1, <3>2
  <2>4. \A t \in Sources : Awaits(a, t)' => Awaits(a, t) \/ state[a[1]][t] = "pending"
    BY <1>4 DEF Claimable
  <2>5. UNCHANGED <<operation, plans>> /\ phase[a] # "none" OBVIOUS
  <2> QED BY ONLY IInv, a \in Attempts, <1>1, <1>3, <1>4, <2>1, <2>2, <2>3, <2>4, <2>5, MemberStep
<1>5. \A c \in Batches : MembersOf(c)' = MembersOf(c)
  <2> SUFFICES ASSUME NEW c \in Batches, NEW t \in Sources
               PROVE  state'[c][t] = "absent" <=> state[c][t] = "absent"
    BY DEF MembersOf
  <2> QED BY <1>3 DEF Claimable
<1>6. CASE /\ Task(a, s, "probing") /\ Sends(a, {s})
           /\ UNCHANGED <<phase, outcome, drift, left, group>>
  <2>1. /\ probed' \in [Batches -> [Sources -> SUBSET (1..MaxAttempts)]]
        /\ \A t \in {s} : probed'[a[1]][t] = probed[a[1]][t] \cup {a[2]}
        /\ \A c \in Batches, t \in Sources : c # a[1] \/ t \notin {s} =>
             probed'[c][t] = probed[c][t]
    <3>1. Sends(a, {s}) BY <1>6
    <3> QED BY ONLY a \in Attempts, <1>0, <1>1, <3>1, SendFacts
  <2>2. /\ HandlerTypes' /\ TasksOf(a)'
        /\ \A u \in Sources : u # s => (Awaits(a, u)' => Awaits(a, u))
        /\ \A c \in Attempts \ {a} : at'[c] = at[c]
    BY <1>0, <1>5, <1>6, TaskFacts
  <2>3. probed'[a[1]][s] \subseteq {a[2]} BY <1>2, <2>1
  <2>4. phase'[a] # "none" BY <1>6
  <2> QED BY <1>4, <1>6, <2>1, <2>2, <2>3, <2>4
<1>7. CASE Interrupted(a)
  <2>1. PICK r \in {"cancelled", "failed"} : Stopped(a, "returned", r)
    BY <1>7 DEF Interrupted
  <2>2. HandlerTypes' /\ TasksOf(a)' /\ Moves(a) /\ \A t \in Sources : ~Awaits(a, t)'
    BY <1>0, <2>1, StoppedFacts
  <2>3. outcome'[a] = r /\ phase'[a] = "returned" /\ probed' = probed
    BY <1>0, <2>1 DEF Stopped, Goes, HandlerTypes
  <2>4. probed'[a[1]][s] \subseteq {a[2]} BY <1>2, <2>3
  <2>5. probed' \in [Batches -> [Sources -> SUBSET (1..MaxAttempts)]]
    BY <1>0, <2>3 DEF MemberTypes
  <2> QED BY <1>4, <2>2, <2>3, <2>4, <2>5 DEF Moves
<1> QED BY <1>6, <1>7

LEMMA ClaimContentStep ==
  ASSUME IInv, NEW a \in Attempts, NEW s \in Sources, ClaimContent(a, s) PROVE IInv' /\ Keeps
<1>0. /\ MemberTypes /\ HandlerTypes /\ TasksOf(a) BY HandlerFacts
<1>1. /\ phase[a] = "content" /\ at[a][s] = "waiting" /\ Cardinality(InFlight(a)) < Limit
      /\ UNCHANGED <<operation, plans>>
  BY DEF ClaimContent
<1>2. s \in MembersOf(a[1]) /\ Lane[s] = "content" BY <1>0, <1>1 DEF TasksOf
<1>3. {"stale", "rejected"} \subseteq Verdicts BY DEF Verdicts
<1>4. CASE /\ Write(a, s, "stale") /\ Task(a, s, "out")
           /\ UNCHANGED <<claim, phase, outcome, drift, left, group, rounds, retried, probed>>
  BY <1>1, <1>2, <1>3, <1>4, ContentWriteStep
<1>5. CASE Task(a, s, "out")
           /\ UNCHANGED <<members, phase, outcome, drift, left, group, rounds, retried, probed>>
  <2>1. \A c \in Batches : MembersOf(c)' = MembersOf(c) BY <1>5 DEF MembersOf, members
  <2>2. /\ HandlerTypes' /\ TasksOf(a)'
        /\ \A u \in Sources : Awaits(a, u)' => Awaits(a, u)
        /\ \A c \in Attempts \ {a} : at'[c] = at[c]
    BY <1>0, <1>5, <2>1, TaskFacts
  <2>3. Moves(a) BY <1>5, <2>2 DEF Moves
  <2> QED BY <1>1, <1>5, <2>2, <2>3, QuietStep
<1>6. ASSUME Claimable(a, s), Claimed(a, {s}), NEW v \in {"stale", "rejected"},
             Write(a, s, v), Task(a, s, "out"),
             UNCHANGED <<phase, outcome, drift, left, group, rounds, retried, probed>>
      PROVE  IInv' /\ Keeps
  BY <1>1, <1>2, <1>3, <1>6, ContentWriteStep
<1>7. CASE /\ Claimable(a, s) /\ Claimed(a, {s})
           /\ state' = [state EXCEPT ![a[1]][s] = "running"] /\ UNCHANGED progress
           /\ \/ /\ Task(a, s, "probing") /\ Sends(a, {s})
                 /\ UNCHANGED <<phase, outcome, drift, left, group>>
              \/ Interrupted(a)
  BY <1>1, <1>2, <1>7, ContentRunStep
<1>8. CASE Stopped(a, "returned", "failed") /\ UNCHANGED members
  BY <1>1, <1>8, StopStep
<1> QED BY <1>4, <1>5, <1>6, <1>7, <1>8 DEF ClaimContent

LEMMA ProbeEndStep ==
  ASSUME IInv, NEW a \in Attempts, NEW s \in Sources, ProbeEnd(a, s) PROVE IInv' /\ Keeps
<1>0. /\ MemberTypes /\ HandlerTypes /\ TasksOf(a) BY HandlerFacts
<1>1. /\ at[a][s] = "probing" /\ UNCHANGED <<operation, claim, plans>> BY DEF ProbeEnd
<1>2. /\ phase[a] = "content" /\ s \in MembersOf(a[1]) /\ Lane[s] = "content" /\ Awaits(a, s)
  BY <1>0, <1>1 DEF TasksOf, Awaits
<1>3. ASSUME NEW v \in {"rejected", "succeeded", "transient"}, Write(a, s, v), Task(a, s, "out"),
             UNCHANGED <<phase, outcome, left, group, drift, probed>>
      PROVE  IInv' /\ Keeps
  <2>1. v \in Verdicts BY DEF Verdicts
  <2> QED BY <1>1, <1>2, <1>3, <2>1, ContentWriteStep
<1>4. CASE UNCHANGED <<state, progress, at, phase, outcome, left, group, drift, probed>>
  <2>1. HandlerTypes' BY <1>0, <1>4 DEF HandlerTypes
  <2>2. InFlight(a)' = InFlight(a) /\ MembersOf(a[1])' = MembersOf(a[1])
    BY <1>4 DEF InFlight, MembersOf
  <2>3. TasksOf(a)' BY <1>0, <1>4, <2>2 DEF TasksOf
  <2>4. Moves(a) BY <1>4 DEF Moves, Awaits, GroupOf
  <2> QED BY <1>1, <1>4, <2>1, <2>3, <2>4, QuietStep DEF members
<1>5. CASE Interrupted(a) /\ UNCHANGED <<state, progress>>
  BY <1>1, <1>2, <1>5, InterruptedStep DEF members
<1> QED BY <1>3, <1>4, <1>5 DEF ProbeEnd

LEMMA JudgeStep ==
  ASSUME IInv, NEW a \in Attempts, Judge(a) PROVE IInv' /\ Keeps
<1>1. phase[a] # "none" /\ UNCHANGED <<operation, members, plans>> BY DEF Judge
<1>2. CASE Stopped(a, "returned", "failed") BY <1>1, <1>2, StopStep
<1>3. CASE Stopped(a, "returned", IF AllSucceeded(a[1]) THEN "succeeded" ELSE "partial")
  <2>1. CASE AllSucceeded(a[1])
    <3>1. Stopped(a, "returned", "succeeded") BY <1>3, <2>1
    <3> QED BY <1>1, <2>1, <3>1, StopStep
  <2>2. CASE ~AllSucceeded(a[1])
    <3>1. Stopped(a, "returned", "partial") BY <1>3, <2>2
    <3> QED BY <1>1, <3>1, StopStep
  <2> QED BY <2>1, <2>2
<1> QED BY <1>2, <1>3 DEF Judge

---------------------------------------------------------------------------
(* Every step keeps the inductive invariant, and the verdicts.             *)
LEMMA NextIInv == IInv /\ [Next]_vars => IInv' /\ Keeps
<1> SUFFICES ASSUME IInv, [Next]_vars PROVE IInv' /\ Keeps
  OBVIOUS
<1>1. CASE UNCHANGED vars
  <2>1. PICK a \in Attempts : TRUE
    <3>1. <<1, 1>> \in Attempts BY DEF Attempts, Batches
    <3> QED BY <3>1
  <2>2. MemberTypes /\ (plan = None \/ plan \in SUBSET Sources) BY HandlerFacts, <2>1
  <2>3. GoesOn(a) BY <1>1, <2>2 DEF GoesOn, vars, operation, MemberTypes, Active
  <2> QED BY <1>1, <2>2, <2>3, OperationStep DEF vars
<1>2. ASSUME NEW b \in Batches,
             \/ Refresh(b) \/ ReadPlan(b) \/ EnqueuePlan(b) \/ RequestCancel(b)
             \/ \E c \in Batches : Copy(b, c)
      PROVE  IInv' /\ Keeps
  BY <1>2, CommandStep
<1>3. ASSUME NEW b \in Batches, Lease(b) PROVE IInv' /\ Keeps
  BY <1>3, LeaseStep
<1>4. ASSUME NEW a \in Attempts, Finish(a) \/ MonitorError(a) \/ Die(a)
      PROVE  IInv' /\ Keeps
  BY <1>4, QueueStep
<1>5. ASSUME NEW a \in Attempts, HandlerStep(a) PROVE IInv' /\ Keeps
  <2>1. CASE Start(a) \/ EndContent(a) \/ EndCapability(a) BY <2>1, ListSteps
  <2>2. CASE ClaimGroup(a) BY <2>2, ClaimGroupStep
  <2>3. CASE GroupProbed(a) BY <2>3, GroupProbedStep
  <2>4. CASE EndGroup(a) BY <2>4, EndGroupStep
  <2>5. CASE Judge(a) BY <2>5, JudgeStep
  <2>6. ASSUME NEW p \in {Provider[s] : s \in Sources}, BeginGroup(a, p) PROVE IInv' /\ Keeps
    BY <2>6, BeginGroupStep
  <2>7. ASSUME NEW s \in Sources,
               \/ ClaimContent(a, s) \/ ProbeEnd(a, s) \/ FinishStale(a, s)
               \/ FinishCapability(a, s) \/ CheckCatalog(a, s) \/ FinishCatalog(a, s)
        PROVE  IInv' /\ Keeps
    BY <2>7, ClaimContentStep, ProbeEndStep, FinishStaleStep, FinishCapabilityStep,
       CheckCatalogStep, FinishCatalogStep
  <2> QED BY <1>5, <2>1, <2>2, <2>3, <2>4, <2>5, <2>6, <2>7 DEF HandlerStep
<1> QED BY <1>1, <1>2, <1>3, <1>4, <1>5 DEF Next

(* The inductive invariant holds in every state of every behaviour.        *)
THEOREM Invariance == Spec => []IInv
<1> QED BY InitIInv, NextIInv, PTL DEF Spec

(* Every batch is exact: types, its progress is the number of its finished *)
(* members, requests for a member come from one attempt, no two batches    *)
(* with members are active at once, and a batch that is reported as        *)
(* succeeded had every member succeed (CatalogRefreshHandler).             *)
THEOREM ExactRefresh == Spec => []RefreshIsExact
<1>1. IInv => RefreshIsExact
  <2> SUFFICES ASSUME IInv PROVE RefreshIsExact
    OBVIOUS
  <2>0. /\ MemberTypes /\ HandlerTypes /\ Probes /\ ProgressCounts /\ OneActiveRefresh
        /\ \A a \in Attempts : TasksOf(a)
        /\ \A b \in Batches : Complete(b)
    BY DEF IInv
  <2>1. TypeOK
    <3>1. ASSUME NEW b \in Batches PROVE progress[b] \in 0..Cardinality(MembersOf(b))
      <4>1. /\ Finished(b) \subseteq MembersOf(b)
            /\ IsFiniteSet(MembersOf(b)) /\ Cardinality(MembersOf(b)) \in Nat
            /\ Cardinality(Finished(b)) \in Nat
        BY SourcesAreCounted DEF Finished, MembersOf, Verdicts
      <4>2. Cardinality(Finished(b)) <= Cardinality(MembersOf(b)) BY <4>1, FS_Subset
      <4> QED BY <2>0, <4>1, <4>2 DEF ProgressCounts
    <3>2. \A a \in Attempts : Cardinality(InFlight(a)) <= Limit BY <2>0 DEF TasksOf
    <3> QED BY <2>0, <3>1, <3>2 DEF TypeOK, MemberTypes, HandlerTypes
  <2>2. ProbedByOneAttempt
    <3> SUFFICES ASSUME NEW b \in Batches, NEW s \in Sources
                 PROVE  Cardinality(probed[b][s]) <= 1
      BY DEF ProbedByOneAttempt
    <3>1. PICK i : probed[b][s] \subseteq {i} BY <2>0 DEF Probes
    <3>2. CASE i \in probed[b][s]
      <4>1. probed[b][s] = {i} /\ Cardinality({i}) = 1 BY <3>1, <3>2, FS_Singleton
      <4> QED BY <4>1
    <3>3. CASE i \notin probed[b][s]
      <4>1. probed[b][s] = {} /\ Cardinality({}) = 0 BY <3>1, <3>3, FS_EmptySet
      <4> QED BY <4>1
    <3> QED BY <3>2, <3>3
  <2>3. SuccessIsComplete
    BY <2>0 DEF SuccessIsComplete, Complete, Judged
  <2> QED BY <2>0, <2>1, <2>2, <2>3 DEF RefreshIsExact
<1> QED BY <1>1, Invariance, PTL

(* A verdict on a member is replaced only by "stale", from a worker with   *)
(* other definitions, or by the late verdict of its claimant after that.   *)
THEOREM KeptVerdicts == Spec => VerdictsAreKept
<1>1. IInv /\ [Next]_vars => [Keeps]_vars BY NextIInv
<1> QED BY <1>1, Invariance, PTL DEF Spec, VerdictsAreKept, Keeps
=============================================================================
