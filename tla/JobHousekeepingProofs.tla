----------------------- MODULE JobHousekeepingProofs ------------------------
(***************************************************************************)
(* Theorems about the queue with a housekeeper that prunes and deletes     *)
(* jobs while workers and clients go on.                                   *)
(***************************************************************************)
EXTENDS JobHousekeeping, JobQueueProofs

(* What is gone is gone: an id without a row has no flag or attempt left. *)
NoGhosts == \A i \in Ids : ~Exists(i) => rows[i] = AbsentRow

HkType == hk \in [pc : {"idle", "files", "list", "sweep"}, op : {"none", "prune", "delete"},
                   ids : SUBSET Ids, left : SUBSET Ids]

(* A housekeeper deletes only under numbers that were given out. *)
Targets == HkType /\ (hk.pc = "files" => \A i \in hk.ids : i < nextId)

HInv == IInv /\ NoGhosts /\ Targets

-----------------------------------------------------------------------------
LEMMA HousekeeperRows ==
    ASSUME TypeOK, HousekeeperStep
    PROVE  /\ rows' \in [Ids -> Row]
           /\ \A i \in Ids : rows'[i] \in {rows[i], AbsentRow}
           /\ UNCHANGED <<nextId, wk, orphans, cancels, crashes>>
<1>1. CASE DeleteRows
  BY <1>1, AbsentRowType DEF DeleteRows, TypeOK
<1>2. CASE ~DeleteRows
  <2>1. UNCHANGED <<rows, nextId, wk, orphans, cancels, crashes>>
    BY <1>2 DEF HousekeeperStep, PruneSelect, DeleteSelect, RemoveSelected, KeepRows, ListRows,
       SweepOrphan, SweepEnds, vars
  <2>2. QED
    BY <2>1 DEF TypeOK
<1>3. QED
  BY <1>1, <1>2

LEMMA HousekeeperTypes ==
    ASSUME TypeOK, HousekeeperStep
    PROVE  TypeOK'
<1>1. art' \in [Ids -> {"none", "partial", "result"}]
  BY DEF HousekeeperStep, PruneSelect, DeleteSelect, RemoveSelected, RemoveDir, KeepRows,
     DeleteRows, ListRows, SweepOrphan, SweepEnds, vars, TypeOK
<1>2. QED
  BY <1>1, HousekeeperRows DEF TypeOK

LEMMA HkTypes ==
    ASSUME HkType, HousekeeperStep
    PROVE  HkType'
<1>1. CASE PruneSelect
  <2>1. PICK S \in SUBSET {i \in Ids : rows[i].status \in Terminal} : hk' = Selected("prune", S)
    BY <1>1 DEF PruneSelect
  <2> QED
    BY <2>1 DEF Selected, HkType
<1>2. CASE DeleteSelect
  <2>1. PICK S \in SUBSET {i \in Ids : Exists(i) /\ rows[i].status # "running"} :
            hk' = Selected("delete", S)
    BY <1>2 DEF DeleteSelect
  <2> QED
    BY <2>1 DEF Selected, HkType
<1>3. CASE RemoveSelected
  <2>1. PICK i \in hk.left : hk' = [hk EXCEPT !.left = @ \ {i}]
    BY <1>3 DEF RemoveSelected
  <2> QED
    BY <2>1 DEF HkType
<1>4. CASE ListRows
  <2>1. {i \in Ids : Exists(i)} \in SUBSET Ids
    OBVIOUS
  <2> QED
    BY <1>4, <2>1 DEF ListRows, HkType
<1>5. CASE KeepRows
  BY <1>5 DEF KeepRows, HkType
<1>6. IdleHousekeeper \in [pc : {"idle", "files", "list", "sweep"}, op : {"none", "prune", "delete"},
                           ids : SUBSET Ids, left : SUBSET Ids]
  BY DEF IdleHousekeeper
<1>7. CASE DeleteRows
  <2>1. [hk EXCEPT !.pc = "list"] \in [pc : {"idle", "files", "list", "sweep"},
            op : {"none", "prune", "delete"}, ids : SUBSET Ids, left : SUBSET Ids]
    BY DEF HkType
  <2> QED
    BY <1>6, <1>7, <2>1 DEF DeleteRows, HkType
<1>8. CASE SweepOrphan \/ SweepEnds
  BY <1>6, <1>8 DEF SweepOrphan, SweepEnds, HkType
<1> QED
  BY <1>1, <1>2, <1>3, <1>4, <1>5, <1>7, <1>8 DEF HousekeeperStep

LEMMA SameTargets ==
    ASSUME HkType, RemoveSelected
    PROVE  hk.pc = "files" /\ hk'.pc = "files" /\ hk'.ids = hk.ids
<1>1. PICK i \in hk.left : hk' = [hk EXCEPT !.left = @ \ {i}]
  BY DEF RemoveSelected
<1> QED
  BY <1>1 DEF RemoveSelected, HkType

LEMMA PastTheFiles ==
    ASSUME HkType, KeepRows \/ DeleteRows \/ ListRows \/ SweepOrphan \/ SweepEnds
    PROVE  hk'.pc # "files"
<1>1. CASE KeepRows
  BY <1>1 DEF KeepRows, HkType
<1>2. CASE DeleteRows
  BY <1>2 DEF DeleteRows, HkType, IdleHousekeeper
<1>3. CASE ListRows
  BY <1>3 DEF ListRows, HkType
<1>4. CASE SweepOrphan \/ SweepEnds
  BY <1>4 DEF SweepOrphan, SweepEnds, IdleHousekeeper
<1> QED
  BY <1>1, <1>2, <1>3, <1>4

LEMMA HousekeeperKeeps ==
    ASSUME HInv, HousekeeperStep
    PROVE  HInv'
<1>1. TypeOK' /\ UNCHANGED <<nextId, wk>> /\ \A i \in Ids : rows'[i] \in {rows[i], AbsentRow}
  BY HousekeeperRows, HousekeeperTypes DEF HInv, IInv
<1>a. AbsentRow.status = "absent" /\ ~AbsentRow.force
  BY DEF AbsentRow
<1>2. IdsInOrder'
  BY <1>1, <1>a DEF HInv, IInv, IdsInOrder, Exists
<1>3. ForceOnlyWhileRunning'
  BY <1>1, <1>a DEF HInv, IInv, ForceOnlyWhileRunning
<1>4. OneHolderPerAttempt'
  <2>1. \A w \in Workers : wk[w].pc \in Holding => wk[w].job \in Ids
    BY DEF HInv, IInv, TypeOK, Coherent
  <2>2. QED
    BY <1>1, <1>a, <2>1 DEF HInv, IInv, OneHolderPerAttempt, Exists
<1>5. NoGhosts'
  BY <1>1 DEF HInv, NoGhosts, Exists
<1>6. Targets'
  <2>1. HkType /\ \A i \in Ids : Exists(i) => i < nextId
    BY DEF HInv, IInv, IdsInOrder, Targets
  <2>2. HkType'
    BY <2>1, HkTypes
  <2>3. ASSUME NEW S \in SUBSET Ids, \A i \in S : Exists(i), NEW op, hk' = Selected(op, S)
        PROVE  \A i \in hk'.ids : i < nextId
    BY <2>1, <2>3 DEF Selected
  <2>4. hk'.pc = "files" => \A i \in hk'.ids : i < nextId
    <3>1. CASE PruneSelect
      BY <2>3, <3>1 DEF PruneSelect, Terminal, Exists
    <3>2. CASE DeleteSelect
      BY <2>3, <3>2 DEF DeleteSelect
    <3>3. CASE RemoveSelected
      <4>1. hk.pc = "files" /\ hk'.ids = hk.ids
        BY <2>1, <3>3, SameTargets
      <4> QED
        BY <4>1 DEF HInv, Targets
    <3>4. ASSUME KeepRows \/ DeleteRows \/ ListRows \/ SweepOrphan \/ SweepEnds
          PROVE  hk'.pc # "files"
      BY <2>1, <3>4, PastTheFiles
    <3> QED
      BY <3>1, <3>2, <3>3, <3>4 DEF HousekeeperStep
  <2> QED
    BY <1>1, <2>2, <2>4 DEF Targets
<1>7. QED
  BY <1>1, <1>2, <1>3, <1>4, <1>5, <1>6 DEF HInv, IInv

-----------------------------------------------------------------------------
(* What the queue itself does to rows that are gone. *)

LEMMA QueueSparesTheDead ==
    ASSUME HInv, [Next]_vars
    PROVE  /\ \A i \in Ids : i < nextId /\ ~Exists(i) => rows'[i] = AbsentRow
           /\ NoGhosts'
<1>1. TableStep
  BY NextTable DEF HInv, IInv
<1>2. CASE UNCHANGED rows
  BY <1>2 DEF HInv, NoGhosts, Exists
<1>3. ASSUME NEW i \in Ids, NEW s \in Row, rows' = [rows EXCEPT ![i] = s], RowChange(rows[i], s),
             rows[i].status = "absent" =>
                (i = nextId /\ nextId' = nextId + 1) \/ s = Requeued(rows[i])
      PROVE  /\ \A j \in Ids : j < nextId /\ ~Exists(j) => rows'[j] = AbsentRow
             /\ NoGhosts'
  <2>1. /\ rows[i] \in Row /\ \A j \in Ids : rows'[j] = IF j = i THEN s ELSE rows[j]
        /\ rows[i].force => rows[i].status = "running"
    BY <1>3 DEF HInv, IInv, TypeOK, ForceOnlyWhileRunning
  <2>2. s.status # "absent"
    BY <1>3, <2>1, RowChangeFacts
  <2>3. NoGhosts'
    BY <2>1, <2>2 DEF HInv, NoGhosts, Exists
  <2>4. rows[i].status = "absent" => i = nextId
    <3>1. SUFFICES ASSUME rows[i].status = "absent", s = Requeued(rows[i]) PROVE FALSE
      BY <1>3
    <3>2. rows[i] = AbsentRow
      BY <3>1 DEF HInv, NoGhosts, Exists
    <3>3. \A f : Inserted(f).attempt = 0
      BY DEF Inserted, AbsentRow
    <3>4. s.attempt = 1
      BY <3>1, <3>2 DEF Requeued, AbsentRow
    <3>5. QED
      BY <1>3, <2>1, <3>1, <3>3, <3>4 DEF RowChange
  <2>5. nextId \in Nat
    BY BoundsAssumption DEF HInv, IInv, TypeOK, BoundsAssumption
  <2>6. QED
    BY <2>1, <2>3, <2>4, <2>5 DEF HInv, NoGhosts, Exists
<1>4. QED
  BY <1>1, <1>2, <1>3 DEF TableStep

(* A number is given out only with a row. *)
LEMMA NumbersComeWithRows ==
    ASSUME [Next]_vars
    PROVE  \/ nextId' = nextId
           \/ /\ nextId' = nextId + 1 /\ nextId \in Ids
              /\ \E f \in Fingerprints : rows' = [rows EXCEPT ![nextId] = Inserted(f)]
  BY DEF Next, WorkerStep, ClientStep, EnvironmentStep, vars, SubmitNew, Resubmit, ForceSubmit,
     CancelRead, CancelWrite, WSelectStale, WReap, WClaim, WNothingQueued, WFetch, WSpawn, WPoll,
     WTerminate, WRead, WRequeue, WClose, WError, WCrash, ChildExit, OrphanExit, HeartbeatExpires

LEMMA HousekeepingInvariant == HSpec => []HInv
<1>1. HInit => HInv
  <2>1. Init => IInv
    BY TypeInit
       DEF Init, IInv, IdsInOrder, Exists, OneHolderPerAttempt, ForceOnlyWhileRunning,
           AbsentRow, IdleWorker, Holding, Ids
  <2>2. Init => NoGhosts
    BY DEF Init, NoGhosts
  <2>3. HInit => Targets
    BY DEF HInit, IdleHousekeeper, Targets, HkType
  <2>4. QED
    BY <2>1, <2>2, <2>3 DEF HInit, HInv
<1>2. HInv /\ [HNext]_hkVars => HInv'
  <2>1. HInv /\ [Next]_vars /\ UNCHANGED hk => HInv'
    <3> SUFFICES ASSUME HInv, [Next]_vars, UNCHANGED hk PROVE HInv'
      OBVIOUS
    <3>1. IInv' /\ NoGhosts'
      BY TypeStep, OrderStep, ForceStep, HolderInvStep, QueueSparesTheDead DEF HInv, IInv
    <3>2. nextId \in Nat /\ nextId' \in Nat /\ nextId <= nextId'
      <4>1. nextId \in Nat /\ nextId' \in Nat
        BY <3>1, BoundsAssumption DEF HInv, IInv, TypeOK, BoundsAssumption
      <4>2. nextId' = nextId \/ nextId' = nextId + 1
        BY NumbersComeWithRows
      <4> QED
        BY <4>1, <4>2
    <3>3. Ids \subseteq Nat
      BY DEF Ids
    <3>4. Targets'
      BY <3>2, <3>3 DEF HInv, Targets, HkType
    <3> QED
      BY <3>1, <3>4 DEF HInv
  <2>2. [HNext]_hkVars => ([Next]_vars /\ UNCHANGED hk) \/ HousekeeperStep
    BY DEF HNext, hkVars
  <2>3. QED
    BY <2>1, <2>2, HousekeeperKeeps
<1>3. QED
  BY <1>1, <1>2, PTL DEF HSpec

(* A deleted or pruned job never comes back: workers, reapers, cancels and
   forced reruns that still know its id write to no row, and ids are never
   given out twice. *)
THEOREM DeletedNeverReturns == HSpec => DeletedStaysDeleted
<1> DEFINE Dead == \A i \in Ids : i < nextId /\ ~Exists(i) => rows'[i] = AbsentRow
<1>1. HInv /\ [Next]_vars => Dead
  BY QueueSparesTheDead
<1>2. HInv /\ HousekeeperStep => Dead
  BY HousekeeperRows DEF HInv, IInv, NoGhosts
<1>3. HInv /\ [HNext]_hkVars => [Dead]_hkVars
  <2>1. [HNext]_hkVars => [Next]_vars \/ HousekeeperStep
    BY DEF HNext, hkVars
  <2> HIDE DEF Dead
  <2>2. QED
    BY <1>1, <1>2, <2>1
<1>4. QED
  BY <1>3, HousekeepingInvariant, PTL DEF HSpec, DeletedStaysDeleted

(* Housekeeping does not disturb the fencing of runs: also while rows and
   directories vanish under the workers, an attempt of a job is held by at
   most one worker, and no row that is not running carries force_requeue. *)
THEOREM FencingSurvivesHousekeeping ==
    HSpec => [](OneHolderPerAttempt /\ ForceOnlyWhileRunning)
<1>1. HInv => OneHolderPerAttempt /\ ForceOnlyWhileRunning
  BY DEF HInv, IInv
<1>2. QED
  BY <1>1, HousekeepingInvariant, PTL

-----------------------------------------------------------------------------
(* With the housekeeper the table implements a life cycle that a deletion
   cuts short. *)

GoneView == [status |-> "gone", attempt |-> 0]
SpanOf(i) == IF i < nextId /\ ~Exists(i) THEN GoneView ELSE View(rows[i])
Span == [i \in Ids |-> SpanOf(i)]
Doomed == IF hk.pc = "files" THEN hk.ids ELSE {}

(* A row that does not change keeps its place in the life cycle. *)
LEMMA SpanStays ==
    ASSUME HInv, [Next]_vars, NEW j \in Ids, rows'[j] = rows[j]
    PROVE  SpanOf(j)' = SpanOf(j)
<1>0. j \in Nat /\ nextId \in Nat
  BY BoundsAssumption DEF HInv, IInv, TypeOK, Ids, BoundsAssumption
<1>1. CASE nextId' = nextId
  BY <1>1 DEF SpanOf, Exists
<1>2. ASSUME NEW f \in Fingerprints, nextId' = nextId + 1, nextId \in Ids,
             rows' = [rows EXCEPT ![nextId] = Inserted(f)]
      PROVE  SpanOf(j)' = SpanOf(j)
  <2>1. j # nextId
    <3> SUFFICES ASSUME j = nextId PROVE FALSE
      OBVIOUS
    <3>1. rows[j].status = "absent"
      BY <1>0 DEF HInv, IInv, IdsInOrder, Exists
    <3>2. rows'[j] = Inserted(f)
      BY <1>2 DEF HInv, IInv, TypeOK
    <3>3. Inserted(f).status = "queued"
      BY DEF Inserted, AbsentRow
    <3> QED
      BY <3>1, <3>2, <3>3
  <2>2. j < nextId' <=> j < nextId
    BY <1>0, <1>2, <2>1
  <2> QED
    BY <2>2 DEF SpanOf, Exists
<1> QED
  BY <1>1, <1>2, NumbersComeWithRows

(* A row that does not exist changes only by the insert that makes it. *)
LEMMA OnlyInsertsMakeRows ==
    ASSUME NEW r \in Row, NEW s, r = AbsentRow, RowChange(r, s)
    PROVE  View(s) = [status |-> "queued", attempt |-> 0]
<1>1. r.status = "absent" /\ ~r.force
  BY DEF AbsentRow
<1>2. PICK f \in Fingerprints : s = Inserted(f)
  BY <1>1 DEF RowChange
<1> QED
  BY <1>2 DEF Inserted, AbsentRow, View

LEMMA QueueSpanStep ==
    ASSUME HInv, [Next]_vars, UNCHANGED hk
    PROVE  [Lifespan!SpanNext]_<<Span, Doomed>>
<1>0. UNCHANGED Doomed
  BY DEF Doomed
<1>1. TableStep
  BY NextTable DEF HInv, IInv
<1>2. CASE UNCHANGED rows
  BY <1>0, <1>2, SpanStays DEF Span
<1>3. ASSUME NEW i \in Ids, NEW s \in Row, rows' = [rows EXCEPT ![i] = s], RowChange(rows[i], s)
      PROVE  [Lifespan!SpanNext]_<<Span, Doomed>>
  <2>1. /\ rows[i] \in Row /\ (rows[i].force => rows[i].status = "running")
        /\ \A j \in Ids : rows'[j] = IF j = i THEN s ELSE rows[j]
    BY <1>3 DEF HInv, IInv, TypeOK, ForceOnlyWhileRunning
  <2>2. s.status # "absent" /\ View(s).status = s.status
    BY <1>3, <2>1, RowChangeFacts DEF View
  <2>3. SpanOf(i)' = View(s)
    BY <2>1, <2>2 DEF SpanOf, Exists
  <2>4. Span' = [Span EXCEPT ![i] = View(s)]
    <3>1. \A j \in Ids : SpanOf(j)' = IF j = i THEN View(s) ELSE SpanOf(j)
      BY <2>1, <2>3, SpanStays
    <3> QED
      BY <3>1 DEF Span
  <2>5. SpanOf(i) = View(rows[i]) /\ Span[i] = View(rows[i])
    <3>1. ~(i < nextId /\ ~Exists(i))
      <4> SUFFICES ASSUME i < nextId, ~Exists(i) PROVE FALSE
        OBVIOUS
      <4>1. s = AbsentRow
        BY <2>1, QueueSparesTheDead
      <4> QED
        BY <2>2, <4>1 DEF AbsentRow
    <3> QED
      BY <3>1 DEF SpanOf, Span
  <2>6. /\ View(rows[i]).status = rows[i].status /\ View(rows[i]).attempt = rows[i].attempt
        /\ rows[i].status # "gone"
    BY <2>1 DEF View, Row, Statuses, Terminal
  <2>7. CASE View(s) = View(rows[i])
    <3>1. \A j \in Ids : SpanOf(j)' = SpanOf(j)
      BY <2>1, <2>3, <2>5, <2>7, SpanStays
    <3> QED
      BY <1>0, <3>1 DEF Span
  <2>8. ASSUME rows[i].status = "absent" PROVE Lifespan!Insert(i)
    <3>1. View(s) = [status |-> "queued", attempt |-> 0]
      <4>1. rows[i] = AbsentRow
        BY <2>8 DEF HInv, NoGhosts, Exists
      <4> QED
        BY <1>3, <2>1, <4>1, OnlyInsertsMakeRows
    <3> QED
      BY <2>4, <2>5, <2>6, <2>8, <3>1 DEF Lifespan!Insert, Lifespan!Become, Span, SpanOf, GoneView, View
  <2>9. ASSUME rows[i].status = "queued", View(s) = [status |-> "running", attempt |-> rows[i].attempt]
        PROVE  Lifespan!Claim(i)
    BY <2>4, <2>5, <2>6, <2>9 DEF Lifespan!Claim, Lifespan!Become, Span, SpanOf, GoneView, View
  <2>10. ASSUME rows[i].status \in {"queued", "running"}, NEW t \in Terminal,
                View(s) = [status |-> t, attempt |-> rows[i].attempt]
         PROVE  Lifespan!Close(i)
    BY <2>4, <2>5, <2>6, <2>10
       DEF Lifespan!Close, Lifespan!Become, Lifespan!Terminal, Terminal, Span, SpanOf, GoneView, View
  <2>11. ASSUME rows[i].status # "absent",
                View(s) = [status |-> "queued", attempt |-> rows[i].attempt + 1]
         PROVE  Lifespan!Requeue(i)
    BY <2>4, <2>5, <2>6, <2>11 DEF Lifespan!Requeue, Lifespan!Become, Span, SpanOf, GoneView, View
  <2>12. CASE Lifespan!Insert(i) \/ Lifespan!Claim(i) \/ Lifespan!Close(i) \/ Lifespan!Requeue(i)
    BY <1>0, <2>5, <2>6, <2>12
       DEF Lifespan!SpanNext, Lifespan!Live, Span, SpanOf, GoneView, View, Doomed
  <2> QED
    BY <1>3, <2>1, <2>7, <2>8, <2>9, <2>10, <2>11, <2>12, RowChangeIsLifeStep
<1> QED
  BY <1>1, <1>2, <1>3 DEF TableStep

LEMMA SelectionDooms ==
    ASSUME HInv, NEW op, NEW S \in SUBSET Ids,
           \A i \in S : Exists(i) /\ rows[i].status # "running",
           hk.pc = "idle", hk' = Selected(op, S), UNCHANGED vars
    PROVE  [Lifespan!SpanNext]_<<Span, Doomed>>
<1>1. Doomed = {} /\ Doomed' = S
  BY DEF Doomed, Selected
<1>2. UNCHANGED Span
  BY DEF Span, SpanOf, Exists, vars
<1>3. \A i \in S : Span[i].status \notin {"absent", "gone", "running"}
  <2> SUFFICES ASSUME NEW i \in S PROVE Span[i].status \notin {"absent", "gone", "running"}
    OBVIOUS
  <2>1. rows[i] \in Row /\ Span[i] = View(rows[i]) /\ View(rows[i]).status = rows[i].status
    BY DEF Span, SpanOf, View, HInv, IInv, TypeOK
  <2>2. rows[i].status # "gone" /\ rows[i].status # "absent"
    BY <2>1 DEF Row, Statuses, Terminal, Exists
  <2> QED
    BY <2>1, <2>2
<1>4. Lifespan!Doom(S)
  BY <1>1, <1>2, <1>3 DEF Lifespan!Doom, Span, SpanOf, GoneView, View, Doomed
<1> QED
  BY <1>4 DEF Lifespan!SpanNext

LEMMA DeletionEnds ==
    ASSUME HInv, DeleteRows
    PROVE  Lifespan!Delete
<1>1. Doomed = hk.ids /\ Doomed' = {} /\ UNCHANGED nextId
  BY DEF Doomed, DeleteRows, IdleHousekeeper, HInv, Targets, HkType
<1>2. \A i \in Ids : SpanOf(i)' = IF i \in Doomed THEN GoneView ELSE SpanOf(i)
  <2> SUFFICES ASSUME NEW i \in Ids
               PROVE  SpanOf(i)' = IF i \in Doomed THEN GoneView ELSE SpanOf(i)
    OBVIOUS
  <2>1. rows'[i] = IF i \in hk.ids THEN AbsentRow ELSE rows[i]
    BY DEF DeleteRows
  <2>2. i \in hk.ids => i < nextId
    BY DEF HInv, Targets, DeleteRows
  <2>3. AbsentRow.status = "absent"
    BY DEF AbsentRow
  <2> QED
    BY <1>1, <2>1, <2>2, <2>3 DEF SpanOf, Exists
<1>3. Span' = [i \in Ids |-> IF i \in Doomed THEN GoneView ELSE Span[i]]
  BY <1>2 DEF Span
<1> QED
  BY <1>1, <1>3 DEF Lifespan!Delete, Lifespan!Gone, Span, SpanOf, GoneView, View, Doomed

LEMMA HousekeeperSpanStep ==
    ASSUME HInv, HousekeeperStep
    PROVE  [Lifespan!SpanNext]_<<Span, Doomed>>
<1>1. CASE PruneSelect
  <2>1. PICK S \in SUBSET {i \in Ids : rows[i].status \in Terminal} :
            hk.pc = "idle" /\ hk' = Selected("prune", S) /\ UNCHANGED vars
    BY <1>1 DEF PruneSelect
  <2>2. \A i \in S : Exists(i) /\ rows[i].status # "running"
    BY DEF Exists, Terminal
  <2> QED
    BY <2>1, <2>2, SelectionDooms
<1>2. CASE DeleteSelect
  <2>1. PICK S \in SUBSET {i \in Ids : Exists(i) /\ rows[i].status # "running"} :
            hk.pc = "idle" /\ hk' = Selected("delete", S) /\ UNCHANGED vars
    BY <1>2 DEF DeleteSelect
  <2> QED
    BY <2>1, SelectionDooms
<1>3. CASE DeleteRows
  BY <1>3, DeletionEnds DEF Lifespan!SpanNext
<1>4. CASE KeepRows
  <2>1. Doomed' = {} /\ UNCHANGED vars
    BY <1>4, PastTheFiles DEF KeepRows, Doomed, HInv, Targets
  <2>2. UNCHANGED Span
    BY <2>1 DEF Span, SpanOf, Exists, vars
  <2> QED
    BY <2>1, <2>2 DEF Lifespan!SpanNext, Lifespan!Spare, Span, SpanOf, GoneView, View, Doomed
<1>5. ASSUME RemoveSelected \/ ListRows \/ SweepOrphan \/ SweepEnds
      PROVE  UNCHANGED <<Span, Doomed>>
  <2>1. UNCHANGED <<rows, nextId>>
    BY <1>5 DEF RemoveSelected, ListRows, SweepOrphan, SweepEnds, vars
  <2>2. UNCHANGED Span
    BY <2>1 DEF Span, SpanOf, Exists
  <2>3. UNCHANGED Doomed
    <3>1. HkType
      BY DEF HInv, Targets
    <3>2. CASE RemoveSelected
      BY <3>1, <3>2, SameTargets DEF Doomed
    <3>3. CASE ListRows \/ SweepOrphan \/ SweepEnds
      BY <3>1, <3>3, PastTheFiles DEF Doomed, ListRows, SweepOrphan, SweepEnds
    <3> QED
      BY <1>5, <3>2, <3>3
  <2> QED
    BY <2>2, <2>3
<1> QED
  BY <1>1, <1>2, <1>3, <1>4, <1>5 DEF HousekeeperStep

(* Also while jobs are pruned and deleted under the workers, every row runs
   through its life cycle attempt by attempt until it is gone; a row that is
   gone, whoever still knows its number, takes no further step; and no row
   goes that was running when the housekeeper chose it. *)
THEOREM RefinesLifespan == HSpec => ImplementsLifespan
<1>1. HInit => Lifespan!LifeInit /\ Doomed = {}
  <2> SUFFICES ASSUME HInit PROVE Lifespan!LifeInit /\ Doomed = {}
    OBVIOUS
  <2>1. \A i \in Ids : ~(i < nextId) /\ rows[i] = AbsentRow
    BY DEF HInit, Init, Ids
  <2> QED
    BY <2>1 DEF Lifespan!LifeInit, AbsentRow, HInit, IdleHousekeeper, Doomed
<1>2. HInv /\ [HNext]_hkVars => [Lifespan!SpanNext]_<<Span, Doomed>>
  <2>1. [HNext]_hkVars => ([Next]_vars /\ UNCHANGED hk) \/ HousekeeperStep
    BY DEF HNext, hkVars
  <2> QED
    BY <2>1, QueueSpanStep, HousekeeperSpanStep
<1> QED
  BY <1>1, <1>2, HousekeepingInvariant, PTL
     DEF HSpec, ImplementsLifespan, Lifespan!SpanSpec, Span, SpanOf, GoneView, View, Doomed
=============================================================================
