--------------------------- MODULE JobQueueProofs ---------------------------
(***************************************************************************)
(* Theorems about JobQueue, for any number of workers, fingerprints and    *)
(* rows, any bounds and any set of faults.                                 *)
(***************************************************************************)
EXTENDS JobQueue, TLAPS

USE DEF Ids, Terminal, Statuses, Holding, Running

-----------------------------------------------------------------------------
(* What the operators on one row return. *)

LEMMA RowTypes ==
    ASSUME NEW r \in Row
    PROVE  /\ Requeued(r) \in Row
           /\ \A s \in Terminal : Closed(r, s) \in Row
           /\ \A n \in Nat : Reaped(r, n) \in Row
           /\ MarkedForce(r) \in Row /\ MarkedCancel(r) \in Row
           /\ CancelledQueued(r) \in Row /\ Claimed(r) \in Row
           /\ Heard(r) \in Row /\ Silent(r) \in Row
<1>1. Requeued(r) \in Row
  BY DEF Requeued, Row
<1>2. \A s \in Terminal : Closed(r, s) \in Row
  BY DEF Closed, Row
<1>3. ASSUME NEW n \in Nat PROVE Reaped(r, n) \in Row
  <2>1. [Requeued(r) EXCEPT !.fresh = r.fresh] \in Row
    BY <1>1 DEF Row
  <2>2. QED
    BY <1>2, <2>1 DEF Reaped
<1>4. MarkedForce(r) \in Row /\ MarkedCancel(r) \in Row
  BY DEF MarkedForce, MarkedCancel, Row
<1>5. CancelledQueued(r) \in Row /\ Claimed(r) \in Row
  BY DEF CancelledQueued, Claimed, Row
<1>6. Heard(r) \in Row /\ Silent(r) \in Row
  BY DEF Heard, Silent, Row
<1>7. QED
  BY <1>1, <1>2, <1>3, <1>4, <1>5, <1>6

LEMMA VerdictType ==
    ASSUME NEW r \in Row, NEW c
    PROVE  Verdict(r, c) \in Terminal \cup {"requeue"}
BY DEF Verdict, Row

LEMMA AbsentRowType ==
    AbsentRow \in Row /\ \A f \in Fingerprints : Inserted(f) \in Row
BY DEF AbsentRow, Inserted, Row

LEMMA IdleWorkerType == IdleWorker \in Worker /\ Coherent(IdleWorker)
BY DEF IdleWorker, Worker, Coherent

(* What reap_stale makes of a worker's record. *)
LEMMA ReaperMoves ==
    ASSUME NEW k \in Worker, Coherent(k), NEW S \in SUBSET (Ids \X Nat)
    PROVE  /\ [k EXCEPT !.todo = S] \in Worker
           /\ Coherent([k EXCEPT !.todo = S])
           /\ [k EXCEPT !.pc = "reap", !.todo = S] \in Worker
           /\ Coherent([k EXCEPT !.pc = "reap", !.todo = S])
BY DEF Worker, Coherent

(* What the other steps make of it. *)
LEMMA WorkerMoves ==
    ASSUME NEW k \in Worker, Coherent(k),
           NEW a \in Nat, NEW i \in Ids, NEW v \in Terminal
    PROVE  LET Good(x) == x \in Worker /\ Coherent(x)
           IN  /\ Good([IdleWorker EXCEPT !.pc = "claimed", !.job = i, !.run = a])
               /\ k.pc \in Holding =>
                    /\ Good([k EXCEPT !.pc = "spawn", !.att = a])
                    /\ Good([k EXCEPT !.pc = "watch", !.child = "alive"])
                    /\ Good([k EXCEPT !.pc = "terminate"]) /\ Good([k EXCEPT !.pc = "watch"])
                    /\ \A c \in {"term", "kill"} : Good([k EXCEPT !.pc = "watch", !.child = c])
                    /\ Good([k EXCEPT !.pc = "requeue", !.verdict = "requeue", !.seen = a])
                    /\ Good([k EXCEPT !.pc = "close", !.verdict = v, !.seen = a])
               /\ \A c \in {"ok", "err"} : Good([k EXCEPT !.child = c])
<1> DEFINE Good(x) == x \in Worker /\ Coherent(x)
<1>1. Good([IdleWorker EXCEPT !.pc = "claimed", !.job = i, !.run = a])
  BY DEF IdleWorker, Worker, Coherent
<1>2. ASSUME k.pc \in Holding PROVE Good([k EXCEPT !.pc = "spawn", !.att = a])
  BY <1>2 DEF Worker, Coherent
<1>3. ASSUME k.pc \in Holding PROVE Good([k EXCEPT !.pc = "watch", !.child = "alive"])
  BY <1>3 DEF Worker, Coherent
<1>4. ASSUME k.pc \in Holding
      PROVE Good([k EXCEPT !.pc = "terminate"]) /\ Good([k EXCEPT !.pc = "watch"])
  BY <1>4 DEF Worker, Coherent
<1>5. ASSUME k.pc \in Holding, NEW c \in {"term", "kill"}
      PROVE Good([k EXCEPT !.pc = "watch", !.child = c])
  BY <1>5 DEF Worker, Coherent
<1>6. ASSUME k.pc \in Holding
      PROVE Good([k EXCEPT !.pc = "requeue", !.verdict = "requeue", !.seen = a])
  BY <1>6 DEF Worker, Coherent
<1>7. ASSUME k.pc \in Holding
      PROVE Good([k EXCEPT !.pc = "close", !.verdict = v, !.seen = a])
  BY <1>7 DEF Worker, Coherent
<1>8. ASSUME NEW c \in {"ok", "err"} PROVE Good([k EXCEPT !.child = c])
  BY DEF Worker, Coherent
<1>9. QED
  BY <1>1, <1>2, <1>3, <1>4, <1>5, <1>6, <1>7, <1>8

(* A step of one worker leaves the other workers' records alone. *)
LEMMA BecomeType ==
    ASSUME wk \in [Workers -> Worker], \A v \in Workers : Coherent(wk[v]),
           NEW w \in Workers, NEW k \in Worker, Coherent(k), Become(w, k)
    PROVE  wk' \in [Workers -> Worker] /\ \A v \in Workers : Coherent(wk[v])'
BY DEF Become

(* finish and heartbeat keep the table a table. *)
LEMMA FinishType ==
    ASSUME rows \in [Ids -> Row], NEW i \in Ids, NEW s \in Terminal, NEW a,
           Finish(i, s, a)
    PROVE  rows' \in [Ids -> Row]
BY RowTypes DEF Finish

LEMMA HeartbeatType ==
    ASSUME rows \in [Ids -> Row], NEW i \in Ids, Heartbeat(i)
    PROVE  rows' \in [Ids -> Row]
BY RowTypes DEF Heartbeat

-----------------------------------------------------------------------------
(* Every step keeps the types: one lemma per kind of actor. *)

LEMMA ClientTypes == TypeOK /\ ClientStep => TypeOK'
<1> SUFFICES ASSUME TypeOK, ClientStep PROVE TypeOK'
  OBVIOUS
<1> USE RowTypes, AbsentRowType DEF TypeOK
<1>1. ASSUME NEW f \in Fingerprints, SubmitNew(f) PROVE TypeOK'
  BY <1>1, BoundsAssumption DEF SubmitNew, BoundsAssumption
<1>2. ASSUME NEW i \in Ids, Resubmit(i) PROVE TypeOK'
  BY <1>2 DEF Resubmit
<1>3. ASSUME NEW i \in Ids, ForceSubmit(i) PROVE TypeOK'
  BY <1>3 DEF ForceSubmit
<1>4. ASSUME NEW i \in Ids, CancelRead(i) PROVE TypeOK'
  BY <1>4 DEF CancelRead
<1>5. ASSUME NEW c \in cancels, CancelWrite(c) PROVE TypeOK'
  BY <1>5 DEF CancelWrite
<1>6. QED
  BY <1>1, <1>2, <1>3, <1>4, <1>5 DEF ClientStep

LEMMA WorkerTypes == \A w \in Workers : TypeOK /\ WorkerStep(w) => TypeOK'
<1> SUFFICES ASSUME NEW w \in Workers, TypeOK, WorkerStep(w) PROVE TypeOK'
  OBVIOUS
<1> DEFINE k == wk[w]
<1>k. k \in Worker /\ Coherent(k) /\ (k.pc \in Holding => k.job \in Ids)
  BY DEF TypeOK, Coherent
<1>r. rows \in [Ids -> Row] /\ \A i \in Ids : rows[i] \in Row /\ rows[i].attempt \in Nat
  BY DEF TypeOK, Row
<1> SUFFICES /\ rows' \in [Ids -> Row]
             /\ art' \in [Ids -> {"none", "partial", "result"}]
             /\ \E x \in Worker : Coherent(x) /\ Become(w, x)
  BY BecomeType DEF TypeOK, WorkerStep, WSelectStale, WReap, WClaim, WNothingQueued,
     WFetch, WSpawn, WPoll, WTerminate, WRead, WRequeue, WClose
<1> USE IdleWorkerType
<1>1. CASE WSelectStale(w)
  <2>1. {<<i, rows[i].attempt>> : i \in Stale} \in SUBSET (Ids \X Nat)
    BY <1>r DEF Stale
  <2>2. QED
    BY <1>1, <2>1, <1>k, <1>r, ReaperMoves DEF WSelectStale, TypeOK
<1>2. CASE WReap(w)
  <2> PICK e \in k.todo :
          /\ Become(w, [k EXCEPT !.todo = @ \ {e}])
          /\ rows' = IF rows[e[1]].status = "running"
                     THEN [rows EXCEPT ![e[1]] = Reaped(@, e[2])] ELSE rows
    BY <1>2 DEF WReap
  <2>1. k.todo \ {e} \in SUBSET (Ids \X Nat) /\ e[1] \in Ids /\ e[2] \in Nat
    BY <1>k DEF Worker
  <2>2. rows' \in [Ids -> Row]
    BY <1>r, <2>1, RowTypes
  <2>3. QED
    BY <1>2, <1>k, <2>1, <2>2, ReaperMoves DEF WReap, TypeOK
<1>3. CASE WClaim(w)
  <2> PICK i \in Queue :
          /\ rows' = [rows EXCEPT ![i] = Claimed(@)]
          /\ Become(w, [IdleWorker EXCEPT !.pc = "claimed", !.job = i, !.run = rows[i].attempt])
    BY <1>3 DEF WClaim
  <2>1. i \in Ids /\ rows[i].attempt \in Nat
    BY <1>r DEF Queue
  <2>2. QED
    BY <1>3, <1>k, <1>r, <2>1, RowTypes, WorkerMoves DEF WClaim, TypeOK
<1>4. CASE WNothingQueued(w)
  BY <1>4, <1>r DEF WNothingQueued, TypeOK
<1>5. CASE WFetch(w)
  BY <1>5, <1>k, <1>r, WorkerMoves DEF WFetch, TypeOK
<1>6. CASE WSpawn(w)
  <2>1. rows' \in [Ids -> Row]
    BY <1>6, <1>k, HeartbeatType DEF WSpawn, TypeOK
  <2>2. QED
    BY <1>6, <2>1, <1>k, WorkerMoves DEF WSpawn, TypeOK
<1>7. CASE WPoll(w)
  <2>1. rows' \in [Ids -> Row]
    BY <1>7, <1>k, HeartbeatType DEF WPoll, TypeOK
  <2>2. QED
    BY <1>7, <2>1, <1>k, WorkerMoves DEF WPoll, TypeOK
<1>8. CASE WTerminate(w)
  BY <1>8, <1>k, <1>r, WorkerMoves DEF WTerminate, TypeOK
<1>9. CASE WRead(w)
  <2>1. Verdict(rows[k.job], k.child) \in Terminal \cup {"requeue"}
    BY <1>9, <1>k, <1>r, VerdictType DEF WRead
  <2>2. QED
    BY <1>9, <2>1, <1>k, <1>r, WorkerMoves DEF WRead, TypeOK
<1>10. CASE WRequeue(w)
  BY <1>10, <1>k, <1>r, RowTypes DEF WRequeue, TypeOK
<1>11. CASE WClose(w)
  BY <1>11, <1>k, <1>r, FinishType DEF WClose, TypeOK, Coherent
<1>12. QED
  BY <1>1, <1>2, <1>3, <1>4, <1>5, <1>6, <1>7, <1>8, <1>9, <1>10, <1>11 DEF WorkerStep

LEMMA EnvironmentTypes == TypeOK /\ EnvironmentStep => TypeOK'
<1> SUFFICES ASSUME TypeOK, EnvironmentStep PROVE TypeOK'
  OBVIOUS
<1> USE RowTypes, IdleWorkerType DEF TypeOK
<1>o. ASSUME NEW w \in Workers PROVE Orphaned(w) \subseteq Ids \X Nat
  BY DEF Orphaned, Coherent, Worker
<1>1. ASSUME NEW w \in Workers, WError(w) PROVE TypeOK'
  <2>1. rows' \in [Ids -> Row]
    BY <1>1, FinishType DEF WError, Coherent
  <2>2. QED
    BY <1>1, <1>o, <2>1, BecomeType DEF WError
<1>2. ASSUME NEW w \in Workers, WCrash(w) PROVE TypeOK'
  <2>1. crashes' \in 0..MaxCrashes
    BY <1>2, BoundsAssumption DEF WCrash, BoundsAssumption
  <2>2. QED
    BY <1>2, <1>o, <2>1, BecomeType DEF WCrash
<1>3. ASSUME NEW w \in Workers, ChildExit(w) PROVE TypeOK'
  <2>1. PICK st \in {"ok", "err"} :
            /\ Become(w, [wk[w] EXCEPT !.child = st])
            /\ art' = [art EXCEPT ![wk[w].job] = IF st = "ok" THEN "result" ELSE @]
    BY <1>3 DEF ChildExit
  <2>2. /\ [wk[w] EXCEPT !.child = st] \in Worker
        /\ Coherent([wk[w] EXCEPT !.child = st])
    <3>1. wk[w] \in Worker /\ Coherent(wk[w]) /\ wk[w].job \in Ids
      BY <1>3 DEF ChildExit, Coherent
    <3>2. QED
      BY <3>1, WorkerMoves
  <2>3. wk' \in [Workers -> Worker] /\ \A v \in Workers : Coherent(wk[v])'
    BY <2>1, <2>2, BecomeType
  <2>4. QED
    BY <1>3, <2>1, <2>3 DEF ChildExit
<1>4. ASSUME NEW o \in orphans, OrphanExit(o) PROVE TypeOK'
  BY <1>4 DEF OrphanExit
<1>5. ASSUME NEW i \in Ids, HeartbeatExpires(i) PROVE TypeOK'
  BY <1>5 DEF HeartbeatExpires
<1>6. QED
  BY <1>1, <1>2, <1>3, <1>4, <1>5 DEF EnvironmentStep

LEMMA TypeInit == Init => TypeOK
BY AbsentRowType, IdleWorkerType, BoundsAssumption DEF Init, TypeOK, BoundsAssumption

LEMMA TypeStep == TypeOK /\ [Next]_vars => TypeOK'
<1>1. TypeOK /\ UNCHANGED vars => TypeOK'
  BY DEF TypeOK, vars
<1>2. QED
  BY <1>1, ClientTypes, WorkerTypes, EnvironmentTypes DEF Next

(* Whatever clients, workers, children and faults do, every variable keeps its
   type and each worker's record stays coherent: the columns of a row and the
   local state of run_claimed_job never leave their ranges. *)
THEOREM TypeCorrect == Spec => []TypeOK
BY TypeInit, TypeStep, PTL DEF Spec

-----------------------------------------------------------------------------
(* What a step does to the table: at most one row changes, and it changes by
   one of the statements under the condition of its WHERE clause or caller. *)

RowChange(r, s) ==
    \/ r.status = "absent" /\ \E f \in Fingerprints : s = Inserted(f)
    \/ r.status = "queued" /\ (s = Claimed(r) \/ s = CancelledQueued(r))
    \/ r.status = "running" /\
         \/ \E t \in Terminal : s = Closed(r, t)
         \/ s = [Requeued(r) EXCEPT !.fresh = r.fresh]
         \/ s = MarkedForce(r) \/ s = Heard(r) \/ s = Silent(r)
    \/ (r.status # "absent" \/ r.force) /\ s = Requeued(r)
    \/ r.status # "absent" /\ s = MarkedCancel(r)

TableStep ==
    \/ UNCHANGED rows
    \/ \E i \in Ids, s \in Row :
        /\ rows' = [rows EXCEPT ![i] = s]
        /\ RowChange(rows[i], s)
        /\ rows[i].status = "absent" =>
             (i = nextId /\ nextId' = nextId + 1) \/ s = Requeued(rows[i])

LEMMA FinishStep ==
    ASSUME TypeOK, NEW i \in Ids, NEW t \in Terminal, NEW a, Finish(i, t, a)
    PROVE  TableStep
<1>1. rows[i] \in Row /\ Closed(rows[i], t) \in Row
  BY RowTypes DEF TypeOK
<1>2. CASE rows[i].status = "running" /\ rows[i].attempt = a
  <2>1. rows' = [rows EXCEPT ![i] = Closed(rows[i], t)]
    BY <1>2 DEF Finish
  <2>2. RowChange(rows[i], Closed(rows[i], t))
    BY <1>2 DEF RowChange
  <2>3. QED
    BY <1>1, <1>2, <2>1, <2>2 DEF TableStep
<1>3. CASE ~(rows[i].status = "running" /\ rows[i].attempt = a)
  BY <1>3 DEF Finish, TableStep
<1>4. QED
  BY <1>2, <1>3

LEMMA HeartbeatStep ==
    ASSUME TypeOK, NEW i \in Ids, Heartbeat(i)
    PROVE  TableStep
<1>1. rows[i] \in Row /\ Heard(rows[i]) \in Row
  BY RowTypes DEF TypeOK
<1>2. CASE rows[i].status = "running"
  <2>1. rows' = [rows EXCEPT ![i] = Heard(rows[i])]
    BY <1>2 DEF Heartbeat
  <2>2. RowChange(rows[i], Heard(rows[i]))
    BY <1>2 DEF RowChange
  <2>3. QED
    BY <1>1, <1>2, <2>1, <2>2 DEF TableStep
<1>3. CASE rows[i].status # "running"
  BY <1>3 DEF Heartbeat, TableStep
<1>4. QED
  BY <1>2, <1>3

(* Ids are given out in order, so nobody knows the next one. *)
IdsInOrder ==
    /\ \A i \in Ids : Exists(i) => i < nextId
    /\ \A w \in Workers : wk[w].pc \in Holding => wk[w].job < nextId

LEMMA ClientTable == TypeOK /\ IdsInOrder /\ ClientStep => TableStep
<1> SUFFICES ASSUME TypeOK, IdsInOrder, ClientStep PROVE TableStep
  OBVIOUS
<1>r. \A i \in Ids : rows[i] \in Row
  BY DEF TypeOK
<1>1. ASSUME NEW f \in Fingerprints, SubmitNew(f) PROVE TableStep
  <2>1. nextId \in Ids /\ rows[nextId].status = "absent"
    BY <1>1 DEF SubmitNew, IdsInOrder, Exists, TypeOK
  <2>2. QED
    BY <1>1, <2>1, <1>r, AbsentRowType DEF SubmitNew, TableStep, RowChange
<1>2. ASSUME NEW i \in Ids, Resubmit(i) PROVE TableStep
  BY <1>2, <1>r, RowTypes DEF Resubmit, TableStep, RowChange
<1>3. ASSUME NEW i \in Ids, ForceSubmit(i) PROVE TableStep
  BY <1>3, <1>r, RowTypes DEF ForceSubmit, TableStep, RowChange, Exists
<1>4. ASSUME NEW i \in Ids, CancelRead(i) PROVE TableStep
  BY <1>4 DEF CancelRead, TableStep
<1>5. ASSUME NEW c \in cancels, CancelWrite(c) PROVE TableStep
  <2>1. c[1] \in Ids
    BY DEF TypeOK
  <2>2. CASE c[2] = "queued" /\ rows[c[1]].status = "queued"
    <3>1. rows' = [rows EXCEPT ![c[1]] = CancelledQueued(rows[c[1]])]
      BY <1>5, <2>2 DEF CancelWrite
    <3>2. QED
      BY <3>1, <2>1, <2>2, <1>r, RowTypes DEF TableStep, RowChange
  <2>3. CASE c[2] = "running" /\ rows[c[1]].status # "absent"
    <3>1. rows' = [rows EXCEPT ![c[1]] = MarkedCancel(rows[c[1]])]
      BY <1>5, <2>3 DEF CancelWrite
    <3>2. QED
      BY <3>1, <2>1, <2>3, <1>r, RowTypes DEF TableStep, RowChange
  <2>4. CASE /\ ~(c[2] = "queued" /\ rows[c[1]].status = "queued")
             /\ ~(c[2] = "running" /\ rows[c[1]].status # "absent")
    <3>1. rows' = [rows EXCEPT ![c[1]] = rows[c[1]]]
      BY <1>5, <2>4 DEF CancelWrite
    <3>2. rows' = rows
      BY <3>1, <2>1 DEF TypeOK
    <3>3. QED
      BY <3>2 DEF TableStep
  <2>5. QED
    BY <2>2, <2>3, <2>4
<1>6. QED
  BY <1>1, <1>2, <1>3, <1>4, <1>5 DEF ClientStep

LEMMA WorkerTable == \A w \in Workers : TypeOK /\ WorkerStep(w) => TableStep
<1> SUFFICES ASSUME NEW w \in Workers, TypeOK, WorkerStep(w) PROVE TableStep
  OBVIOUS
<1>r. \A i \in Ids : rows[i] \in Row
  BY DEF TypeOK
<1>k. wk[w] \in Worker /\ Coherent(wk[w])
  BY DEF TypeOK
<1>1. CASE UNCHANGED rows
  BY <1>1 DEF TableStep
<1>2. CASE WReap(w)
  <2> PICK e \in wk[w].todo :
          rows' = IF rows[e[1]].status = "running"
                  THEN [rows EXCEPT ![e[1]] = Reaped(@, e[2])] ELSE rows
    BY <1>2 DEF WReap
  <2>1. e[1] \in Ids /\ e[2] \in Nat
    BY <1>k DEF Worker
  <2>2. Reaped(rows[e[1]], e[2]) \in Row
    BY <2>1, <1>r, RowTypes
  <2>3. rows[e[1]].status = "running" => RowChange(rows[e[1]], Reaped(rows[e[1]], e[2]))
    BY DEF Reaped, RowChange
  <2>4. QED
    BY <2>1, <2>2, <2>3 DEF TableStep
<1>3. CASE WClaim(w)
  <2> PICK i \in Queue : rows' = [rows EXCEPT ![i] = Claimed(@)]
    BY <1>3 DEF WClaim
  <2>1. i \in Ids /\ rows[i].status = "queued" /\ Claimed(rows[i]) \in Row
    BY <1>r, RowTypes DEF Queue
  <2>2. QED
    BY <2>1 DEF TableStep, RowChange
<1>4. CASE WSpawn(w)
  BY <1>4, <1>k, HeartbeatStep DEF WSpawn, Coherent
<1>5. CASE WPoll(w)
  BY <1>5, <1>k, HeartbeatStep DEF WPoll, Coherent
<1>6. CASE WRequeue(w)
  <2>1. wk[w].job \in Ids /\ rows[wk[w].job] \in Row /\ Requeued(rows[wk[w].job]) \in Row
    BY <1>6, <1>k, <1>r, RowTypes DEF WRequeue, Coherent
  <2>2. CASE rows[wk[w].job].force
    <3>1. rows' = [rows EXCEPT ![wk[w].job] = Requeued(rows[wk[w].job])]
      BY <1>6, <2>2 DEF WRequeue
    <3>2. QED
      BY <2>1, <2>2, <3>1 DEF TableStep, RowChange
  <2>3. CASE ~rows[wk[w].job].force
    <3>1. rows' = [rows EXCEPT ![wk[w].job] = rows[wk[w].job]]
      BY <1>6, <2>3 DEF WRequeue
    <3>2. QED
      BY <2>1, <3>1 DEF TypeOK, TableStep
  <2>4. QED
    BY <2>2, <2>3
<1>7. CASE WClose(w)
  BY <1>7, <1>k, FinishStep DEF WClose, Coherent
<1>8. QED
  BY <1>1, <1>2, <1>3, <1>4, <1>5, <1>6, <1>7
     DEF WorkerStep, WSelectStale, WNothingQueued, WFetch, WTerminate, WRead

LEMMA EnvironmentTable == TypeOK /\ EnvironmentStep => TableStep
<1> SUFFICES ASSUME TypeOK, EnvironmentStep PROVE TableStep
  OBVIOUS
<1>1. ASSUME NEW w \in Workers, WError(w) PROVE TableStep
  BY <1>1, FinishStep DEF WError, TypeOK, Coherent
<1>2. ASSUME NEW i \in Ids, HeartbeatExpires(i) PROVE TableStep
  <2>1. Silent(rows[i]) \in Row
    BY RowTypes DEF TypeOK
  <2>2. QED
    BY <1>2, <2>1 DEF HeartbeatExpires, TableStep, RowChange
<1>3. CASE UNCHANGED rows
  BY <1>3 DEF TableStep
<1>4. QED
  BY <1>1, <1>2, <1>3 DEF EnvironmentStep, WCrash, ChildExit, OrphanExit

LEMMA NextTable == TypeOK /\ IdsInOrder /\ [Next]_vars => TableStep
<1>1. UNCHANGED vars => TableStep
  BY DEF vars, TableStep
<1>2. QED
  BY <1>1, ClientTable, WorkerTable, EnvironmentTable DEF Next

-----------------------------------------------------------------------------
(* The inductive invariant. *)

IInv == TypeOK /\ IdsInOrder /\ ForceOnlyWhileRunning /\ OneHolderPerAttempt

(* Only a claim makes a worker a holder, or changes what it holds. *)
Keeps(k, x) == x.pc \in Holding =>
    k.pc \in Holding /\ x.job = k.job /\ x.run = k.run

LEMMA HolderStep ==
    ASSUME TypeOK, [Next]_vars, \A w \in Workers : ~WClaim(w)
    PROVE  \A v \in Workers : Keeps(wk[v], wk'[v])
<1>1. CASE UNCHANGED wk
  BY <1>1 DEF Keeps
<1>k. \A w \in Workers : wk[w] \in Worker /\ Coherent(wk[w])
  BY DEF TypeOK
<1>3. ASSUME NEW w \in Workers, WorkerStep(w)
      PROVE  \A v \in Workers : Keeps(wk[v], wk'[v])
  <2> DEFINE k == wk[w]
  <2>k. k \in Worker /\ (k.pc \in Holding => k.job \in Ids)
    BY <1>k DEF Coherent
  <2>1. CASE \E S : Become(w, [k EXCEPT !.pc = "reap", !.todo = S])
    BY <2>1, <2>k DEF Become, Keeps, Worker, TypeOK
  <2>2. CASE k.pc = "reap" /\ \E S : Become(w, [k EXCEPT !.todo = S])
    BY <2>2, <2>k DEF Become, Keeps, Worker, TypeOK
  <2>3. CASE Become(w, IdleWorker)
    BY <2>3 DEF Become, Keeps, IdleWorker, TypeOK
  <2>4. CASE k.pc \in Holding /\ \E p, a : Become(w, [k EXCEPT !.pc = p, !.att = a])
    BY <2>4, <2>k DEF Become, Keeps, Worker, TypeOK
  <2>5. CASE k.pc \in Holding /\ \E p, c : Become(w, [k EXCEPT !.pc = p, !.child = c])
    BY <2>5, <2>k DEF Become, Keeps, Worker, TypeOK
  <2>6. CASE k.pc \in Holding /\ \E p : Become(w, [k EXCEPT !.pc = p])
    BY <2>6, <2>k DEF Become, Keeps, Worker, TypeOK
  <2>7. CASE k.pc \in Holding
             /\ \E p, v, a : Become(w, [k EXCEPT !.pc = p, !.verdict = v, !.seen = a])
    BY <2>7, <2>k DEF Become, Keeps, Worker, TypeOK
  <2>8. WSelectStale(w) => \E S : Become(w, [k EXCEPT !.pc = "reap", !.todo = S])
    BY DEF WSelectStale
  <2>9. WReap(w) => k.pc = "reap" /\ \E S : Become(w, [k EXCEPT !.todo = S])
    BY DEF WReap
  <2>10. WNothingQueued(w) \/ WRequeue(w) \/ WClose(w) => Become(w, IdleWorker)
    BY DEF WNothingQueued, WRequeue, WClose
  <2>11. WFetch(w) => \/ Become(w, IdleWorker)
                      \/ k.pc \in Holding
                         /\ \E p, a : Become(w, [k EXCEPT !.pc = p, !.att = a])
    BY DEF WFetch
  <2>12. WSpawn(w) \/ WTerminate(w) =>
            k.pc \in Holding /\ \E p, c : Become(w, [k EXCEPT !.pc = p, !.child = c])
    BY DEF WSpawn, WTerminate
  <2>13. WPoll(w) => k.pc \in Holding /\ \E p : Become(w, [k EXCEPT !.pc = p])
    BY DEF WPoll
  <2>14. WRead(w) => \/ Become(w, IdleWorker)
                     \/ k.pc \in Holding
                        /\ \E p, v, a : Become(w, [k EXCEPT !.pc = p, !.verdict = v, !.seen = a])
    BY DEF WRead
  <2>15. QED
    BY <1>3, <2>1, <2>2, <2>3, <2>4, <2>5, <2>6, <2>7, <2>8, <2>9, <2>10, <2>11,
       <2>12, <2>13, <2>14 DEF WorkerStep
<1>4. ASSUME NEW w \in Workers, WError(w) \/ WCrash(w) \/ ChildExit(w)
      PROVE  \A v \in Workers : Keeps(wk[v], wk'[v])
  <2>1. Become(w, IdleWorker) => \A v \in Workers : Keeps(wk[v], wk'[v])
    BY DEF Become, Keeps, IdleWorker, TypeOK
  <2>2. ASSUME NEW c, Become(w, [wk[w] EXCEPT !.child = c])
        PROVE \A v \in Workers : Keeps(wk[v], wk'[v])
    BY <1>k, <2>2 DEF Become, Keeps, Worker, TypeOK
  <2>3. QED
    BY <1>4, <2>1, <2>2 DEF WError, WCrash, ChildExit
<1>5. QED
  BY <1>1, <1>3, <1>4 DEF Next, ClientStep, EnvironmentStep, SubmitNew, Resubmit,
     ForceSubmit, CancelRead, CancelWrite, OrphanExit, HeartbeatExpires, vars

(* What a change of a row does to its attempt, its flags and its status. *)
LEMMA RowChangeFacts ==
    ASSUME NEW r \in Row, NEW s \in Row, RowChange(r, s),
           r.force => r.status = "running"
    PROVE  /\ s.force => s.status = "running"
           /\ s.status # "absent"
           /\ r.status # "absent" => s.attempt >= r.attempt
           /\ r.status # "absent" /\ s.status = "queued" =>
                (r.status = "queued" /\ s.attempt = r.attempt) \/ s.attempt > r.attempt
<1>1. ASSUME NEW f \in Fingerprints, r.status = "absent", s = Inserted(f)
      PROVE  s.status = "queued" /\ ~s.force
  BY <1>1 DEF Inserted, AbsentRow
<1>2. CASE r.status = "queued" /\ (s = Claimed(r) \/ s = CancelledQueued(r))
  <2>1. Claimed(r).status = "running" /\ Claimed(r).attempt = r.attempt
    BY DEF Claimed, Row
  <2>2. /\ CancelledQueued(r).status = "cancelled"
        /\ CancelledQueued(r).attempt = r.attempt
        /\ CancelledQueued(r).force = r.force
    BY DEF CancelledQueued, Row
  <2>3. QED
    BY <1>2, <2>1, <2>2 DEF Row
<1>3. ASSUME NEW t \in Terminal, r.status = "running", s = Closed(r, t)
      PROVE  s.status = t /\ ~s.force /\ s.attempt = r.attempt
  BY <1>3 DEF Closed, Row
<1>4. CASE s = [Requeued(r) EXCEPT !.fresh = r.fresh]
  BY <1>4 DEF Requeued, Row
<1>5. CASE r.status = "running" /\ (s = MarkedForce(r) \/ s = Heard(r) \/ s = Silent(r))
  <2>1. \A x \in {MarkedForce(r), Heard(r), Silent(r)} :
            x.status = r.status /\ x.attempt = r.attempt
    BY DEF MarkedForce, Heard, Silent, Row
  <2>2. QED
    BY <1>5, <2>1 DEF Row
<1>6. CASE s = Requeued(r)
  BY <1>6 DEF Requeued, Row
<1>7. CASE r.status # "absent" /\ s = MarkedCancel(r)
  BY <1>7 DEF MarkedCancel, Row
<1>8. QED
  BY <1>1, <1>2, <1>3, <1>4, <1>5, <1>6, <1>7 DEF RowChange, Row

LEMMA OrderStep == IInv /\ [Next]_vars => IdsInOrder'
<1> SUFFICES ASSUME IInv, [Next]_vars PROVE IdsInOrder'
  OBVIOUS
<1>1. nextId \in Nat /\ nextId' \in {nextId, nextId + 1}
  <2>1. nextId \in Nat
    BY BoundsAssumption DEF IInv, TypeOK, BoundsAssumption
  <2>2. ClientStep => nextId' \in {nextId, nextId + 1}
    BY DEF ClientStep, SubmitNew, Resubmit, ForceSubmit, CancelRead, CancelWrite
  <2>3. \A w \in Workers : WorkerStep(w) => nextId' = nextId
    BY DEF WorkerStep, WSelectStale, WReap, WClaim, WNothingQueued, WFetch, WSpawn,
       WPoll, WTerminate, WRead, WRequeue, WClose
  <2>4. EnvironmentStep => nextId' = nextId
    BY DEF EnvironmentStep, WError, WCrash, ChildExit, OrphanExit, HeartbeatExpires
  <2>5. QED
    BY <2>1, <2>2, <2>3, <2>4 DEF Next, vars
<1>2. \A i \in Ids : Exists(i)' => i < nextId'
  <2>1. TableStep
    BY NextTable DEF IInv
  <2>2. CASE UNCHANGED rows
    BY <2>2, <1>1 DEF IInv, IdsInOrder, Exists
  <2>3. ASSUME NEW i \in Ids, NEW s \in Row,
               rows' = [rows EXCEPT ![i] = s], RowChange(rows[i], s),
               rows[i].status = "absent" =>
                 (i = nextId /\ nextId' = nextId + 1) \/ s = Requeued(rows[i])
        PROVE  \A j \in Ids : Exists(j)' => j < nextId'
    <3>1. s = Requeued(rows[i]) /\ rows[i].status = "absent" => FALSE
      <4>1. ~AbsentRow.force
        BY DEF AbsentRow
      <4>2. rows[i].force => rows[i].status = "running"
        BY DEF IInv, ForceOnlyWhileRunning
      <4>3. ASSUME NEW f \in Fingerprints, s = Inserted(f), s = Requeued(rows[i])
            PROVE  FALSE
        <5>1. s.attempt = 0
          BY <4>3 DEF Inserted, AbsentRow
        <5>2. rows[i].attempt \in Nat /\ s.attempt = rows[i].attempt + 1
          BY <4>3 DEF Requeued, IInv, TypeOK, Row
        <5>3. QED
          BY <5>1, <5>2
      <4>4. QED
        BY <2>3, <4>2, <4>3 DEF RowChange
    <3>2. QED
      BY <2>3, <3>1, <1>1 DEF IInv, IdsInOrder, Exists, TypeOK
  <2>4. QED
    BY <2>1, <2>2, <2>3 DEF TableStep
<1>3. \A w \in Workers : wk'[w].pc \in Holding => wk'[w].job < nextId'
  <2>1. CASE \A w \in Workers : ~WClaim(w)
    <3>1. \A v \in Workers : Keeps(wk[v], wk'[v])
      BY <2>1, HolderStep DEF IInv
    <3>2. \A v \in Workers : wk[v].pc \in Holding => wk[v].job \in Ids
      BY DEF IInv, TypeOK, Coherent
    <3>3. QED
      BY <3>1, <3>2, <1>1, BoundsAssumption DEF Keeps, IInv, IdsInOrder
  <2>2. ASSUME NEW w \in Workers, WClaim(w)
        PROVE  \A v \in Workers : wk'[v].pc \in Holding => wk'[v].job < nextId'
    <3>1. PICK i \in Queue :
              Become(w, [IdleWorker EXCEPT !.pc = "claimed", !.job = i,
                                           !.run = rows[i].attempt])
      BY <2>2 DEF WClaim
    <3>2. i < nextId /\ nextId' = nextId
      BY <2>2 DEF Queue, IInv, IdsInOrder, Exists, WClaim
    <3>3. wk'[w].job = i /\ \A v \in Workers \ {w} : wk'[v] = wk[v]
      BY <3>1 DEF Become, IdleWorker, IInv, TypeOK
    <3>4. QED
      BY <3>2, <3>3 DEF IInv, IdsInOrder
  <2>3. QED
    BY <2>1, <2>2
<1>4. QED
  BY <1>2, <1>3 DEF IdsInOrder

LEMMA ForceStep == IInv /\ [Next]_vars => ForceOnlyWhileRunning'
<1> SUFFICES ASSUME IInv, [Next]_vars PROVE ForceOnlyWhileRunning'
  OBVIOUS
<1>1. TableStep
  BY NextTable DEF IInv
<1>2. CASE UNCHANGED rows
  BY <1>2 DEF IInv, ForceOnlyWhileRunning
<1>3. ASSUME NEW i \in Ids, NEW s \in Row,
             rows' = [rows EXCEPT ![i] = s], RowChange(rows[i], s)
      PROVE  ForceOnlyWhileRunning'
  BY <1>3, RowChangeFacts DEF IInv, ForceOnlyWhileRunning, TypeOK
<1>4. QED
  BY <1>1, <1>2, <1>3 DEF TableStep

(* Rows that are held exist no less after a step, and come back into the
   queue with a higher attempt only. *)
LEMMA AttemptsStep ==
    ASSUME IInv, [Next]_vars, NEW i \in Ids, i < nextId
    PROVE  /\ rows[i].attempt \in Nat /\ rows'[i].attempt \in Nat
           /\ Exists(i) => rows'[i].attempt >= rows[i].attempt /\ Exists(i)'
           /\ Exists(i) /\ rows'[i].status = "queued" =>
                 (rows[i].status = "queued" /\ rows'[i].attempt = rows[i].attempt)
                 \/ rows'[i].attempt > rows[i].attempt
           /\ ~Exists(i) => rows'[i] = rows[i]
<1>1. TableStep
  BY NextTable DEF IInv
<1>2. rows[i] \in Row /\ rows[i].attempt \in Nat /\ nextId \in Nat /\ i \in Nat
  BY BoundsAssumption DEF IInv, TypeOK, Row, BoundsAssumption
<1>3. CASE UNCHANGED rows
  BY <1>2, <1>3 DEF Exists
<1>4. ASSUME NEW j \in Ids, NEW s \in Row,
             rows' = [rows EXCEPT ![j] = s], RowChange(rows[j], s),
             rows[j].status = "absent" =>
               (j = nextId /\ nextId' = nextId + 1) \/ s = Requeued(rows[j])
      PROVE  /\ rows'[i].attempt \in Nat
             /\ Exists(i) => rows'[i].attempt >= rows[i].attempt /\ Exists(i)'
             /\ Exists(i) /\ rows'[i].status = "queued" =>
                   (rows[i].status = "queued" /\ rows'[i].attempt = rows[i].attempt)
                   \/ rows'[i].attempt > rows[i].attempt
             /\ ~Exists(i) => rows'[i] = rows[i]
  <2>1. CASE i # j
    <3>1. rows'[i] = rows[i]
      BY <2>1, <1>4 DEF IInv, TypeOK
    <3>2. QED
      BY <3>1, <1>2 DEF Exists
  <2>2. CASE i = j
    <3>1. rows'[i] = s /\ s.attempt \in Nat
      BY <2>2, <1>4 DEF IInv, TypeOK, Row
    <3>2. rows[i].force => rows[i].status = "running"
      BY DEF IInv, ForceOnlyWhileRunning
    <3>3. Exists(i)
      <4>1. ASSUME ~Exists(i), s = Requeued(rows[i]) PROVE FALSE
        <5>1. PICK f \in Fingerprints : s = Inserted(f)
          BY <4>1, <2>2, <1>4, <3>2 DEF RowChange, Exists
        <5>2. s.attempt = 0
          BY <5>1 DEF Inserted, AbsentRow
        <5>3. s.attempt = rows[i].attempt + 1
          BY <4>1 DEF Requeued
        <5>4. QED
          BY <5>2, <5>3, <1>2
      <4>2. QED
        BY <4>1, <2>2, <1>2, <1>4 DEF Exists
    <3>4. QED
      BY <3>1, <3>2, <3>3, <2>2, <1>2, <1>4, RowChangeFacts DEF Exists
  <2>3. QED
    BY <2>1, <2>2
<1>5. QED
  BY <1>1, <1>2, <1>3, <1>4 DEF TableStep

LEMMA HolderInvStep == IInv /\ [Next]_vars => OneHolderPerAttempt'
<1> SUFFICES ASSUME IInv, [Next]_vars PROVE OneHolderPerAttempt'
  OBVIOUS
<1> DEFINE Below(i, n) == /\ n <= rows'[i].attempt \/ rows'[i].status = "absent"
                          /\ rows'[i].status = "queued" => n < rows'[i].attempt
<1> DEFINE Apart(k, x) == k.pc \in Holding /\ x.pc \in Holding /\ k.job = x.job => k.run # x.run
<1>s. SUFFICES /\ \A v, w \in Workers : v # w => Apart(wk'[v], wk'[w])
               /\ \A w \in Workers : wk'[w].pc \in Holding => Below(wk'[w].job, wk'[w].run)
  BY DEF OneHolderPerAttempt, Exists
<1> HIDE DEF Below, Apart
<1>p. \A v, w \in Workers : v # w => Apart(wk[v], wk[w])
  BY DEF IInv, OneHolderPerAttempt, Apart
<1>h. ASSUME NEW w \in Workers, wk[w].pc \in Holding
      PROVE  /\ wk[w].job \in Ids /\ wk[w].job < nextId /\ wk[w].run \in Nat
             /\ wk[w].run <= rows[wk[w].job].attempt \/ ~Exists(wk[w].job)
             /\ rows[wk[w].job].status = "queued" => wk[w].run < rows[wk[w].job].attempt
  BY <1>h DEF IInv, TypeOK, Coherent, IdsInOrder, OneHolderPerAttempt, Worker
<1>a. ASSUME NEW w \in Workers, wk[w].pc \in Holding
      PROVE  Below(wk[w].job, wk[w].run)
  <2> DEFINE i == wk[w].job
  <2>1. /\ i \in Ids /\ i < nextId /\ wk[w].run \in Nat
        /\ wk[w].run <= rows[i].attempt \/ ~Exists(i)
        /\ rows[i].status = "queued" => wk[w].run < rows[i].attempt
    BY <1>a, <1>h
  <2> HIDE DEF i
  <2>2. /\ rows[i].attempt \in Nat /\ rows'[i].attempt \in Nat
        /\ Exists(i) => rows'[i].attempt >= rows[i].attempt
        /\ Exists(i) /\ rows'[i].status = "queued" =>
              (rows[i].status = "queued" /\ rows'[i].attempt = rows[i].attempt)
              \/ rows'[i].attempt > rows[i].attempt
        /\ ~Exists(i) => rows'[i] = rows[i]
    BY <2>1, AttemptsStep
  <2>3. Below(i, wk[w].run)
    BY <2>1, <2>2 DEF Exists, Below
  <2>4. QED
    BY <2>3 DEF i
<1>1. CASE \A w \in Workers : ~WClaim(w)
  <2>1. \A v \in Workers : Keeps(wk[v], wk'[v])
    BY <1>1, HolderStep DEF IInv
  <2>2. \A v, w \in Workers : v # w => Apart(wk'[v], wk'[w])
    BY <2>1, <1>p DEF Keeps, Apart
  <2>3. ASSUME NEW w \in Workers, wk'[w].pc \in Holding
        PROVE  Below(wk'[w].job, wk'[w].run)
    BY <2>1, <2>3, <1>a DEF Keeps
  <2>4. QED
    BY <2>2, <2>3
<1>2. ASSUME NEW w \in Workers, WClaim(w)
      PROVE  /\ \A u, v \in Workers : u # v => Apart(wk'[u], wk'[v])
             /\ \A v \in Workers : wk'[v].pc \in Holding => Below(wk'[v].job, wk'[v].run)
  <2>1. PICK i \in Queue :
            /\ rows' = [rows EXCEPT ![i] = Claimed(@)]
            /\ Become(w, [IdleWorker EXCEPT !.pc = "claimed", !.job = i,
                                           !.run = rows[i].attempt])
    BY <1>2 DEF WClaim
  <2>2. i \in Ids /\ rows[i].status = "queued" /\ rows[i] \in Row /\ rows[i].attempt \in Nat
    BY DEF Queue, IInv, TypeOK, Row
  <2>3. Claimed(rows[i]).status = "running" /\ Claimed(rows[i]).attempt = rows[i].attempt
    BY <2>2 DEF Claimed, Row
  <2>4. rows'[i].status = "running" /\ rows'[i].attempt = rows[i].attempt
    BY <2>1, <2>2, <2>3 DEF IInv, TypeOK
  <2>5. /\ wk'[w].job = i /\ wk'[w].run = rows[i].attempt
        /\ \A v \in Workers \ {w} : wk'[v] = wk[v]
    BY <2>1 DEF Become, IdleWorker, IInv, TypeOK
  <2>6. ASSUME NEW v \in Workers, v # w
        PROVE  Apart(wk'[v], wk'[w]) /\ Apart(wk'[w], wk'[v])
    <3>1. wk[v].pc \in Holding /\ wk[v].job = i => wk[v].run # rows[i].attempt
      BY <1>h, <2>2
    <3>2. wk'[v] = wk[v]
      BY <2>5, <2>6
    <3>3. QED
      BY <2>5, <3>1, <3>2 DEF Apart
  <2>7. \A u, v \in Workers : u # v => Apart(wk'[u], wk'[v])
    <3>1. SUFFICES ASSUME NEW u \in Workers, NEW v \in Workers, u # v
                   PROVE  Apart(wk'[u], wk'[v])
      OBVIOUS
    <3>2. CASE u # w /\ v # w
      BY <3>1, <3>2, <2>5, <1>p
    <3>3. QED
      BY <3>1, <3>2, <2>6
  <2>8. ASSUME NEW v \in Workers, wk'[v].pc \in Holding
        PROVE  Below(wk'[v].job, wk'[v].run)
    <3>1. CASE v # w
      <4>1. wk'[v] = wk[v]
        BY <2>5, <3>1
      <4>2. QED
        BY <4>1, <2>8, <1>a
    <3>2. CASE v = w
      BY <3>2, <2>2, <2>4, <2>5 DEF Below
    <3>3. QED
      BY <3>1, <3>2
  <2>9. QED
    BY <2>7, <2>8
<1>3. QED
  BY <1>1, <1>2

LEMMA Invariant == Spec => []IInv
<1>1. Init => IInv
  <2>1. Init => IdsInOrder /\ ForceOnlyWhileRunning /\ OneHolderPerAttempt
    BY DEF Init, IdsInOrder, Exists, ForceOnlyWhileRunning, OneHolderPerAttempt,
       AbsentRow, IdleWorker
  <2>2. QED
    BY <2>1, TypeInit DEF IInv
<1>2. IInv /\ [Next]_vars => IInv'
  BY TypeStep, OrderStep, ForceStep, HolderInvStep DEF IInv
<1>3. QED
  BY <1>1, <1>2, PTL DEF Spec

(* Two workers never hold one job under one attempt: the attempt number that a
   claim returns is a valid fencing token, whatever stalls, errors and kills
   happen. *)
THEOREM AttemptIsFencingToken == Spec => []OneHolderPerAttempt
<1>1. IInv => OneHolderPerAttempt
  BY DEF IInv
<1>2. QED
  BY <1>1, Invariant, PTL

(* requeue_after_cancel, which does not look at the status, requeues running
   rows only. *)
THEOREM ForceFlagOnlyOnRunningRows == Spec => []ForceOnlyWhileRunning
<1>1. IInv => ForceOnlyWhileRunning
  BY DEF IInv
<1>2. QED
  BY <1>1, Invariant, PTL

-----------------------------------------------------------------------------
(* The table implements the abstract life cycle. *)

View(r) == [status |-> r.status, attempt |-> r.attempt]
Life == [i \in Ids |-> View(rows[i])]

(* A change of a row is a step of the life cycle, or leaves its view alone. *)
LEMMA RowChangeIsLifeStep ==
    ASSUME NEW r \in Row, NEW s \in Row, RowChange(r, s),
           r.force => r.status = "running"
    PROVE  \/ View(s) = View(r)
           \/ r.status = "absent" /\ View(s) = [status |-> "queued", attempt |-> 0]
           \/ r.status = "queued" /\ View(s) = [status |-> "running", attempt |-> r.attempt]
           \/ r.status \in {"queued", "running"} /\ \E t \in Terminal :
                View(s) = [status |-> t, attempt |-> r.attempt]
           \/ r.status # "absent"
              /\ View(s) = [status |-> "queued", attempt |-> r.attempt + 1]
<1>1. ASSUME NEW f \in Fingerprints, r.status = "absent", s = Inserted(f)
      PROVE  View(s) = [status |-> "queued", attempt |-> 0]
  BY <1>1 DEF Inserted, AbsentRow, View
<1>2. CASE r.status = "queued" /\ s = Claimed(r)
  BY <1>2 DEF Claimed, Row, View
<1>3. CASE r.status = "queued" /\ s = CancelledQueued(r)
  <2>1. View(s) = [status |-> "cancelled", attempt |-> r.attempt]
    BY <1>3 DEF CancelledQueued, Row, View
  <2>2. QED
    BY <1>3, <2>1
<1>4. ASSUME NEW t \in Terminal, r.status = "running", s = Closed(r, t)
      PROVE  View(s) = [status |-> t, attempt |-> r.attempt]
  BY <1>4 DEF Closed, Row, View
<1>5. CASE r.status = "running" /\ s = [Requeued(r) EXCEPT !.fresh = r.fresh]
  BY <1>5 DEF Requeued, View
<1>6. CASE s = MarkedForce(r) \/ s = Heard(r) \/ s = Silent(r) \/ s = MarkedCancel(r)
  <2>1. \A x \in {MarkedForce(r), Heard(r), Silent(r), MarkedCancel(r)} : View(x) = View(r)
    BY DEF MarkedForce, Heard, Silent, MarkedCancel, Row, View
  <2>2. QED
    BY <1>6, <2>1
<1>7. CASE (r.status # "absent" \/ r.force) /\ s = Requeued(r)
  BY <1>7 DEF Requeued, View
<1>8. QED
  BY <1>1, <1>2, <1>3, <1>4, <1>5, <1>6, <1>7 DEF RowChange

LEMMA LifeStep == IInv /\ [Next]_vars => [Lifecycle!LifeNext]_Life
<1> SUFFICES ASSUME IInv, [Next]_vars PROVE [Lifecycle!LifeNext]_Life
  OBVIOUS
<1>1. TableStep
  BY NextTable DEF IInv
<1>2. CASE UNCHANGED rows
  BY <1>2 DEF Life
<1>3. ASSUME NEW i \in Ids, NEW s \in Row,
             rows' = [rows EXCEPT ![i] = s], RowChange(rows[i], s)
      PROVE  [Lifecycle!LifeNext]_Life
  <2>1. Life' = [Life EXCEPT ![i] = View(s)]
    <3>1. \A j \in Ids : rows'[j] = IF j = i THEN s ELSE rows[j]
      BY <1>3 DEF IInv, TypeOK
    <3>2. QED
      BY <3>1 DEF Life
  <2>2. /\ Life[i] = View(rows[i])
        /\ Life[i].status = rows[i].status /\ Life[i].attempt = rows[i].attempt
    BY DEF Life, View
  <2>3. rows[i] \in Row /\ (rows[i].force => rows[i].status = "running")
    BY DEF IInv, TypeOK, ForceOnlyWhileRunning
  <2>4. \/ View(s) = View(rows[i])
        \/ rows[i].status = "absent" /\ View(s) = [status |-> "queued", attempt |-> 0]
        \/ /\ rows[i].status = "queued"
           /\ View(s) = [status |-> "running", attempt |-> rows[i].attempt]
        \/ rows[i].status \in {"queued", "running"} /\ \E t \in Terminal :
             View(s) = [status |-> t, attempt |-> rows[i].attempt]
        \/ /\ rows[i].status # "absent"
           /\ View(s) = [status |-> "queued", attempt |-> rows[i].attempt + 1]
    BY <1>3, <2>3, RowChangeIsLifeStep
  <2> DEFINE Put(status, attempt) ==
               Life' = [Life EXCEPT ![i] = [status |-> status, attempt |-> attempt]]
  <2>5. CASE View(s) = View(rows[i])
    <3>1. Life' = Life
      BY <2>1, <2>2, <2>5 DEF Life
    <3>2. QED
      BY <3>1
  <2>6. CASE /\ rows[i].status = "absent"
             /\ View(s) = [status |-> "queued", attempt |-> 0]
    <3>1. Lifecycle!Insert(i)
      BY <2>1, <2>2, <2>6 DEF Lifecycle!Insert, Lifecycle!Become, Life, View
    <3>2. QED
      BY <3>1 DEF Lifecycle!LifeNext
  <2>7. CASE /\ rows[i].status = "queued"
             /\ View(s) = [status |-> "running", attempt |-> rows[i].attempt]
    <3>1. Lifecycle!Claim(i)
      BY <2>1, <2>2, <2>7 DEF Lifecycle!Claim, Lifecycle!Become, Life, View
    <3>2. QED
      BY <3>1 DEF Lifecycle!LifeNext
  <2>8. CASE rows[i].status \in {"queued", "running"} /\ \E t \in Terminal :
               View(s) = [status |-> t, attempt |-> rows[i].attempt]
    <3>1. Lifecycle!Close(i)
      BY <2>1, <2>2, <2>8
         DEF Lifecycle!Close, Lifecycle!Become, Lifecycle!Terminal, Life, View
    <3>2. QED
      BY <3>1 DEF Lifecycle!LifeNext
  <2>9. CASE /\ rows[i].status # "absent"
             /\ View(s) = [status |-> "queued", attempt |-> rows[i].attempt + 1]
    <3>1. Lifecycle!Requeue(i)
      BY <2>1, <2>2, <2>9 DEF Lifecycle!Requeue, Lifecycle!Become, Life, View
    <3>2. QED
      BY <3>1 DEF Lifecycle!LifeNext
  <2>10. QED
    BY <2>4, <2>5, <2>6, <2>7, <2>8, <2>9
<1>4. QED
  BY <1>1, <1>2, <1>3 DEF TableStep

(* The queue implements the life cycle: whatever workers, clients and faults
   do, a row is claimed from the queue only, ends under the attempt it ran
   under, and comes back into the queue under the next one. *)
THEOREM RefinesLifecycle == Spec => ImplementsLifecycle
<1>1. Init => Lifecycle!LifeInit
  BY DEF Init, Lifecycle!LifeInit, AbsentRow
<1>2. IInv /\ [Next]_vars => [Lifecycle!LifeNext]_Life
  BY LifeStep
<1>3. QED
  BY <1>1, <1>2, Invariant, PTL
     DEF Spec, ImplementsLifecycle, Lifecycle!LifeSpec, Life, View

-----------------------------------------------------------------------------
(* What each statement makes of the columns that the next proofs look at. *)
LEMMA RowEffects ==
    ASSUME NEW r \in Row
    PROVE  /\ Requeued(r).status = "queued"
           /\ \A n \in Nat : Reaped(r, n).status \in {"queued", "failed"}
           /\ \A t : Closed(r, t).status = t
           /\ CancelledQueued(r).status = "cancelled"
           /\ /\ Claimed(r).status = "running" /\ Claimed(r).fresh
              /\ Claimed(r).attempt = r.attempt
           /\ \A s \in {MarkedForce(r), MarkedCancel(r), Heard(r), Silent(r)} :
                s.status = r.status /\ s.attempt = r.attempt
           /\ \A s \in {MarkedForce(r), MarkedCancel(r), Heard(r)} :
                (r.fresh => s.fresh) /\ (r.force => s.force)
           /\ Heard(r).fresh
           /\ \A f : Inserted(f).status = "queued"
<1>1. Requeued(r).status = "queued"
  BY DEF Requeued
<1>2. \A t : Closed(r, t).status = t
  BY DEF Closed, Row
<1>3. \A n \in Nat : Reaped(r, n).status \in {"queued", "failed"}
  BY <1>2 DEF Reaped, Requeued
<1>4. CancelledQueued(r).status = "cancelled"
  BY DEF CancelledQueued, Row
<1>5. Claimed(r).status = "running" /\ Claimed(r).fresh /\ Claimed(r).attempt = r.attempt
  BY DEF Claimed, Row
<1>6. \A s \in {MarkedForce(r), MarkedCancel(r), Heard(r), Silent(r)} :
        s.status = r.status /\ s.attempt = r.attempt
  BY DEF MarkedForce, MarkedCancel, Heard, Silent, Row
<1>7. \A s \in {MarkedForce(r), MarkedCancel(r), Heard(r)} :
        (r.fresh => s.fresh) /\ (r.force => s.force)
  BY DEF MarkedForce, MarkedCancel, Heard, Row
<1>8. Heard(r).fresh /\ \A f : Inserted(f).status = "queued"
  BY DEF Heard, Inserted, AbsentRow, Row
<1>9. QED
  BY <1>1, <1>2, <1>3, <1>4, <1>5, <1>6, <1>7, <1>8

-----------------------------------------------------------------------------
(* Results survive.  As long as nobody forces a rerun, a directory that holds
   a result keeps it, so whoever saw a child end well, decided on "succeeded"
   or reads it in the table may rely on the result. *)
ResultKept ==
    /\ \A w \in Workers : wk[w].child = "ok" \/ wk[w].verdict = "succeeded" =>
          wk[w].job \in Ids /\ art[wk[w].job] = "result"
    /\ SucceededHasResult

\* Nobody reads "succeeded" for the first time.
NoNewSuccess == \A i \in Ids : rows'[i].status = "succeeded" => rows[i].status = "succeeded"
ResultsStay == \A i \in Ids : art[i] = "result" => art'[i] = "result"

LEMMA ResultsStayKept ==
    ASSUME ResultKept, ResultsStay, NoNewSuccess,
           \A w \in Workers :
              wk'[w].child = "ok" \/ wk'[w].verdict = "succeeded" =>
                \/ wk'[w].job \in Ids /\ art'[wk'[w].job] = "result"
                \/ (wk[w].child = "ok" \/ wk[w].verdict = "succeeded") /\ wk'[w].job = wk[w].job
    PROVE  ResultKept'
<1>1. SucceededHasResult'
  BY DEF ResultKept, SucceededHasResult, NoNewSuccess, ResultsStay
<1>2. QED
  BY <1>1 DEF ResultKept, ResultsStay

LEMMA ClientResults ==
    ASSUME TypeOK, ResultKept, "force" \notin ClientOps, ClientStep
    PROVE  ResultKept'
<1>r. \A i \in Ids : rows[i] \in Row
  BY DEF TypeOK
<1>1. wk' = wk /\ art' = art
  BY DEF ClientStep, SubmitNew, Resubmit, ForceSubmit, CancelRead, CancelWrite
<1>2. ASSUME NEW f \in Fingerprints, SubmitNew(f) PROVE NoNewSuccess
  BY <1>2, <1>r, RowEffects DEF SubmitNew, NoNewSuccess, TypeOK
<1>3. ASSUME NEW i \in Ids, Resubmit(i) PROVE NoNewSuccess
  BY <1>3, <1>r, RowEffects DEF Resubmit, NoNewSuccess, TypeOK
<1>4. ASSUME NEW c \in cancels, CancelWrite(c) PROVE NoNewSuccess
  BY <1>4, <1>r, RowEffects DEF CancelWrite, NoNewSuccess, TypeOK
<1>5. ASSUME NEW i \in Ids, CancelRead(i) PROVE NoNewSuccess
  BY <1>5 DEF CancelRead, NoNewSuccess
<1>6. NoNewSuccess
  BY <1>2, <1>3, <1>4, <1>5 DEF ClientStep, ForceSubmit
<1>7. QED
  BY <1>1, <1>6, ResultsStayKept DEF ResultsStay

LEMMA WorkerResults ==
    ASSUME TypeOK, ResultKept, NEW w \in Workers, WorkerStep(w)
    PROVE  ResultKept'
<1> DEFINE k == wk[w]
           Fine(x) == x.child = "ok" \/ x.verdict = "succeeded" =>
                        x.job \in Ids /\ art'[x.job] = "result"
<1>r. \A i \in Ids : rows[i] \in Row
  BY DEF TypeOK
<1>k. k \in Worker /\ (k.pc \in Holding => k.job \in Ids)
  BY DEF TypeOK, Coherent
<1>i. Fine(IdleWorker)
  BY DEF IdleWorker
<1>a. ResultsStay
  BY DEF WorkerStep, WSelectStale, WReap, WClaim, WNothingQueued, WFetch, WSpawn, WPoll,
     WTerminate, WRead, WRequeue, WClose, ResultsStay, TypeOK
<1>f. Fine(k)
  BY <1>a DEF ResultKept, ResultsStay
<1>b. ASSUME NoNewSuccess, NEW x, Become(w, x), Fine(x) PROVE ResultKept'
  <2>1. \A v \in Workers : wk'[v] = IF v = w THEN x ELSE wk[v]
    BY <1>b DEF Become, TypeOK
  <2>2. QED
    BY <1>a, <1>b, <2>1, ResultsStayKept
<1>1. CASE WSelectStale(w) \/ WNothingQueued(w)
  <2>1. NoNewSuccess
    BY <1>1 DEF WSelectStale, WNothingQueued, NoNewSuccess
  <2>2. \A S : Fine([k EXCEPT !.pc = "reap", !.todo = S])
    BY <1>k, <1>f DEF Worker
  <2>3. QED
    BY <1>1, <1>b, <1>i, <2>1, <2>2 DEF WSelectStale, WNothingQueued
<1>2. CASE WReap(w)
  <2>1. PICK e \in k.todo :
          /\ Become(w, [k EXCEPT !.todo = @ \ {e}])
          /\ rows' = IF rows[e[1]].status = "running"
                     THEN [rows EXCEPT ![e[1]] = Reaped(@, e[2])] ELSE rows
    BY <1>2 DEF WReap
  <2>2. e[1] \in Ids /\ e[2] \in Nat
    BY <1>k DEF Worker
  <2>3. NoNewSuccess
    BY <1>r, <2>1, <2>2, RowEffects DEF NoNewSuccess, TypeOK
  <2>4. Fine([k EXCEPT !.todo = @ \ {e}])
    BY <1>k, <1>f DEF Worker
  <2>5. QED
    BY <1>b, <2>1, <2>3, <2>4
<1>3. CASE WClaim(w)
  <2>1. PICK i \in Ids :
          /\ rows' = [rows EXCEPT ![i] = Claimed(@)]
          /\ Become(w, [IdleWorker EXCEPT !.pc = "claimed", !.job = i, !.run = rows[i].attempt])
    BY <1>3 DEF WClaim, Queue
  <2>2. NoNewSuccess
    BY <1>r, <2>1, RowEffects DEF NoNewSuccess, TypeOK
  <2>3. Fine([IdleWorker EXCEPT !.pc = "claimed", !.job = i, !.run = rows[i].attempt])
    BY DEF IdleWorker
  <2>4. QED
    BY <1>b, <2>1, <2>2, <2>3
<1>4. CASE WFetch(w)
  <2>1. NoNewSuccess
    BY <1>4 DEF WFetch, NoNewSuccess
  <2>2. \A a : Fine([k EXCEPT !.pc = "spawn", !.att = a])
    BY <1>k, <1>f DEF Worker
  <2>3. QED
    BY <1>4, <1>b, <1>i, <2>1, <2>2 DEF WFetch
<1>5. CASE WSpawn(w) \/ WPoll(w)
  <2>1. NoNewSuccess
    <3>1. Heartbeat(k.job) /\ k.job \in Ids
      BY <1>5, <1>k DEF WSpawn, WPoll
    <3>2. QED
      BY <1>r, <3>1, RowEffects DEF Heartbeat, NoNewSuccess, TypeOK
  <2>2. Fine([k EXCEPT !.pc = "watch", !.child = "alive"])
    BY <1>k, <1>f DEF Worker
  <2>3. \A pc : Fine([k EXCEPT !.pc = pc])
    BY <1>k, <1>f DEF Worker
  <2>4. QED
    BY <1>5, <1>b, <2>1, <2>2, <2>3 DEF WSpawn, WPoll
<1>6. CASE WTerminate(w)
  <2>1. NoNewSuccess
    BY <1>6 DEF WTerminate, NoNewSuccess
  <2>2. \A sig \in {"term", "kill"} :
          Fine([k EXCEPT !.pc = "watch", !.child = IF @ = "alive" THEN sig ELSE @])
    BY <1>k, <1>f DEF Worker
  <2>3. QED
    BY <1>6, <1>b, <2>1, <2>2 DEF WTerminate
<1>7. CASE WRead(w)
  <2> DEFINE v == Verdict(rows[k.job], k.child)
             x == [k EXCEPT !.pc = IF v = "requeue" THEN "requeue" ELSE "close",
                            !.verdict = v, !.seen = rows[k.job].attempt]
  <2>1. NoNewSuccess
    BY <1>7 DEF WRead, NoNewSuccess
  <2>2. v = "succeeded" => k.child = "ok"
    BY DEF Verdict
  <2>3. x.child = k.child /\ x.job = k.job /\ x.verdict = v
    BY <1>k DEF Worker
  <2>4. Fine(x)
    BY <2>2, <2>3, <1>f
  <2>5. Become(w, IdleWorker) \/ Become(w, x)
    BY <1>7 DEF WRead
  <2> HIDE DEF x
  <2>6. QED
    BY <1>b, <1>i, <2>1, <2>4, <2>5
<1>8. CASE WRequeue(w)
  <2>1. NoNewSuccess
    BY <1>8, <1>k, <1>r, RowEffects DEF WRequeue, NoNewSuccess, TypeOK
  <2>2. QED
    BY <1>8, <1>b, <1>i, <2>1 DEF WRequeue
<1>9. CASE WClose(w)
  <2>1. /\ k.job \in Ids /\ Finish(k.job, k.verdict, k.seen) /\ UNCHANGED art
        /\ \A v \in Workers : wk'[v] = IF v = w THEN IdleWorker ELSE wk[v]
    BY <1>9, <1>k DEF WClose, Become, TypeOK
  <2>2. \A i \in Ids : rows'[i].status = "succeeded" =>
          rows[i].status = "succeeded" \/ (i = k.job /\ k.verdict = "succeeded")
    BY <2>1, <1>r, RowEffects DEF Finish, TypeOK
  <2>3. SucceededHasResult'
    BY <2>1, <2>2 DEF ResultKept, SucceededHasResult
  <2>4. QED
    BY <2>1, <2>3, <1>i DEF ResultKept
<1>10. QED
  BY <1>1, <1>2, <1>3, <1>4, <1>5, <1>6, <1>7, <1>8, <1>9 DEF WorkerStep

LEMMA EnvironmentResults ==
    ASSUME TypeOK, ResultKept, EnvironmentStep
    PROVE  ResultKept'
<1>r. \A i \in Ids : rows[i] \in Row
  BY DEF TypeOK
<1>1. ASSUME NEW w \in Workers, WError(w) \/ WCrash(w) PROVE ResultKept'
  <2>1. art' = art /\ \A v \in Workers : wk'[v] = IF v = w THEN IdleWorker ELSE wk[v]
    BY <1>1 DEF WError, WCrash, Become, TypeOK
  <2>2. CASE WError(w)
    <3>1. wk[w].job \in Ids /\ Finish(wk[w].job, "failed", wk[w].att)
      BY <2>2 DEF WError, TypeOK, Coherent
    <3>2. NoNewSuccess
      BY <1>r, <3>1, RowEffects DEF Finish, NoNewSuccess, TypeOK
    <3>3. QED
      BY <2>1, <3>2, ResultsStayKept DEF ResultsStay, IdleWorker
  <2>3. CASE WCrash(w)
    <3>1. NoNewSuccess
      BY <2>3 DEF WCrash, NoNewSuccess
    <3>2. QED
      BY <2>1, <3>1, ResultsStayKept DEF ResultsStay, IdleWorker
  <2>4. QED
    BY <1>1, <2>2, <2>3
<1>2. ASSUME NEW w \in Workers, ChildExit(w) PROVE ResultKept'
  <2>1. PICK st \in {"ok", "err"} :
          /\ Become(w, [wk[w] EXCEPT !.child = st])
          /\ art' = [art EXCEPT ![wk[w].job] = IF st = "ok" THEN "result" ELSE @]
    BY <1>2 DEF ChildExit
  <2>2. wk[w].job \in Ids /\ wk[w] \in Worker
    BY <1>2 DEF ChildExit, TypeOK, Coherent
  <2>3. ResultsStay /\ (st = "ok" => art'[wk[w].job] = "result")
    BY <2>1, <2>2 DEF ResultsStay, TypeOK
  <2>4. \A v \in Workers : wk'[v] = IF v = w THEN [wk[w] EXCEPT !.child = st] ELSE wk[v]
    BY <2>1 DEF Become, TypeOK
  <2>5. LET x == [wk[w] EXCEPT !.child = st]
        IN  x.child = st /\ x.job = wk[w].job /\ x.verdict = wk[w].verdict
    BY <2>2 DEF Worker
  <2>6. NoNewSuccess
    BY <1>2 DEF ChildExit, NoNewSuccess
  <2>7. QED
    BY <2>2, <2>3, <2>4, <2>5, <2>6, ResultsStayKept
<1>3. ASSUME NEW o \in orphans, OrphanExit(o) PROVE ResultKept'
  <2>1. ResultsStay
    BY <1>3 DEF OrphanExit, ResultsStay, TypeOK
  <2>2. QED
    BY <1>3, <2>1, ResultsStayKept DEF OrphanExit, NoNewSuccess
<1>4. ASSUME NEW i \in Ids, HeartbeatExpires(i) PROVE ResultKept'
  <2>1. NoNewSuccess
    BY <1>4, <1>r, RowEffects DEF HeartbeatExpires, NoNewSuccess, TypeOK
  <2>2. QED
    BY <1>4, <2>1, ResultsStayKept DEF HeartbeatExpires, ResultsStay
<1>5. QED
  BY <1>1, <1>2, <1>3, <1>4 DEF EnvironmentStep

(* While no client forces a rerun, every job that reads "succeeded" has a
   result in its directory: neither a run that was taken over, nor the child
   of a dead worker, nor a worker that closes a row late can make the table
   promise a result that is not there.  (With force a worker that decided
   before the rerun was asked for closes the row over the emptied directory.) *)
THEOREM SuccessMeansResult ==
    ASSUME "force" \notin ClientOps
    PROVE  Spec => []SucceededHasResult
<1>1. Init => ResultKept
  BY DEF Init, ResultKept, SucceededHasResult, IdleWorker, AbsentRow
<1>2. ResultKept /\ TypeOK /\ [Next]_vars => ResultKept'
  <2>1. ResultKept /\ UNCHANGED vars => ResultKept'
    BY DEF ResultKept, SucceededHasResult, vars
  <2>2. QED
    BY <2>1, ClientResults, WorkerResults, EnvironmentResults DEF Next
<1>3. ResultKept => SucceededHasResult
  BY DEF ResultKept
<1>4. QED
  BY <1>1, <1>2, <1>3, TypeCorrect, PTL DEF Spec

-----------------------------------------------------------------------------
(* Nothing goes wrong: no stall, no error, no kill.  Then every running row
   has exactly one worker, which holds it under the row's attempt, hears of
   every force and cancel, and leaves only by taking the row out of running;
   the heartbeats never stop, so the reaper never finds a row.  Neither
   property below is inductive without the rest. *)
HoldsRow(k) == k.pc \in Holding =>
    /\ rows[k.job].status = "running" /\ rows[k.job].attempt = k.run
    /\ k.pc = "requeue" => rows[k.job].force
    /\ k.pc = "close" => k.seen = k.run

ChildWatched(k) == k.child = "alive" => k.pc \in {"watch", "terminate"}

Healthy ==
    /\ \A i \in Ids : rows[i].status = "running" => rows[i].fresh
    /\ \A w \in Workers : wk[w].todo = {} /\ HoldsRow(wk[w]) /\ ChildWatched(wk[w])
    /\ \A v, w \in Workers :
         wk[v].pc \in Holding /\ wk[w].pc \in Holding /\ wk[v].job = wk[w].job => v = w
    /\ RunningIsHeld

\* A row goes on running, or goes on not running.
RunsOn(r, s) ==
    /\ r.status = "running" <=> s.status = "running"
    /\ r.status = "running" => /\ s.attempt = r.attempt
                               /\ r.fresh => s.fresh
                               /\ r.force => s.force

\* A worker goes on with the job it holds, or goes on without one.
GoesOn(k, x) ==
    /\ x.todo = {} /\ (k.pc \in Holding <=> x.pc \in Holding) /\ ChildWatched(x)
    /\ k.pc \in Holding => /\ x.job = k.job /\ x.run = k.run
                           /\ x.pc = "requeue" => rows'[k.job].force
                           /\ x.pc = "close" => x.seen = k.run

LEMMA AllGoOn ==
    ASSUME TypeOK, Healthy, \A i \in Ids : RunsOn(rows[i], rows'[i]),
           \A w \in Workers : GoesOn(wk[w], wk'[w])
    PROVE  Healthy'
<1>j. \A w \in Workers : wk[w].pc \in Holding => wk[w].job \in Ids
  BY DEF TypeOK, Coherent
<1>1. \A i \in Ids : rows'[i].status = "running" => rows'[i].fresh
  BY DEF Healthy, RunsOn
<1>2. ASSUME NEW w \in Workers
      PROVE wk'[w].todo = {} /\ HoldsRow(wk[w])' /\ ChildWatched(wk[w])'
  <2>1. wk'[w].todo = {} /\ ChildWatched(wk[w])'
    BY DEF GoesOn, ChildWatched
  <2>2. HoldsRow(wk[w])'
    <3>1. SUFFICES ASSUME wk'[w].pc \in Holding PROVE HoldsRow(wk[w])'
      BY DEF HoldsRow
    <3>2. wk[w].pc \in Holding /\ wk'[w].job = wk[w].job /\ wk'[w].run = wk[w].run
      BY <3>1 DEF GoesOn
    <3>3. RunsOn(rows[wk[w].job], rows'[wk[w].job]) /\ HoldsRow(wk[w])
      BY <1>j, <3>2 DEF Healthy
    <3>4. QED
      BY <3>2, <3>3 DEF HoldsRow, RunsOn, GoesOn
  <2>3. QED
    BY <2>1, <2>2
<1>3. ASSUME NEW v \in Workers, NEW w \in Workers, wk'[v].pc \in Holding,
             wk'[w].pc \in Holding, wk'[v].job = wk'[w].job
      PROVE v = w
  <2>1. /\ wk[v].pc \in Holding /\ wk[v].job = wk'[v].job
        /\ wk[w].pc \in Holding /\ wk[w].job = wk'[w].job
    BY <1>3 DEF GoesOn
  <2>2. QED
    BY <1>3, <2>1 DEF Healthy
<1>4. RunningIsHeld'
  <2>1. SUFFICES ASSUME NEW i \in Ids, rows'[i].status = "running"
                 PROVE  \E w \in Workers : /\ wk'[w].pc \in Holding /\ wk'[w].job = i
                                           /\ wk'[w].run = rows'[i].attempt
    BY DEF RunningIsHeld
  <2>2. rows[i].status = "running" /\ rows'[i].attempt = rows[i].attempt
    BY <2>1 DEF RunsOn
  <2>3. PICK w \in Workers : wk[w].pc \in Holding /\ wk[w].job = i /\ wk[w].run = rows[i].attempt
    BY <2>2 DEF Healthy, RunningIsHeld
  <2>4. wk'[w].pc \in Holding /\ wk'[w].job = i /\ wk'[w].run = rows'[i].attempt
    BY <2>2, <2>3 DEF GoesOn
  <2>5. QED
    BY <2>4
<1>5. QED
  BY <1>1, <1>2, <1>3, <1>4 DEF Healthy

\* Only the row of job i changes, or none.
OnlyRow(i) == \A j \in Ids : j # i => rows'[j] = rows[j]

\* A worker leaves a row that no longer runs.
LEMMA OneLeaves ==
    ASSUME TypeOK, Healthy, NEW w \in Workers, wk[w].pc \in Holding,
           Become(w, IdleWorker), OnlyRow(wk[w].job), rows'[wk[w].job].status # "running"
    PROVE  Healthy'
<1>j. \A v \in Workers : wk[v].pc \in Holding => wk[v].job \in Ids
  BY DEF TypeOK, Coherent
<1>w. \A v \in Workers : wk'[v] = IF v = w THEN IdleWorker ELSE wk[v]
  BY DEF Become, TypeOK
<1>i. /\ IdleWorker.todo = {} /\ IdleWorker.pc \notin Holding
      /\ IdleWorker.child # "alive"
  BY DEF IdleWorker
<1>o. \A v \in Workers : v # w /\ wk[v].pc \in Holding => wk[v].job # wk[w].job
  BY DEF Healthy
<1>1. \A i \in Ids : rows'[i].status = "running" => rows'[i].fresh
  BY DEF Healthy, OnlyRow
<1>2. ASSUME NEW v \in Workers
      PROVE wk'[v].todo = {} /\ HoldsRow(wk[v])' /\ ChildWatched(wk[v])'
  <2>1. CASE v = w
    BY <1>w, <1>i, <2>1 DEF HoldsRow, ChildWatched
  <2>2. CASE v # w
    <3>1. wk'[v] = wk[v] /\ (wk[v].pc \in Holding => rows'[wk[v].job] = rows[wk[v].job])
      BY <1>w, <1>o, <1>j, <2>2 DEF OnlyRow
    <3>2. QED
      BY <3>1 DEF Healthy, HoldsRow, ChildWatched
  <2>3. QED
    BY <2>1, <2>2
<1>3. \A v, u \in Workers :
        wk'[v].pc \in Holding /\ wk'[u].pc \in Holding /\ wk'[v].job = wk'[u].job => v = u
  BY <1>w, <1>i DEF Healthy
<1>4. RunningIsHeld'
  <2>1. SUFFICES ASSUME NEW i \in Ids, rows'[i].status = "running"
                 PROVE  \E v \in Workers : /\ wk'[v].pc \in Holding /\ wk'[v].job = i
                                           /\ wk'[v].run = rows'[i].attempt
    BY DEF RunningIsHeld
  <2>2. i # wk[w].job /\ rows'[i] = rows[i]
    BY <2>1 DEF OnlyRow
  <2>3. PICK v \in Workers : wk[v].pc \in Holding /\ wk[v].job = i /\ wk[v].run = rows[i].attempt
    BY <2>1, <2>2 DEF Healthy, RunningIsHeld
  <2>4. wk'[v] = wk[v]
    BY <1>w, <2>2, <2>3
  <2>5. QED
    BY <2>2, <2>3, <2>4
<1>5. QED
  BY <1>1, <1>2, <1>3, <1>4 DEF Healthy

LEMMA ClaimHealthy ==
    ASSUME TypeOK, Healthy, NEW w \in Workers, WClaim(w)
    PROVE  Healthy'
<1>1. PICK i \in Ids :
        /\ rows[i].status = "queued" /\ rows' = [rows EXCEPT ![i] = Claimed(@)]
        /\ Become(w, [IdleWorker EXCEPT !.pc = "claimed", !.job = i, !.run = rows[i].attempt])
  BY DEF WClaim, Queue
<1> DEFINE x == [IdleWorker EXCEPT !.pc = "claimed", !.job = i, !.run = rows[i].attempt]
<1>2. /\ x.pc = "claimed" /\ x.job = i /\ x.run = rows[i].attempt /\ x.todo = {}
      /\ x.child # "alive"
  BY DEF IdleWorker
<1>w. \A v \in Workers : wk'[v] = IF v = w THEN x ELSE wk[v]
  BY <1>1 DEF Become, TypeOK
<1> HIDE DEF x
<1>r. /\ \A j \in Ids : j # i => rows'[j] = rows[j]
      /\ rows'[i].status = "running" /\ rows'[i].fresh /\ rows'[i].attempt = rows[i].attempt
  BY <1>1, RowEffects DEF TypeOK
<1>o. \A v \in Workers : wk[v].pc \in Holding => wk[v].job \in Ids /\ wk[v].job # i
  BY <1>1 DEF Healthy, HoldsRow, TypeOK, Coherent
<1>p. wk[w].pc \notin Holding
  BY DEF WClaim
<1>3. \A j \in Ids : rows'[j].status = "running" => rows'[j].fresh
  BY <1>r DEF Healthy
<1>4. ASSUME NEW v \in Workers
      PROVE wk'[v].todo = {} /\ HoldsRow(wk[v])' /\ ChildWatched(wk[v])'
  <2>1. CASE v = w
    BY <1>w, <1>2, <1>r, <2>1 DEF HoldsRow, ChildWatched
  <2>2. CASE v # w
    <3>1. wk'[v] = wk[v] /\ (wk[v].pc \in Holding => rows'[wk[v].job] = rows[wk[v].job])
      BY <1>w, <1>o, <1>r, <2>2
    <3>2. QED
      BY <3>1 DEF Healthy, HoldsRow, ChildWatched
  <2>3. QED
    BY <2>1, <2>2
<1>5. \A v, u \in Workers :
        wk'[v].pc \in Holding /\ wk'[u].pc \in Holding /\ wk'[v].job = wk'[u].job => v = u
  BY <1>w, <1>2, <1>o DEF Healthy
<1>6. RunningIsHeld'
  <2>1. SUFFICES ASSUME NEW j \in Ids, rows'[j].status = "running"
                 PROVE  \E v \in Workers : /\ wk'[v].pc \in Holding /\ wk'[v].job = j
                                           /\ wk'[v].run = rows'[j].attempt
    BY DEF RunningIsHeld
  <2>2. CASE j = i
    BY <1>w, <1>2, <1>r, <2>2
  <2>3. CASE j # i
    <3>1. PICK v \in Workers :
            wk[v].pc \in Holding /\ wk[v].job = j /\ wk[v].run = rows[j].attempt
      BY <1>r, <2>1, <2>3 DEF Healthy, RunningIsHeld
    <3>2. wk'[v] = wk[v] /\ rows'[j] = rows[j]
      BY <1>w, <1>p, <1>r, <2>3, <3>1
    <3>3. QED
      BY <3>1, <3>2
  <2>4. QED
    BY <2>2, <2>3
<1>7. QED
  BY <1>3, <1>4, <1>5, <1>6 DEF Healthy

LEMMA ClientHealthy ==
    ASSUME TypeOK, IdsInOrder, Healthy, ClientStep
    PROVE  Healthy'
<1>r. \A i \in Ids : rows[i] \in Row
  BY DEF TypeOK
<1> DEFINE AllRunOn == \A j \in Ids : RunsOn(rows[j], rows'[j])
<1>1. ASSUME NEW f \in Fingerprints, SubmitNew(f) PROVE AllRunOn
  <2>1. nextId \in Ids /\ rows[nextId].status = "absent" /\ Inserted(f).status = "queued"
    BY <1>1, <1>r, RowEffects DEF SubmitNew, IdsInOrder, Exists, TypeOK
  <2>2. QED
    BY <1>1, <2>1 DEF SubmitNew, RunsOn, TypeOK
<1>2. ASSUME NEW i \in Ids, Resubmit(i) PROVE AllRunOn
  BY <1>2, <1>r, RowEffects DEF Resubmit, RunsOn, TypeOK
<1>3. ASSUME NEW i \in Ids, ForceSubmit(i) PROVE AllRunOn
  BY <1>3, <1>r, RowEffects DEF ForceSubmit, RunsOn, TypeOK
<1>4. ASSUME NEW i \in Ids, CancelRead(i) PROVE AllRunOn
  BY <1>4 DEF CancelRead, RunsOn
<1>5. ASSUME NEW c \in cancels, CancelWrite(c) PROVE AllRunOn
  <2>1. PICK i \in Ids : \/ rows[i].status = "queued" /\ rows' = [rows EXCEPT ![i] = CancelledQueued(@)]
                         \/ rows' = [rows EXCEPT ![i] = MarkedCancel(@)]
                         \/ rows' = rows
    BY <1>5 DEF CancelWrite, TypeOK
  <2>2. rows \in [Ids -> Row] /\ rows[i] \in Row
    BY DEF TypeOK
  <2>3. rows[i].status = "queued" => RunsOn(rows[i], CancelledQueued(rows[i]))
    BY <2>2, RowEffects DEF RunsOn
  <2>4. RunsOn(rows[i], MarkedCancel(rows[i])) /\ \A j \in Ids : RunsOn(rows[j], rows[j])
    BY <2>2, RowEffects DEF RunsOn
  <2>5. QED
    BY <2>1, <2>2, <2>3, <2>4
<1>6. AllRunOn
  BY <1>1, <1>2, <1>3, <1>4, <1>5 DEF ClientStep
<1>7. wk' = wk
  BY DEF ClientStep, SubmitNew, Resubmit, ForceSubmit, CancelRead, CancelWrite
<1>8. \A w \in Workers : wk[w].pc \in Holding => wk[w].job \in Ids
  BY DEF TypeOK, Coherent
<1>9. \A w \in Workers : GoesOn(wk[w], wk'[w])
  BY <1>6, <1>7, <1>8 DEF Healthy, HoldsRow, GoesOn, RunsOn
<1>10. QED
  BY <1>6, <1>9, AllGoOn

LEMMA WorkerHealthy ==
    ASSUME TypeOK, Healthy, NEW w \in Workers, WorkerStep(w)
    PROVE  Healthy'
<1> DEFINE k == wk[w]
           AllRunOn == \A j \in Ids : RunsOn(rows[j], rows'[j])
<1>r. \A i \in Ids : rows[i] \in Row
  BY DEF TypeOK
<1>k. k \in Worker /\ (k.pc \in Holding => k.job \in Ids)
  BY DEF TypeOK, Coherent
<1>h. k.todo = {} /\ HoldsRow(k) /\ ChildWatched(k)
  BY DEF Healthy
<1>u. ASSUME rows' = rows PROVE AllRunOn
  BY <1>u DEF RunsOn
<1>b. ASSUME AllRunOn, NEW x, Become(w, x), GoesOn(k, x) PROVE Healthy'
  <2>1. \A v \in Workers : wk'[v] = IF v = w THEN x ELSE wk[v]
    BY <1>b DEF Become, TypeOK
  <2>2. ASSUME NEW v \in Workers, v # w PROVE GoesOn(wk[v], wk'[v])
    <3>1. wk'[v] = wk[v] /\ HoldsRow(wk[v]) /\ (wk[v].pc \in Holding => wk[v].job \in Ids)
      BY <2>1, <2>2 DEF Healthy, TypeOK, Coherent
    <3>2. QED
      BY <1>b, <3>1 DEF Healthy, HoldsRow, GoesOn, RunsOn
  <2>3. \A v \in Workers : GoesOn(wk[v], wk'[v])
    BY <1>b, <2>1, <2>2
  <2>4. QED
    BY <1>b, <2>3, AllGoOn
<1>1. CASE WSelectStale(w)
  <2>1. {<<i, rows[i].attempt>> : i \in Stale} = {} /\ rows' = rows /\ k.pc = "idle"
    BY <1>1 DEF WSelectStale, Stale, Healthy
  <2>2. Become(w, [k EXCEPT !.pc = "reap", !.todo = {}])
    BY <1>1, <2>1 DEF WSelectStale
  <2>3. GoesOn(k, [k EXCEPT !.pc = "reap", !.todo = {}])
    BY <1>k, <1>h, <2>1 DEF GoesOn, ChildWatched, Worker
  <2>4. QED
    BY <1>b, <1>u, <2>1, <2>2, <2>3
<1>2. ~WReap(w)
  BY <1>h DEF WReap
<1>3. CASE WClaim(w)
  BY <1>3, ClaimHealthy
<1>4. CASE WNothingQueued(w)
  <2>1. k.pc = "reap" /\ rows' = rows /\ Become(w, IdleWorker)
    BY <1>4 DEF WNothingQueued
  <2>2. GoesOn(k, IdleWorker)
    BY <2>1 DEF GoesOn, ChildWatched, IdleWorker
  <2>3. QED
    BY <1>b, <1>u, <2>1, <2>2
<1>5. CASE WFetch(w)
  <2>1. k.pc = "claimed" /\ Exists(k.job) /\ rows' = rows
    BY <1>5, <1>h DEF WFetch, HoldsRow, Exists
  <2>2. PICK a : Become(w, [k EXCEPT !.pc = "spawn", !.att = a])
    BY <1>5, <2>1 DEF WFetch
  <2>3. GoesOn(k, [k EXCEPT !.pc = "spawn", !.att = a])
    BY <1>k, <1>h, <2>1 DEF GoesOn, ChildWatched, Worker
  <2>4. QED
    BY <1>b, <1>u, <2>1, <2>2, <2>3
<1>6. CASE WSpawn(w) \/ WPoll(w)
  <2>1. k.pc \in {"spawn", "watch"} /\ k.job \in Ids /\ Heartbeat(k.job)
    BY <1>6, <1>k DEF WSpawn, WPoll
  <2>2. AllRunOn
    BY <1>r, <2>1, RowEffects DEF Heartbeat, RunsOn, TypeOK
  <2>3. GoesOn(k, [k EXCEPT !.pc = "watch", !.child = "alive"])
    BY <1>k, <1>h, <2>1 DEF GoesOn, ChildWatched, Worker
  <2>4. \A pc \in {"watch", "terminate"} : GoesOn(k, [k EXCEPT !.pc = pc])
    BY <1>k, <1>h, <2>1 DEF GoesOn, ChildWatched, Worker
  <2>5. \/ Become(w, [k EXCEPT !.pc = "watch", !.child = "alive"])
        \/ \E pc \in {"watch", "terminate"} : Become(w, [k EXCEPT !.pc = pc])
    BY <1>6 DEF WSpawn, WPoll
  <2>6. QED
    BY <1>b, <2>2, <2>3, <2>4, <2>5
<1>7. CASE WTerminate(w)
  <2>1. PICK c : Become(w, [k EXCEPT !.pc = "watch", !.child = c])
    BY <1>7 DEF WTerminate
  <2>2. k.pc = "terminate" /\ rows' = rows
    BY <1>7 DEF WTerminate
  <2>3. GoesOn(k, [k EXCEPT !.pc = "watch", !.child = c])
    BY <1>k, <1>h, <2>2 DEF GoesOn, ChildWatched, Worker
  <2>4. QED
    BY <1>b, <1>u, <2>1, <2>2, <2>3
<1>8. CASE WRead(w)
  <2> DEFINE v == Verdict(rows[k.job], k.child)
             to == IF v = "requeue" THEN "requeue" ELSE "close"
  <2>1. k.pc = "watch" /\ k.child # "alive" /\ Exists(k.job) /\ rows' = rows
    BY <1>8, <1>h DEF WRead, HoldsRow, Exists
  <2>2. Become(w, [k EXCEPT !.pc = to, !.verdict = v, !.seen = rows[k.job].attempt])
    BY <1>8, <2>1 DEF WRead
  <2>3. to = "requeue" => rows[k.job].force
    BY DEF Verdict
  <2>4. to \in {"requeue", "close"} /\ rows[k.job].attempt = k.run
    BY <1>h, <2>1 DEF HoldsRow
  <2> HIDE DEF v, to
  <2>5. GoesOn(k, [k EXCEPT !.pc = to, !.verdict = v, !.seen = rows[k.job].attempt])
    BY <1>k, <1>h, <2>1, <2>3, <2>4 DEF GoesOn, ChildWatched, Worker
  <2>6. QED
    BY <1>b, <1>u, <2>1, <2>2, <2>5
<1>9. CASE WRequeue(w)
  <2>1. k.pc = "requeue" /\ rows[k.job].force /\ Become(w, IdleWorker)
    BY <1>9, <1>h DEF WRequeue, HoldsRow
  <2>2. rows' = [rows EXCEPT ![k.job] = Requeued(@)]
    BY <1>9, <2>1 DEF WRequeue
  <2>3. OnlyRow(k.job) /\ rows'[k.job].status # "running"
    BY <1>r, <1>k, <2>1, <2>2, RowEffects DEF OnlyRow, TypeOK
  <2>4. QED
    BY <2>1, <2>3, OneLeaves
<1>10. CASE WClose(w)
  <2>1. k.pc = "close" /\ k.verdict \in Terminal /\ Become(w, IdleWorker)
    BY <1>10 DEF WClose, TypeOK, Coherent
  <2>2. rows' = [rows EXCEPT ![k.job] = Closed(@, k.verdict)]
    BY <1>10, <1>h, <2>1 DEF WClose, Finish, HoldsRow
  <2>3. OnlyRow(k.job) /\ rows'[k.job].status # "running"
    BY <1>r, <1>k, <2>1, <2>2, RowEffects DEF OnlyRow, TypeOK
  <2>4. QED
    BY <2>1, <2>3, OneLeaves
<1>11. QED
  BY <1>1, <1>2, <1>3, <1>4, <1>5, <1>6, <1>7, <1>8, <1>9, <1>10 DEF WorkerStep

LEMMA EnvironmentHealthy ==
    ASSUME TypeOK, Healthy, Faults = {}, MaxCrashes = 0, EnvironmentStep
    PROVE  Healthy'
<1>u. ASSUME rows' = rows PROVE \A j \in Ids : RunsOn(rows[j], rows'[j])
  BY <1>u DEF RunsOn
<1>1. \A w \in Workers : ~WError(w)
  BY DEF WError
<1>2. \A w \in Workers : ~WCrash(w)
  BY DEF WCrash, TypeOK
<1>3. ASSUME NEW w \in Workers, ChildExit(w) PROVE Healthy'
  <2>1. PICK st \in {"ok", "err"} : Become(w, [wk[w] EXCEPT !.child = st])
    BY <1>3 DEF ChildExit
  <2>2. rows' = rows
    BY <1>3 DEF ChildExit
  <2>3. \A v \in Workers : wk'[v] = IF v = w THEN [wk[w] EXCEPT !.child = st] ELSE wk[v]
    BY <2>1 DEF Become, TypeOK
  <2>4. wk[w] \in Worker /\ \A v \in Workers : HoldsRow(wk[v]) /\ ChildWatched(wk[v]) /\ wk[v].todo = {}
    BY DEF Healthy, TypeOK
  <2>5. GoesOn(wk[w], [wk[w] EXCEPT !.child = st])
    BY <2>2, <2>4 DEF GoesOn, HoldsRow, ChildWatched, Worker
  <2>6. \A v \in Workers : GoesOn(wk[v], wk[v])
    BY <2>2, <2>4 DEF GoesOn, HoldsRow
  <2>7. \A v \in Workers : GoesOn(wk[v], wk'[v])
    BY <2>3, <2>5, <2>6
  <2>8. QED
    BY <1>u, <2>2, <2>7, AllGoOn
<1>4. ASSUME NEW o \in orphans, OrphanExit(o) PROVE Healthy'
  BY <1>4 DEF OrphanExit, Healthy, HoldsRow, ChildWatched, RunningIsHeld
<1>5. \A i \in Ids : ~HeartbeatExpires(i)
  BY DEF HeartbeatExpires, Attended, Healthy, RunningIsHeld
<1>6. QED
  BY <1>1, <1>2, <1>3, <1>4, <1>5 DEF EnvironmentStep

LEMMA HealthyAlways ==
    ASSUME Faults = {}, MaxCrashes = 0
    PROVE  Spec => []Healthy
<1>1. Init => Healthy
  BY DEF Init, Healthy, HoldsRow, ChildWatched, RunningIsHeld, IdleWorker, AbsentRow
<1>2. Healthy /\ IInv /\ [Next]_vars => Healthy'
  <2>1. Healthy /\ UNCHANGED vars => Healthy'
    BY DEF Healthy, HoldsRow, ChildWatched, RunningIsHeld, vars
  <2>2. QED
    BY <2>1, ClientHealthy, WorkerHealthy, EnvironmentHealthy DEF Next, IInv
<1>3. QED
  BY <1>1, <1>2, Invariant, PTL DEF Spec

(* As long as no worker stalls, fails or is killed, a child runs only while
   its row runs under the attempt it was started for: cancels, forced reruns
   and resubmissions never give a job a second child. *)
THEOREM OneChildPerJob ==
    ASSUME Faults = {}, MaxCrashes = 0
    PROVE  Spec => []ChildOnlyWhileRunning
<1>1. Healthy => ChildOnlyWhileRunning
  BY DEF Healthy, HoldsRow, ChildWatched, ChildOnlyWhileRunning
<1>2. QED
  BY <1>1, HealthyAlways, PTL

(* As long as no worker stalls, fails or is killed, a running row is held by
   the worker that claimed its attempt: no verdict, lost cancel or forced
   rerun leaves a row running that nobody will ever close. *)
THEOREM RunningRowIsHeld ==
    ASSUME Faults = {}, MaxCrashes = 0
    PROVE  Spec => []RunningIsHeld
<1>1. Healthy => RunningIsHeld
  BY DEF Healthy
<1>2. QED
  BY <1>1, HealthyAlways, PTL
=============================================================================
