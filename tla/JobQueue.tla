------------------------------ MODULE JobQueue ------------------------------
(***************************************************************************)
(* The research job queue: the SQLite table of research/jobs.py, shared by *)
(* any number of worker processes (research/job_worker.py), each with one  *)
(* child process, and by the CLI and dashboard clients that submit and     *)
(* cancel jobs.  One step is one SQL statement or one explicit             *)
(* transaction; everything a process read before is in its own record, so  *)
(* it may be stale when the process writes.                                *)
(*                                                                         *)
(* Time is abstracted to one bit per row: `fresh' says that heartbeat_at   *)
(* is younger than STALE_AFTER_SEC.                                        *)
(***************************************************************************)
EXTENDS Naturals, FiniteSets

CONSTANTS
    Workers,        \* worker processes of spawn_workers
    Fingerprints,   \* distinct (kind, params) pairs that clients submit
    NoFp,           \* fingerprint of a row that does not exist
    MaxId,          \* bound: rows ever inserted (AUTOINCREMENT ids 1..MaxId)
    MaxAttempts,    \* MAX_ATTEMPTS of jobs.py
    ResubmitCap,    \* bound: clients resubmit a row only below this attempt
    MaxCrashes,     \* bound: worker processes killed
    Faults,         \* subset of {"stall", "error"}: what may go wrong
    ClientOps       \* subset of {"cancel", "force"}: what clients do

ASSUME BoundsAssumption ==
    MaxId \in Nat /\ MaxAttempts \in Nat /\ ResubmitCap \in Nat /\ MaxCrashes \in Nat
ASSUME NoFpAssumption == NoFp \notin Fingerprints

VARIABLES
    rows,       \* rows[i]: the row of the jobs table with id i
    nextId,     \* AUTOINCREMENT counter
    art,        \* art[i]: what the directory jobs/<i>/ holds
    wk,         \* wk[w]: local state of worker process w
    orphans,    \* children <<job, run>> whose worker is gone and that still run
    cancels,    \* request_cancel calls <<id, status read>> between read and write
    crashes     \* number of workers killed so far

vars == <<rows, nextId, art, wk, orphans, cancels, crashes>>

Ids == 1..MaxId
Terminal == {"succeeded", "failed", "cancelled"}
Statuses == Terminal \cup {"absent", "queued", "running"}

AbsentRow == [status |-> "absent", fp |-> NoFp, attempt |-> 0,
              fresh |-> FALSE, cancel |-> FALSE, force |-> FALSE]

(***************************************************************************)
(* A worker: idle -> reap (claim's reap_stale) -> claimed (claim's final   *)
(* get) -> spawn -> watch -> [terminate -> watch] -> requeue or close ->   *)
(* idle.  `run' is a history field: the attempt number under which it      *)
(* claimed the job.  `att' is job.attempt as claim's get returned it.      *)
(***************************************************************************)
IdleWorker == [pc |-> "idle", job |-> 0, run |-> 0, att |-> 0, todo |-> {},
               child |-> "none", verdict |-> "none", seen |-> 0]

Holding == {"claimed", "spawn", "watch", "terminate", "requeue", "close"}
Running == {"spawn", "watch", "terminate", "requeue", "close"}

Init ==
    /\ rows = [i \in Ids |-> AbsentRow]
    /\ nextId = 1
    /\ art = [i \in Ids |-> "none"]
    /\ wk = [w \in Workers |-> IdleWorker]
    /\ orphans = {}
    /\ cancels = {}
    /\ crashes = 0

-----------------------------------------------------------------------------
(* What the UPDATE statements make of a row *)

Exists(i) == rows[i].status # "absent"

\* Faulty variants: a requeue that keeps the attempt; one that keeps the status.
RequeuedSameAttempt(r) == [r EXCEPT !.status = "queued", !.cancel = FALSE, !.force = FALSE]
RequeuedStillRunning(r) == [r EXCEPT !.cancel = FALSE, !.force = FALSE, !.attempt = @ + 1]

\* _requeue_unlocked: UPDATE without a status guard.  heartbeat_at = ''.
Requeued(r) == [status |-> "queued", fp |-> r.fp, attempt |-> r.attempt + 1,
                fresh |-> FALSE, cancel |-> FALSE, force |-> FALSE]

\* Faulty variant: the flags survive the end of the run.
ClosedKeepsFlags(r, status) == [r EXCEPT !.status = status]

\* finish, WHERE status='running' has been checked by the caller.
Closed(r, status) == [r EXCEPT !.status = status, !.cancel = FALSE, !.force = FALSE]

\* Faulty variant: the reaper requeues under the same attempt.
ReapedSameAttempt(r, read) ==
    IF read >= MaxAttempts THEN Closed(r, "failed") ELSE [r EXCEPT !.status = "queued"]

\* One UPDATE of reap_stale; `read' is the attempt that its SELECT returned.
\* It does not look at heartbeat_at again, and leaves it as it is.
Reaped(r, read) ==
    IF read >= MaxAttempts
    THEN Closed(r, "failed")
    ELSE [Requeued(r) EXCEPT !.fresh = r.fresh]

\* _force_unlocked of a running row; request_cancel of a queued and of a running
\* one; claim; a heartbeat, and its absence for STALE_AFTER_SEC.
MarkedForce(r) == [r EXCEPT !.cancel = TRUE, !.force = TRUE]
CancelledQueued(r) == [r EXCEPT !.status = "cancelled", !.cancel = TRUE]
MarkedCancel(r) == [r EXCEPT !.cancel = TRUE]
Claimed(r) == [r EXCEPT !.status = "running", !.fresh = TRUE,
                        !.cancel = FALSE, !.force = FALSE]
Heard(r) == [r EXCEPT !.fresh = TRUE]
Silent(r) == [r EXCEPT !.fresh = FALSE]
Inserted(f) == [AbsentRow EXCEPT !.status = "queued", !.fp = f]

\* finish(id, status, attempt=a): closes the row only if still running under a.
Finish(i, status, a) ==
    rows' = IF rows[i].status = "running" /\ rows[i].attempt = a
            THEN [rows EXCEPT ![i] = Closed(@, status)]
            ELSE rows

-----------------------------------------------------------------------------
(* Clients: CLI and dashboard *)

\* submit of a fingerprint that has no row: INSERT, attempt 0.
SubmitNew(f) ==
    /\ \A i \in Ids : rows[i].fp # f
    /\ nextId \in Ids
    /\ rows' = [rows EXCEPT ![nextId] = Inserted(f)]
    /\ nextId' = nextId + 1
    /\ UNCHANGED <<art, wk, orphans, cancels, crashes>>

\* submit without force of a fingerprint whose row failed or was cancelled.
\* A queued, running or succeeded row is returned unchanged.
Resubmit(i) ==
    /\ rows[i].status \in {"failed", "cancelled"}
    /\ rows[i].attempt < ResubmitCap
    /\ rows' = [rows EXCEPT ![i] = Requeued(@)]
    /\ UNCHANGED <<nextId, art, wk, orphans, cancels, crashes>>

\* submit with force of a fingerprint that has a row (_force_unlocked).
ForceSubmit(i) ==
    /\ "force" \in ClientOps
    /\ Exists(i)
    /\ rows[i].attempt < ResubmitCap
    /\ art' = [art EXCEPT ![i] = "none"]
    /\ rows' = [rows EXCEPT ![i] =
                    IF @.status = "running" THEN MarkedForce(@) ELSE Requeued(@)]
    /\ UNCHANGED <<nextId, wk, orphans, cancels, crashes>>

\* request_cancel reads the row ...
CancelRead(i) ==
    /\ "cancel" \in ClientOps
    /\ rows[i].status \in {"queued", "running"}
    /\ cancels' = cancels \cup {<<i, rows[i].status>>}
    /\ UNCHANGED <<rows, nextId, art, wk, orphans, crashes>>

\* ... and updates it in a second statement.  Only the update of a row read
\* as queued is conditional on the status.
CancelWrite(c) ==
    /\ c \in cancels
    /\ cancels' = cancels \ {c}
    /\ rows' = [rows EXCEPT ![c[1]] =
                    CASE c[2] = "queued" /\ @.status = "queued" -> CancelledQueued(@)
                      [] c[2] = "running" /\ @.status # "absent" -> MarkedCancel(@)
                      [] OTHER -> @]
    /\ UNCHANGED <<nextId, art, wk, orphans, crashes>>

-----------------------------------------------------------------------------
(* Workers *)

\* The whole of worker w's local state changes to k.
Become(w, k) == wk' = [wk EXCEPT ![w] = k]

\* Faulty variants: no cutoff; the comparison with the cutoff inverted.
AllRunning == {i \in Ids : rows[i].status = "running"}
FreshOnes == {i \in Ids : rows[i].status = "running" /\ rows[i].fresh}

Stale == {i \in Ids : rows[i].status = "running" /\ ~rows[i].fresh}
Queue == {i \in Ids : rows[i].status = "queued"}

\* claim starts with reap_stale, whose SELECT returns the stale running rows.
WSelectStale(w) ==
    /\ wk[w].pc = "idle"
    /\ Become(w, [wk[w] EXCEPT !.pc = "reap",
                               !.todo = {<<i, rows[i].attempt>> : i \in Stale}])
    /\ UNCHANGED <<rows, nextId, art, orphans, cancels, crashes>>

\* One UPDATE ... WHERE id=? AND status='running' of reap_stale.
WReap(w) ==
    /\ wk[w].pc = "reap"
    /\ \E e \in wk[w].todo :
        /\ \A d \in wk[w].todo : e[1] <= d[1]
        /\ Become(w, [wk[w] EXCEPT !.todo = @ \ {e}])
        /\ rows' = IF rows[e[1]].status = "running"
                   THEN [rows EXCEPT ![e[1]] = Reaped(@, e[2])]
                   ELSE rows
    /\ UNCHANGED <<nextId, art, orphans, cancels, crashes>>

\* claim's transaction: the oldest queued row.  It orders by created_at, which
\* a submit takes before its transaction; two submits in the same instant may
\* invert it.  Here ids follow created_at.
WClaim(w) ==
    /\ wk[w].pc = "reap" /\ wk[w].todo = {}
    /\ \E i \in Queue :
        /\ \A j \in Queue : i <= j
        /\ rows' = [rows EXCEPT ![i] = Claimed(@)]
        /\ Become(w, [IdleWorker EXCEPT !.pc = "claimed", !.job = i,
                                        !.run = rows[i].attempt])
    /\ UNCHANGED <<nextId, art, orphans, cancels, crashes>>

WNothingQueued(w) ==
    /\ wk[w].pc = "reap" /\ wk[w].todo = {}
    /\ Queue = {}
    /\ Become(w, IdleWorker)
    /\ UNCHANGED <<rows, nextId, art, orphans, cancels, crashes>>

\* claim returns get(job_id), read after its COMMIT.
WFetch(w) ==
    /\ wk[w].pc = "claimed"
    /\ Become(w, IF Exists(wk[w].job)
                 THEN [wk[w] EXCEPT !.pc = "spawn", !.att = rows[wk[w].job].attempt]
                 ELSE IdleWorker)
    /\ UNCHANGED <<rows, nextId, art, orphans, cancels, crashes>>

\* heartbeat(id): UPDATE WHERE status='running', whoever runs it.
Heartbeat(i) ==
    rows' = IF rows[i].status = "running"
            THEN [rows EXCEPT ![i] = Heard(@)]
            ELSE rows

\* mkdir, proc.start(), first heartbeat with the child's pid.
WSpawn(w) ==
    /\ wk[w].pc = "spawn"
    /\ Become(w, [wk[w] EXCEPT !.pc = "watch", !.child = "alive"])
    /\ art' = [art EXCEPT ![wk[w].job] = IF @ = "none" THEN "partial" ELSE @]
    /\ Heartbeat(wk[w].job)
    /\ UNCHANGED <<nextId, orphans, cancels, crashes>>

\* One turn of the wait loop while the child lives.
WPoll(w) ==
    /\ wk[w].pc = "watch" /\ wk[w].child = "alive"
    /\ Heartbeat(wk[w].job)
    /\ Become(w, [wk[w] EXCEPT !.pc = IF rows[wk[w].job].cancel THEN "terminate" ELSE "watch"])
    /\ UNCHANGED <<nextId, art, orphans, cancels, crashes>>

\* _terminate: SIGTERM, SIGKILL after 5 s.  The child may have exited before.
WTerminate(w) ==
    /\ wk[w].pc = "terminate"
    /\ \E sig \in {"term", "kill"} :
        Become(w, [wk[w] EXCEPT !.pc = "watch",
                                !.child = IF @ = "alive" THEN sig ELSE @])
    /\ UNCHANGED <<rows, nextId, art, orphans, cancels, crashes>>

\* Faulty variants: an exit by SIGKILL is not handled; the exit code is ignored.
VerdictNoKill(r, child) ==
    IF r.force THEN "requeue"
    ELSE CASE child = "ok" -> "succeeded"
           [] child = "err" -> "failed"
           [] child = "term" -> "cancelled"
           [] OTHER -> "none"
VerdictIgnoresExit(r, child) ==
    IF r.force THEN "requeue" ELSE IF r.cancel THEN "cancelled" ELSE "succeeded"

\* After the child's end the worker reads the row and decides on what it read.
Verdict(r, child) ==
    CASE r.force -> "requeue"
      [] ~r.force /\ (r.cancel \/ child = "term") -> "cancelled"
      [] ~r.force /\ ~r.cancel /\ child = "ok" -> "succeeded"
      [] OTHER -> "failed"

WRead(w) ==
    /\ wk[w].pc = "watch" /\ wk[w].child # "alive"
    /\ LET r == rows[wk[w].job]
           v == Verdict(r, wk[w].child)
       IN  Become(w, IF Exists(wk[w].job)
                     THEN [wk[w] EXCEPT !.pc = IF v = "requeue" THEN "requeue" ELSE "close",
                                        !.verdict = v, !.seen = r.attempt]
                     ELSE IdleWorker)
    /\ UNCHANGED <<rows, nextId, art, orphans, cancels, crashes>>

\* requeue_after_cancel: a transaction that reads force_requeue again, but not
\* the status.
WRequeue(w) ==
    /\ wk[w].pc = "requeue"
    /\ rows' = [rows EXCEPT ![wk[w].job] = IF @.force THEN Requeued(@) ELSE @]
    /\ Become(w, IdleWorker)
    /\ UNCHANGED <<nextId, art, orphans, cancels, crashes>>

\* finish(current.id, ..., attempt=current.attempt)
WClose(w) ==
    /\ wk[w].pc = "close"
    /\ Finish(wk[w].job, wk[w].verdict, wk[w].seen)
    /\ Become(w, IdleWorker)
    /\ UNCHANGED <<nextId, art, orphans, cancels, crashes>>

\* A child that runs on without its worker.
Orphaned(w) == IF wk[w].child = "alive" THEN {<<wk[w].job, wk[w].run>>} ELSE {}

\* An exception in run_claimed_job (proc.start fails, "database is locked"):
\* worker_loop closes the job as failed and forgets the child.
WError(w) ==
    /\ "error" \in Faults
    /\ wk[w].pc \in Running
    /\ Finish(wk[w].job, "failed", wk[w].att)
    /\ orphans' = orphans \cup Orphaned(w)
    /\ Become(w, IdleWorker)
    /\ UNCHANGED <<nextId, art, cancels, crashes>>

\* The worker process is killed and started again; its child survives it.
WCrash(w) ==
    /\ crashes < MaxCrashes
    /\ wk[w].pc # "idle"
    /\ crashes' = crashes + 1
    /\ orphans' = orphans \cup Orphaned(w)
    /\ Become(w, IdleWorker)
    /\ UNCHANGED <<rows, nextId, art, cancels>>

-----------------------------------------------------------------------------
(* Children and time *)

\* Results are written into jobs/<id>/, whoever else writes there.
ChildExit(w) ==
    /\ wk[w].child = "alive"
    /\ \E st \in {"ok", "err"} :
        /\ Become(w, [wk[w] EXCEPT !.child = st])
        /\ art' = [art EXCEPT ![wk[w].job] = IF st = "ok" THEN "result" ELSE @]
    /\ UNCHANGED <<rows, nextId, orphans, cancels, crashes>>

OrphanExit(o) ==
    /\ o \in orphans
    /\ orphans' = orphans \ {o}
    /\ \E st \in {"ok", "err"} :
        art' = [art EXCEPT ![o[1]] = IF st = "ok" THEN "result" ELSE @]
    /\ UNCHANGED <<rows, nextId, wk, cancels, crashes>>

Attended(i) == \E w \in Workers : wk[w].job = i /\ wk[w].pc \in Holding

\* STALE_AFTER_SEC pass since the last heartbeat of a running row.  With a
\* worker on the job that takes a stall: a suspended host, a blocked disk.
HeartbeatExpires(i) ==
    /\ rows[i].status = "running" /\ rows[i].fresh
    /\ Attended(i) => "stall" \in Faults
    /\ rows' = [rows EXCEPT ![i] = Silent(@)]
    /\ UNCHANGED <<nextId, art, wk, orphans, cancels, crashes>>

-----------------------------------------------------------------------------
WorkerStep(w) ==
    \/ WSelectStale(w) \/ WReap(w) \/ WClaim(w) \/ WNothingQueued(w)
    \/ WFetch(w) \/ WSpawn(w) \/ WPoll(w) \/ WTerminate(w)
    \/ WRead(w) \/ WRequeue(w) \/ WClose(w)

ClientStep ==
    \/ \E f \in Fingerprints : SubmitNew(f)
    \/ \E i \in Ids : Resubmit(i) \/ ForceSubmit(i) \/ CancelRead(i)
    \/ \E c \in cancels : CancelWrite(c)

EnvironmentStep ==
    \/ \E w \in Workers : WError(w) \/ WCrash(w) \/ ChildExit(w)
    \/ \E o \in orphans : OrphanExit(o)
    \/ \E i \in Ids : HeartbeatExpires(i)

Next == (\E w \in Workers : WorkerStep(w)) \/ ClientStep \/ EnvironmentStep

Spec == Init /\ [][Next]_vars

\* Worker processes are scheduled, handlers return, and time passes.
Fairness ==
    /\ \A w \in Workers : WF_vars(WorkerStep(w)) /\ WF_vars(ChildExit(w))
    /\ \A i \in Ids : WF_vars(HeartbeatExpires(i) /\ ~Attended(i))

FairSpec == Spec /\ Fairness

-----------------------------------------------------------------------------
Row == [status : Statuses, fp : Fingerprints \cup {NoFp}, attempt : Nat,
        fresh : BOOLEAN, cancel : BOOLEAN, force : BOOLEAN]

Worker == [pc : {"idle", "reap"} \cup Holding, job : {0} \cup Ids, run : Nat,
           att : Nat, todo : SUBSET (Ids \X Nat),
           child : {"none", "alive", "ok", "err", "term", "kill"},
           verdict : Terminal \cup {"none", "requeue"}, seen : Nat]

\* A worker that holds a job or watches a child names the job, and one that
\* closes a row has decided on a final status for it.
Coherent(k) ==
    /\ k.pc \in Holding \/ k.child = "alive" => k.job \in Ids
    /\ k.pc = "close" => k.verdict \in Terminal

(* The type of every variable, and the coherence of each worker's record. *)
TypeOK ==
    /\ rows \in [Ids -> Row]
    /\ nextId \in 1..(MaxId + 1)
    /\ art \in [Ids -> {"none", "partial", "result"}]
    /\ wk \in [Workers -> Worker]
    /\ \A w \in Workers : Coherent(wk[w])
    /\ orphans \subseteq Ids \X Nat
    /\ cancels \subseteq Ids \X {"queued", "running"}
    /\ crashes \in 0..MaxCrashes

-----------------------------------------------------------------------------
(* An attempt number names at most one run: two workers that hold the same
   job claimed it under different attempts, and a queued row has an attempt
   number that no worker holds.  The reaper's blind update, a stale worker
   that closes a row, a forced requeue without a status check and an error
   path must all keep it. *)
OneHolderPerAttempt ==
    \A w \in Workers : wk[w].pc \in Holding =>
        /\ \A v \in Workers \ {w} :
             wk[v].pc \in Holding /\ wk[v].job = wk[w].job => wk[v].run # wk[w].run
        /\ wk[w].run <= rows[wk[w].job].attempt \/ ~Exists(wk[w].job)
        /\ rows[wk[w].job].status = "queued" => wk[w].run < rows[wk[w].job].attempt

(* force_requeue is set on running rows only.  requeue_after_cancel relies on
   it: it requeues whatever row carries the flag, without a look at status, so
   a flag left on a queued or finished row would resurrect the job. *)
ForceOnlyWhileRunning ==
    \A i \in Ids : rows[i].force => rows[i].status = "running"

(* A job that reads "succeeded" has results in its directory: a non-forced
   submit returns such a row for ever and never runs the job again. *)
SucceededHasResult ==
    \A i \in Ids : rows[i].status = "succeeded" => art[i] = "result"

(* Without stalls, errors and kills a child process runs only while its row
   is running under the attempt it was started for, so that two children never
   share a directory, also through cancels and forced reruns. *)
ChildOnlyWhileRunning ==
    \A w \in Workers : wk[w].child = "alive" =>
        /\ rows[wk[w].job].status = "running"
        /\ rows[wk[w].job].attempt = wk[w].run

(* Without stalls, errors and kills a running row is never abandoned: the
   worker that claimed this attempt still holds it. *)
RunningIsHeld ==
    \A i \in Ids : rows[i].status = "running" =>
        \E w \in Workers : /\ wk[w].pc \in Holding
                          /\ wk[w].job = i
                          /\ wk[w].run = rows[i].attempt

(* The table implements the life cycle promised for each row. *)
Lifecycle == INSTANCE JobLifecycle WITH
    Jobs <- Ids,
    life <- [i \in Ids |-> [status |-> rows[i].status, attempt |-> rows[i].attempt]]
ImplementsLifecycle == Lifecycle!LifeSpec

(* Every submitted job is settled in the end: neither a killed worker, nor a
   reaper working on old data, nor a poison job leaves it queued or running
   for ever.  MAX_ATTEMPTS bounds the reruns. *)
EventuallySettled ==
    \A i \in Ids : rows[i].status \in {"queued", "running"} ~> rows[i].status \in Terminal
=============================================================================
