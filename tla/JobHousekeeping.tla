-------------------------- MODULE JobHousekeeping ---------------------------
(***************************************************************************)
(* JobQueue composed with one housekeeper: prune_jobs and delete_jobs, run *)
(* from the CLI or the dashboard while workers and clients go on.  Both    *)
(* select ids, remove the directories, and delete the rows by id in a      *)
(* later transaction.                                                      *)
(***************************************************************************)
EXTENDS JobQueue

VARIABLE hk     \* local state of the housekeeping call

hkVars == <<vars, hk>>

(* pc: files -> rows -> [list -> sweep] -> idle.  `ids' are the selected ids,
   in "sweep" the ids of the existing rows; `left' the directories to remove. *)
IdleHousekeeper == [pc |-> "idle", op |-> "none", ids |-> {}, left |-> {}]

HInit == Init /\ hk = IdleHousekeeper

Selected(op, S) == [pc |-> "files", op |-> op, ids |-> S, left |-> S]

\* prune_jobs: terminal rows older than the cutoff; age is not modelled, so any
\* set of terminal rows may be the old ones.
PruneSelect ==
    /\ hk.pc = "idle"
    /\ \E S \in SUBSET {i \in Ids : rows[i].status \in Terminal} :
        hk' = Selected("prune", S)
    /\ UNCHANGED vars

\* Faulty variant: delete_jobs without AND status != 'running'.
DeleteSelectAny ==
    /\ hk.pc = "idle"
    /\ \E S \in SUBSET {i \in Ids : Exists(i)} : S # {} /\ hk' = Selected("delete", S)
    /\ UNCHANGED vars

\* delete_jobs: the given rows that are not running; nothing happens for none.
DeleteSelect ==
    /\ hk.pc = "idle"
    /\ \E S \in SUBSET {i \in Ids : Exists(i) /\ rows[i].status # "running"} :
        S # {} /\ hk' = Selected("delete", S)
    /\ UNCHANGED vars

RemoveDir(i) == art' = [art EXCEPT ![i] = "none"]

\* rmtree / _clear_artifacts of one selected directory.
RemoveSelected ==
    /\ hk.pc = "files"
    /\ \E i \in hk.left :
        /\ \A j \in hk.left : i <= j
        /\ RemoveDir(i)
        /\ hk' = [hk EXCEPT !.left = @ \ {i}]
    /\ UNCHANGED <<rows, nextId, wk, orphans, cancels, crashes>>

\* prune --keep-records leaves the rows.
KeepRows ==
    /\ hk.pc = "files" /\ hk.left = {} /\ hk.op = "prune"
    /\ hk' = [hk EXCEPT !.pc = "list"]
    /\ UNCHANGED vars

\* DELETE FROM jobs WHERE id=? for every selected id, whatever its status now.
DeleteRows ==
    /\ hk.pc = "files" /\ hk.left = {}
    /\ rows' = [i \in Ids |-> IF i \in hk.ids THEN AbsentRow ELSE rows[i]]
    /\ hk' = IF hk.op = "prune" THEN [hk EXCEPT !.pc = "list"] ELSE IdleHousekeeper
    /\ UNCHANGED <<nextId, art, wk, orphans, cancels, crashes>>

\* prune_jobs reads the ids of all rows ...
ListRows ==
    /\ hk.pc = "list"
    /\ hk' = [hk EXCEPT !.pc = "sweep", !.ids = {i \in Ids : Exists(i)}]
    /\ UNCHANGED vars

\* ... and removes every directory whose number is not among them.
SweepOrphan ==
    /\ hk.pc = "sweep"
    /\ \E i \in Ids \ hk.ids : art[i] # "none" /\ RemoveDir(i)
    /\ UNCHANGED <<rows, nextId, wk, orphans, cancels, crashes, hk>>

\* rmtree ignores errors, so directories may be left over.
SweepEnds ==
    /\ hk.pc = "sweep"
    /\ hk' = IdleHousekeeper
    /\ UNCHANGED vars

HousekeeperStep ==
    \/ PruneSelect \/ DeleteSelect \/ RemoveSelected \/ KeepRows \/ DeleteRows
    \/ ListRows \/ SweepOrphan \/ SweepEnds

HNext == (Next /\ UNCHANGED hk) \/ HousekeeperStep

HSpec == HInit /\ [][HNext]_hkVars

-----------------------------------------------------------------------------
(* A deleted job never comes back: workers, the reaper and cancels that still
   know its id write to a row that is gone, and a new submission of the same
   fingerprint gets a new id.  ImplementsLifespan has it for the status and
   the attempt of the row, and is what the runs check. *)
DeletedStaysDeleted ==
    [][\A i \in Ids : (i < nextId /\ ~Exists(i)) => rows'[i] = AbsentRow]_hkVars

(* With a housekeeper at work, every row still runs through its life cycle,
   attempt by attempt, until it is deleted for good; and no housekeeper goes
   for a row that was running when it chose (prune_jobs, delete_jobs). *)
Lifespan == INSTANCE JobLifespan WITH
    Jobs <- Ids,
    life <- [i \in Ids |-> IF i < nextId /\ ~Exists(i) THEN [status |-> "gone", attempt |-> 0]
                           ELSE [status |-> rows[i].status, attempt |-> rows[i].attempt]],
    doomed <- IF hk.pc = "files" THEN hk.ids ELSE {}
ImplementsLifespan == Lifespan!SpanSpec

(* What the docstrings of prune_jobs and delete_jobs promise (jobs.py:465,
   jobs.py:546): a row is never deleted while it runs.  The DELETE goes by id
   in a later transaction than the check of the status: expected to fail. *)
RunningIsSpared ==
    [][\A i \in Ids : Exists(i) /\ rows'[i].status = "absent" => rows[i].status # "running"]_hkVars
=============================================================================
