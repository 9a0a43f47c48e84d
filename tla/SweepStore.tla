----------------------------- MODULE SweepStore ------------------------------
(***************************************************************************)
(* A matrix sweep and its store (validation/sweep.py,                      *)
(* research/sweep_store.py): processes run cells of the matrix, append     *)
(* each to the trial ledger and upsert its row; a sweep that resumes       *)
(* passes over the cells that the store has as done for the code on disk.  *)
(* A process runs the code it loaded when it started; the hash of a row is *)
(* taken from the file on disk when the cell has ended, and of the source  *)
(* of the strategy's class alone.  The ledger is taken to be configured.   *)
(***************************************************************************)
EXTENDS Integers, FiniteSets

CONSTANTS
    Sweepers,       \* processes
    Cells,          \* cells: strategy, symbol, interval, days and mode
    MaxEdits,       \* bound: edits of the strategy's code: of its class, or of what
                    \* the class uses (its module, its base class, its imports)
    ClassOf,        \* ClassOf[v]: the class's source in version v; versions that
                    \* differ elsewhere only have the same one
    MaxSnags        \* bound: cells that fail, ledgers that cannot be written, hashes
                    \* that cannot be taken, processes that die

VARIABLES
    disk,       \* version of the code on disk, from 1 on
    results,    \* results[c]: the row of cell c in sweep.db
    sweeper,    \* sweeper[p]: the code it loaded (0: not running) and its cells
    trials,     \* trials[c]: versions of the code whose run of c is in the ledger
    passed,     \* history: the cells that the last resume passed over
    unlogged,   \* history: runs <<c, version>> whose ledger line failed
    snags       \* snags so far

sweepVars == <<disk, results, sweeper, trials, passed, unlogged, snags>>

Versions == 1..(MaxEdits + 1)
NoRow == [status |-> "none", hash |-> 0, ran |-> 0, late |-> FALSE]
Off == [code |-> 0, at |-> [c \in Cells |-> "no"], hash |-> [c \in Cells |-> 0],
        late |-> [c \in Cells |-> FALSE]]

Init ==
    /\ disk = 1
    /\ results = [c \in Cells |-> NoRow]
    /\ sweeper = [p \in Sweepers |-> Off]
    /\ trials = [c \in Cells |-> {}]
    /\ passed = {} /\ unlogged = {}
    /\ snags = 0

\* strategy_code_hash: the source of the class on disk, or "" (0) when it
\* cannot be read.
HashAs(h) == /\ h \in {0, ClassOf[disk]}
             /\ h = 0 => snags < MaxSnags
             /\ snags' = IF h = 0 THEN snags + 1 ELSE snags

-----------------------------------------------------------------------------
\* Mutant: the version of the code is not looked at.
AlreadyDoneAnyCode(row, h) == row.status = "ok"

\* already_done: an unknown hash on either side matches.
AlreadyDone(row, h) ==
    row.status = "ok" /\ ~(h # 0 /\ row.hash # 0 /\ row.hash # h)

Idle(p) == \A c \in Cells : sweeper[p].at[c] = "no"

\* A process starts: it loads the code.
Open(p) ==
    /\ sweeper[p].code = 0
    /\ sweeper' = [sweeper EXCEPT ![p].code = disk]
    /\ UNCHANGED <<disk, results, trials, passed, unlogged, snags>>

\* run_sweep with resume: the cells that are not done for the code on disk.
Resume(p) ==
    \E h \in {0, ClassOf[disk]} :
        LET skip == {c \in Cells : AlreadyDone(results[c], h)} IN
        /\ sweeper[p].code # 0 /\ Idle(p)
        /\ HashAs(h)
        /\ sweeper' = [sweeper EXCEPT ![p].at = [c \in Cells |-> IF c \in skip THEN "no" ELSE "todo"]]
        /\ passed' = {[cell |-> c, row |-> results[c], disk |-> disk, hash |-> h] : c \in skip}
        /\ UNCHANGED <<disk, results, trials, unlogged>>

\* run_sweep without resume: all of them.
SweepAll(p) ==
    /\ sweeper[p].code # 0 /\ Idle(p)
    /\ sweeper' = [sweeper EXCEPT ![p].at = [c \in Cells |-> "todo"]]
    /\ passed' = {}
    /\ UNCHANGED <<disk, results, trials, unlogged, snags>>

\* execute_sweep_cell: the cell runs; an exception becomes a row of status "error".
RunCell(p, c) ==
    /\ sweeper[p].at[c] = "todo"
    /\ \/ sweeper' = [sweeper EXCEPT ![p].at[c] = "ok"] /\ UNCHANGED snags
       \/ /\ snags < MaxSnags /\ snags' = snags + 1
          /\ sweeper' = [sweeper EXCEPT ![p].at[c] = "error"]
    /\ UNCHANGED <<disk, results, trials, passed, unlogged>>

\* ... then its hash is taken ...
HashCell(p, c) ==
    /\ sweeper[p].at[c] \in {"ok", "error"}
    /\ \E h \in {0, ClassOf[disk]} :
          /\ HashAs(h)
          /\ sweeper' = [sweeper EXCEPT ![p].hash[c] = h,
                                        ![p].late[c] = h # ClassOf[sweeper[p].code],
                                        ![p].at[c] = IF sweeper[p].at[c] = "ok" THEN "hashed" ELSE "failed"]
    /\ UNCHANGED <<disk, results, trials, passed, unlogged>>

\* Mutant: a cell is counted the first time only.
CountedOnce(done, v) == IF done = {} THEN {v} ELSE done

\* record_trial appends a line.
Counted(done, v) == done \union {v}

\* ... a cell that did not fail is appended to the ledger, if that can be written ...
LogTrial(p, c) ==
    /\ sweeper[p].at[c] = "hashed"
    /\ \/ /\ trials' = [trials EXCEPT ![c] = Counted(@, sweeper[p].code)]
          /\ UNCHANGED <<unlogged, snags>>
       \/ /\ snags < MaxSnags /\ snags' = snags + 1
          /\ unlogged' = unlogged \union {<<c, sweeper[p].code>>}
          /\ UNCHANGED trials
    /\ sweeper' = [sweeper EXCEPT ![p].at[c] = "logged"]
    /\ UNCHANGED <<disk, results, passed>>

\* The status of a row: flag_degenerate_row marks metrics that no real trading
\* gives, and the overlay may disable a cell.
Flagged(at) == IF at = "logged" THEN {"ok", "degenerate", "disabled"} ELSE {"error"}

\* ... and its row replaces the one in the store, whatever that was.
Upsert(p, c) ==
    /\ sweeper[p].at[c] \in {"logged", "failed"}
    /\ \E status \in Flagged(sweeper[p].at[c]) :
          results' = [results EXCEPT ![c] =
                        [status |-> status, hash |-> sweeper[p].hash[c],
                         ran |-> sweeper[p].code, late |-> sweeper[p].late[c]]]
    /\ sweeper' = [sweeper EXCEPT ![p].at[c] = "no", ![p].hash[c] = 0, ![p].late[c] = FALSE]
    /\ UNCHANGED <<disk, trials, passed, unlogged, snags>>

\* A process ends when it has nothing to do.
Close(p) ==
    /\ sweeper[p].code # 0 /\ Idle(p)
    /\ sweeper' = [sweeper EXCEPT ![p] = Off]
    /\ UNCHANGED <<disk, results, trials, passed, unlogged, snags>>

Die(p) ==
    /\ ~Idle(p) /\ snags < MaxSnags
    /\ snags' = snags + 1
    /\ sweeper' = [sweeper EXCEPT ![p] = Off]
    /\ UNCHANGED <<disk, results, trials, passed, unlogged>>

\* Somebody edits the strategy.
Edit ==
    /\ disk <= MaxEdits
    /\ disk' = disk + 1
    /\ UNCHANGED <<results, sweeper, trials, passed, unlogged, snags>>

Next ==
    \/ \E p \in Sweepers : Open(p) \/ Resume(p) \/ SweepAll(p) \/ Close(p) \/ Die(p)
    \/ \E p \in Sweepers, c \in Cells : RunCell(p, c) \/ HashCell(p, c) \/ LogTrial(p, c) \/ Upsert(p, c)
    \/ Edit

Spec == Init /\ [][Next]_sweepVars

-----------------------------------------------------------------------------
TypeOK ==
    /\ disk \in 1..(MaxEdits + 1) /\ snags \in 0..MaxSnags
    /\ \A c \in Cells : results[c].status \in {"none", "ok", "degenerate", "disabled", "error"}
                       /\ trials[c] \subseteq Versions
    /\ \A p \in Sweepers, c \in Cells :
          sweeper[p].at[c] \in {"no", "todo", "ok", "error", "hashed", "failed", "logged"}

\* What a resume passes over was computed with the class that is on disk,
\* unless the class was edited between the start of the process that computed
\* it and the end of the cell, or a hash could not be taken.  Of edits outside
\* the class nothing is promised: strategy_code_hash does not see them.
PassedIsCurrent ==
    \A s \in passed : ClassOf[s.row.ran] = ClassOf[s.disk] \/ s.row.late \/ s.hash = 0

\* A row of status ok was counted in the trial ledger, for the code that
\* computed it, before it was stored, so that no crash leaves a result that
\* the deflated Sharpe ratio does not know of; a line that could not be
\* written is the one exception (sweep.py logs it and goes on).
StoredIsCounted ==
    \A c \in Cells :
        results[c].status = "ok" => results[c].ran \in trials[c] \/ <<c, results[c].ran>> \in unlogged

\* What a resume passes over was computed with the class that is on disk
\* (sweep_store.py:274, already_done: it "protects from the trap that a
\* long-lived worker holds old code").
PassedRanOnDisk ==
    \A s \in passed : s.hash # 0 /\ s.row.hash # 0 => ClassOf[s.row.ran] = ClassOf[s.disk]
=============================================================================
