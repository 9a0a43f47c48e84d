----------------------------- MODULE JobLifespan -----------------------------
(***************************************************************************)
(* What the queue promises about a row when jobs are pruned and deleted as *)
(* well: the life cycle of JobLifecycle, cut short for rows that were      *)
(* doomed while they were not running.  A row that is gone takes no step   *)
(* any more, and its number is not given to another one.  The rows go in a *)
(* later transaction than the one that dooms them: one that was claimed    *)
(* in between goes while it runs.                                          *)
(***************************************************************************)
EXTENDS JobLifecycle

VARIABLE doomed     \* the rows selected for the deletion under way

Gone == [status |-> "gone", attempt |-> 0]

\* Rows are selected for deletion: none that runs, and none that is not there.
Doom(S) ==
    /\ doomed = {}
    /\ \A i \in S : life[i].status \notin {"absent", "gone", "running"}
    /\ doomed' = S
    /\ UNCHANGED life

\* The selected rows go, all at once ...
Delete ==
    /\ life' = [i \in Jobs |-> IF i \in doomed THEN Gone ELSE life[i]]
    /\ doomed' = {}

\* ... or are spared (the records are kept).
Spare == doomed' = {} /\ UNCHANGED life

\* A step of the life cycle, by a row that is not gone.
Live(i) ==
    /\ life[i].status # "gone"
    /\ Insert(i) \/ Claim(i) \/ Close(i) \/ Requeue(i)
    /\ UNCHANGED doomed

SpanNext ==
    \/ \E i \in Jobs : Live(i)
    \/ \E S \in SUBSET Jobs : Doom(S)
    \/ Delete
    \/ Spare

SpanSpec == LifeInit /\ doomed = {} /\ [][SpanNext]_<<life, doomed>>
=============================================================================
