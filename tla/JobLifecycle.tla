---------------------------- MODULE JobLifecycle ----------------------------
(***************************************************************************)
(* What the research queue promises about one row of its table, whoever    *)
(* writes it: an attempt number names at most one run.  A row is claimed   *)
(* from "queued" only, and every way back into "queued" takes a new        *)
(* attempt number, so (job, attempt) can be used as a fencing token.       *)
(* JobQueue, with its workers, reaper and clients, implements it.          *)
(***************************************************************************)
EXTENDS Naturals

CONSTANT Jobs

VARIABLE life   \* life[i] = [status |-> ..., attempt |-> ...]

Terminal == {"succeeded", "failed", "cancelled"}
Statuses == Terminal \cup {"absent", "queued", "running"}

LifeInit == life = [i \in Jobs |-> [status |-> "absent", attempt |-> 0]]

Become(i, status, attempt) ==
    life' = [life EXCEPT ![i] = [status |-> status, attempt |-> attempt]]

\* A new fingerprint is inserted with attempt 0.
Insert(i) == life[i].status = "absent" /\ Become(i, "queued", 0)

\* The only way to start a run; the attempt number stays.
Claim(i) == life[i].status = "queued" /\ Become(i, "running", life[i].attempt)

\* A run ends, or a queued job is cancelled, under the same attempt number.
Close(i) ==
    /\ life[i].status \in {"queued", "running"}
    /\ \E s \in Terminal : Become(i, s, life[i].attempt)

\* Resubmission, forced rerun and reaping all take the next attempt number.
Requeue(i) ==
    /\ life[i].status # "absent"
    /\ Become(i, "queued", life[i].attempt + 1)

LifeNext == \E i \in Jobs : Insert(i) \/ Claim(i) \/ Close(i) \/ Requeue(i)

LifeSpec == LifeInit /\ [][LifeNext]_life
=============================================================================
