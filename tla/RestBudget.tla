------------------------------ MODULE RestBudget -----------------------------
(***************************************************************************)
(* Retries of REST calls under the request limit of one address            *)
(* (data/downloader.py): processes share a pause after an answer 429 or    *)
(* 418 through a file that each of them reads before an attempt and        *)
(* rewrites without a lock.  An attempt takes no time; pauses do.          *)
(***************************************************************************)
EXTENDS Integers

CONSTANTS
    Callers,        \* processes with one call each
    Retries,        \* download_retries
    LimitPause,     \* pause after the first limit answer, doubled with each
    NetPause,       \* pause after the first network error, doubled with each
    MaxClock        \* bound: time

VARIABLES
    clock,      \* time
    pause,      \* the file of the shared pause: its end, or Torn while written
    call        \* call[c]: where it is, its attempt, how long it sleeps, ...

budgetVars == <<clock, pause, call>>

Torn == -1
Asleep(c) == clock < call[c].wake

(* `until' is the end of the pause that the caller was told by an answer of its
   own, `found' what it read in the file, `limited' the category of the error. *)
Init ==
    /\ clock = 0 /\ pause = 0
    /\ call = [c \in Callers |-> [pc |-> "look", attempt |-> 0, wake |-> 0,
                                  until |-> 0, found |-> 0, limited |-> FALSE]]

Step(c, from, change) ==
    /\ call[c].pc = from /\ ~Asleep(c)
    /\ call' = [call EXCEPT ![c] = change]

\* _wait_shared_cooldown: an unreadable file is no pause.
Look(c) ==
    /\ Step(c, "look", [call[c] EXCEPT !.pc = "send", !.wake = pause])
    /\ UNCHANGED <<clock, pause>>

\* The call succeeds ...
Answered(c) ==
    /\ Step(c, "send", [call[c] EXCEPT !.pc = "done"])
    /\ UNCHANGED <<clock, pause>>

\* ... or fails for the last time ...
GivesUp(c) ==
    /\ call[c].attempt = Retries - 1
    /\ Step(c, "send", [call[c] EXCEPT !.pc = "failed"])
    /\ UNCHANGED <<clock, pause>>

\* _calculate_backoff: the doubling of both kinds; bans with a given end and the
\* caps are left out.
Backoff(limited, attempt) == (IF limited THEN LimitPause ELSE NetPause) * 2^attempt

\* Mutant: one attempt too many.
FailsOnceMore(c) ==
    /\ call[c].attempt < Retries
    /\ \E limited \in BOOLEAN :
        Step(c, "send", [call[c] EXCEPT
            !.pc = IF limited THEN "compare" ELSE "back", !.limited = limited,
            !.until = IF limited THEN clock + Backoff(TRUE, call[c].attempt) ELSE @])
    /\ UNCHANGED <<clock, pause>>

\* ... or fails, of the limit or otherwise.
Fails(c) ==
    /\ call[c].attempt < Retries - 1
    /\ \E limited \in BOOLEAN :
        Step(c, "send", [call[c] EXCEPT
            !.pc = IF limited THEN "compare" ELSE "back", !.limited = limited,
            !.until = IF limited THEN clock + Backoff(TRUE, call[c].attempt) ELSE @])
    /\ UNCHANGED <<clock, pause>>

\* _set_shared_cooldown reads the file and leaves a later end alone ...
Compare(c) ==
    /\ Step(c, "compare", [call[c] EXCEPT !.pc = IF pause >= call[c].until THEN "back" ELSE "open"])
    /\ UNCHANGED <<clock, pause>>

\* ... or truncates the file and writes its own.
Truncate(c) ==
    /\ Step(c, "open", [call[c] EXCEPT !.pc = "write"])
    /\ pause' = Torn
    /\ UNCHANGED clock

Write(c) ==
    /\ Step(c, "write", [call[c] EXCEPT !.pc = "back"])
    /\ pause' = call[c].until
    /\ UNCHANGED clock

\* Mutant: a limit answer relies on the shared pause alone.
BackSharesPause(c) ==
    /\ Step(c, "back", [call[c] EXCEPT !.pc = "look", !.attempt = @ + 1,
            !.wake = IF call[c].limited THEN clock ELSE clock + Backoff(FALSE, call[c].attempt)])
    /\ UNCHANGED <<clock, pause>>

\* Every failed attempt sleeps its own pause as well.
Back(c) ==
    /\ Step(c, "back", [call[c] EXCEPT !.pc = "look", !.attempt = @ + 1,
            !.wake = clock + Backoff(call[c].limited, call[c].attempt)])
    /\ UNCHANGED <<clock, pause>>

Tick ==
    /\ clock < MaxClock /\ clock' = clock + 1
    /\ UNCHANGED <<pause, call>>

CallStep(c) ==
    \/ Look(c) \/ Answered(c) \/ GivesUp(c) \/ Fails(c)
    \/ Compare(c) \/ Truncate(c) \/ Write(c) \/ Back(c)

Next == Tick \/ \E c \in Callers : CallStep(c)

Spec == Init /\ [][Next]_budgetVars

-----------------------------------------------------------------------------
TypeOK ==
    /\ clock \in 0..MaxClock /\ pause \in {Torn} \cup Nat
    /\ \A c \in Callers :
        /\ call[c].pc \in {"look", "send", "done", "failed", "compare", "open", "write", "back"}
        /\ call[c].attempt \in 0..(Retries - 1) /\ call[c].wake \in Int /\ call[c].until \in Nat

(* A process that was told to pause does pause: it never sends again before the
   end of the pause that its own answer asked for, although the shared file may
   be torn or hold an earlier end that another process wrote. *)
OwnPauseIsKept ==
    \A c \in Callers :
        (call[c].pc = "send" /\ ~Asleep(c)) => clock >= call[c].until
=============================================================================
