----------------------------- MODULE OosRegistry -----------------------------
(***************************************************************************)
(* The registry of burned out-of-sample windows                            *)
(* (validation/oos_registry.py): a text file that research processes read, *)
(* check and append to, without a lock, before they look at a window of    *)
(* one strategy and symbol.                                                *)
(***************************************************************************)
EXTENDS Integers, FiniteSets

CONSTANTS
    Researchers,    \* processes that call check_and_burn
    MaxDay          \* bound: windows lie in 1..MaxDay

VARIABLES
    registry,   \* the file: is it there, and its rows
    burner,     \* burner[p]: where its call is, its window, whether it enforces
    wiped       \* TRUE iff the creation of the file has cut off rows

oosVars == <<registry, burner, wiped>>

Windows == {w \in (1..MaxDay) \X (1..MaxDay) : w[1] <= w[2]}
NoWindow == <<0, 0>>

\* `passed' are the windows that had been passed when the call began.
Init ==
    /\ registry = [there |-> FALSE, rows |-> {}]
    /\ burner = [p \in Researchers |-> [pc |-> "idle", win |-> NoWindow, enforce |-> FALSE, passed |-> {}]]
    /\ wiped = FALSE

\* Mutant: windows that share a last or first day do not overlap.
OverlapsInside(v, w) == v[1] < w[2] /\ v[2] > w[1]

Overlaps(v, w) == v[1] <= w[2] /\ v[2] >= w[1]
Burned(rows, w) == \E v \in rows : Overlaps(v, w)

Goes(p, from, to) == burner[p].pc = from /\ burner' = [burner EXCEPT ![p].pc = to]

\* check_and_burn reads the file; with `enforce' a burned window is refused ...
Check(p) ==
    /\ burner[p].pc = "idle"
    /\ \E w \in Windows, enforce \in BOOLEAN :
        burner' = [burner EXCEPT ![p] =
            [pc |-> IF enforce /\ Burned(registry.rows, w) THEN "refused" ELSE "exists",
             win |-> w, enforce |-> enforce,
             passed |-> {burner[q].win : q \in {r \in Researchers : burner[r].pc = "passed"}}]]
    /\ UNCHANGED <<registry, wiped>>

\* ... append_usage creates the file if it is not there, in two steps ...
FindFile(p) ==
    /\ registry.there /\ Goes(p, "exists", "read")
    /\ UNCHANGED <<registry, wiped>>

FindNone(p) ==
    /\ ~registry.there /\ Goes(p, "exists", "create")
    /\ UNCHANGED <<registry, wiped>>

Create(p) ==
    /\ Goes(p, "create", "read")
    /\ registry' = [there |-> TRUE, rows |-> {}]
    /\ wiped' = (wiped \/ registry.rows # {})

\* ... reads it again, and returns quietly when any day of the window is burned ...
Read(p) ==
    /\ burner[p].pc = "read"
    /\ burner' = [burner EXCEPT ![p].pc = IF Burned(registry.rows, burner[p].win)
                                           THEN "passed" ELSE "append"]
    /\ UNCHANGED <<registry, wiped>>

\* ... or appends its row.  Either way the caller gets TRUE.
Append(p) ==
    /\ Goes(p, "append", "passed")
    /\ registry' = [registry EXCEPT !.rows = @ \cup {burner[p].win}]
    /\ UNCHANGED wiped

Next == \E p \in Researchers :
    Check(p) \/ FindFile(p) \/ FindNone(p) \/ Create(p) \/ Read(p) \/ Append(p)

Spec == Init /\ [][Next]_oosVars

-----------------------------------------------------------------------------
TypeOK ==
    /\ registry.there \in BOOLEAN /\ registry.rows \subseteq Windows
    /\ \A p \in Researchers :
        /\ burner[p].pc \in {"idle", "exists", "create", "read", "append", "passed", "refused"}
        /\ burner[p].win \in Windows \cup {NoWindow}
    /\ wiped \in BOOLEAN

(* A window burns: a researcher who enforces and gets TRUE was not given a
   window that another one had been given before the call began, whoever wrote
   the row.  Two calls at a time may both get it, and the creation of the file
   may cut off the rows of another. *)
BurnedStaysBurned ==
    wiped \/ \A p \in Researchers :
        (burner[p].pc = "passed" /\ burner[p].enforce) => burner[p].win \notin burner[p].passed
=============================================================================
