----------------------------- MODULE FillLedger -----------------------------
(***************************************************************************)
(* What the order life cycle of a live trader promises: its position is    *)
(* moved by the fills of its orders only, each filled lot moves it once,   *)
(* and never before the exchange has filled it.  A trader that starts      *)
(* again has booked nothing, and may book lots of an order of its former   *)
(* life without moving its position.                                       *)
(*                                                                         *)
(* Lots bought are positive, lots sold negative.                           *)
(***************************************************************************)
EXTENDS Integers

CONSTANT Orders     \* client order ids

VARIABLES
    filled,     \* filled[o]: lots that the exchange filled
    booked,     \* booked[o]: lots that the trader booked since it started
    position,   \* the trader's position
    restarted   \* whether the trader has started again

Init ==
    /\ filled = [o \in Orders |-> 0]
    /\ booked = [o \in Orders |-> 0]
    /\ position = 0
    /\ restarted = FALSE

Fill(o) ==
    /\ \E lot \in {-1, 1} : filled[o] * lot >= 0 /\ filled' = [filled EXCEPT ![o] = @ + lot]
    /\ UNCHANGED <<booked, position, restarted>>

Book(o) ==
    /\ \E n \in ((booked[o] + 1)..filled[o]) \cup (filled[o]..(booked[o] - 1)) :
        /\ booked' = [booked EXCEPT ![o] = n]
        /\ \/ position' = position + n - booked[o]
           \/ restarted /\ position' = position
    /\ UNCHANGED <<filled, restarted>>

StartAgain ==
    /\ booked' = [o \in Orders |-> 0]
    /\ position' = 0
    /\ restarted' = TRUE
    /\ UNCHANGED filled

Next == StartAgain \/ \E o \in Orders : Fill(o) \/ Book(o)

LedgerSpec == Init /\ [][Next]_<<filled, booked, position, restarted>>
=============================================================================
