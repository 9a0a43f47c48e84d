------------------------------ MODULE MCSystem -------------------------------
(***************************************************************************)
(* Everything of which only safety is asked, in one run: the components of *)
(* MCComponents, or the live trader of LiveOrders whose exchange answers,  *)
(* with orders that wait for later bars and a breaker.                     *)
(***************************************************************************)
EXTENDS MCComponents

VARIABLES
    trading,    \* TRUE iff it is the live trader that moves
    ord, exPos, told, pending, booked, pos, intents, nextCoid, liveBar, tr, tripped, restarts

LiveOrders == INSTANCE LiveOrders WITH
    MaxOrders <- 3, Size <- 2, MaxBars <- 2, Policy <- "wait", Faults <- {"fetch"},
    MaxRestarts <- 0, Breaker <- TRUE, bar <- liveBar

LiveVars == <<ord, exPos, told, pending, booked, pos, intents, nextCoid, liveBar, tr, tripped, restarts>>
SystemVars == <<AllVars, trading, LiveVars>>

SystemInit ==
    /\ AllInit /\ LiveOrders!Init
    /\ trading \in BOOLEAN
    /\ trading => which = "oos"

ComponentStep == ~trading /\ AllNext /\ UNCHANGED <<trading, LiveVars>>
LiveStep == trading /\ LiveOrders!Next /\ UNCHANGED <<trading, AllVars>>

SystemNext == ComponentStep \/ LiveStep

SystemSpec == SystemInit /\ [][SystemNext]_SystemVars

\* LiveOrders: while nothing is lost and nothing restarts, there is at most one
\* order that opens a position, and it fits.
ExposureBounded == LiveOrders!ExposureBounded
=============================================================================
