----------------------------- MODULE MCServices ------------------------------
(***************************************************************************)
(* The services around the live traders, side by side: the control file,   *)
(* the thread that syncs fills, and the user data stream share no state.   *)
(* "which" names the one that moves, and the others stay as they began.    *)
(***************************************************************************)
EXTENDS Integers, FiniteSets, Sequences

CONSTANTS
    Savers, Bots, Requests, MaxRequests,                \* ControlFile
    Symbols, Limit, MaxTrades, MaxBreaks, MaxMisses,    \* SyncEngine
    Interval, Life, MaxFailures                         \* UserStream

\* The listen key outlives the keepalive interval by more than the receive that
\* follows a refresh and renews nothing (half an hour and an hour, in the code).
ASSUME ServicesBounds ==
    /\ IsFiniteSet(Savers) /\ IsFiniteSet(Bots)
    /\ Requests \subseteq {"kill", "pause", "noNew", "resume", "botPause", "botResume"}
    /\ MaxRequests \in Nat
    /\ MaxTrades \in Nat /\ MaxBreaks \in Nat /\ MaxMisses \in Nat
    /\ Interval \in Nat \ {0} /\ Life \in Nat /\ Life > Interval + 1 /\ MaxFailures \in Nat

VARIABLES
    which,      \* the service that moves
    link, file, writer, begun, owed, alone,
    trades, logged, known, since, sync, drift, breaks, misses,
    at, expired, mark, age, failures, neglected

ControlFile == INSTANCE ControlFile
SyncEngine == INSTANCE SyncEngine
UserStream == INSTANCE UserStream

ControlVars == <<link, file, writer, begun, owed, alone>>
SyncVars == <<trades, logged, known, since, sync, drift, breaks, misses>>
StreamVars == <<at, expired, mark, age, failures, neglected>>
AllVars == <<which, ControlVars, SyncVars, StreamVars>>

Init ==
    /\ which \in {"control", "sync", "stream"}
    /\ ControlFile!Init /\ SyncEngine!Init /\ UserStream!Init

ControlStep == which = "control" /\ ControlFile!Next /\ UNCHANGED <<which, SyncVars, StreamVars>>
SyncStep == which = "sync" /\ SyncEngine!Next /\ UNCHANGED <<which, ControlVars, StreamVars>>
StreamStep == which = "stream" /\ UserStream!Next /\ UNCHANGED <<which, ControlVars, SyncVars>>

Next == ControlStep \/ SyncStep \/ StreamStep

\* A service that has begun to write, sync or listen goes on with it; a drift
\* is settled by the operator in the end.
Fairness ==
    /\ \A p \in ControlFile!Writers : WF_AllVars(ControlStep /\ ControlFile!Step(p))
    /\ WF_AllVars(SyncStep /\ SyncEngine!Round)
    /\ SF_AllVars(SyncStep /\ SyncEngine!Positions)
    /\ WF_AllVars(SyncStep /\ SyncEngine!DriftEnds)
    /\ WF_AllVars(StreamStep /\ UserStream!Step)

Spec == Init /\ [][Next]_AllVars /\ Fairness

-----------------------------------------------------------------------------
(* The properties are those of the services, where each is explained. *)

\* Every service keeps its types.
TypeOK == ControlFile!TypeOK /\ SyncEngine!TypeOK /\ UserStream!TypeOK

\* ControlFile: updates of the control file that do not overlap are never lost.
SerialUpdatesHold == ControlFile!SerialUpdatesHold

\* ControlFile: a torn control file does not stay torn.
TornHeals == ControlFile!TornHeals

\* SyncEngine: a trade is logged once, and once more for each round that broke off.
LoggedOncePerBreak == SyncEngine!LoggedOncePerBreak

\* SyncEngine: the trades of one symbol are all logged in the end.
TradesAreLogged == SyncEngine!TradesAreLogged

\* UserStream: a listen key is forgotten only after a failed call or a busy unit.
QuietKeysLive == UserStream!QuietKeysLive

\* UserStream: the stream comes back with a key that the exchange knows.
ListensAgain == (which = "stream" /\ (at # "receive" \/ age = Life)) ~> (at = "receive" /\ age < Life)

=============================================================================
