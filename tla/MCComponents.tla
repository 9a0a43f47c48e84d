---------------------------- MODULE MCComponents -----------------------------
(***************************************************************************)
(* The components that share no state with each other, side by side:       *)
(* "which" names the one that moves, and the others stay as they began.    *)
(* The paper trader is the module itself, the others are instances.        *)
(***************************************************************************)
EXTENDS PaperTrader

CONSTANTS
    Has, Starts, Batch, Checkpoint, FirstBar, LastBar, MaxFaults,   \* Klines
    Listed, Days, Full, CoverageMin, FirstRate, MaxRate, MaxUpsets, \* FundingHistory
    Workers, PerDay, RestDays, FullTrades, FlushEvery,              \* and Recorder
    FirstTrade, MaxTrade,
    MaxImports, MaxTroubles,                                        \* AggTrades
    Sweepers, Cells, MaxEdits, ClassOf, MaxSnags,                   \* SweepStore
    Recorders, MaxEvents, MaxMishaps,                               \* Recorder
    Researchers, MaxDay,                                            \* OosRegistry
    Callers, Retries, LimitPause, NetPause, MaxClock                \* RestBudget

\* Bounds are numbers, periods are not empty, and the pauses, doubled with each
\* attempt, are numbers too.
ASSUME ComponentsBounds ==
    /\ PerDay \in Nat \ {0} /\ RestDays \in Nat /\ FullTrades \in Nat \ {0}
    /\ Checkpoint \in Nat \ {0} /\ FlushEvery \in Nat \ {0}
    /\ FirstTrade \in 0..MaxTrade /\ MaxTrade \in Nat /\ MaxImports \in Nat /\ MaxTroubles \in Nat
    /\ "none" \notin Workers
    /\ Listed \in Nat /\ FirstRate \in 0..MaxRate /\ MaxRate \in Nat /\ Days \subseteq Nat \ {0}
    /\ Full \in Nat \ {0} /\ CoverageMin \in Nat /\ MaxUpsets \in Nat
    /\ Has \subseteq Nat /\ Starts \subseteq Nat /\ Batch \in Nat \ {0}
    /\ LastBar \in Nat /\ FirstBar \in 0..LastBar /\ MaxFaults \in Nat
    /\ MaxEdits \in Nat /\ MaxSnags \in Nat /\ ClassOf \in [1..(MaxEdits + 1) -> Nat \ {0}]
    /\ MaxEvents \in Nat /\ MaxMishaps \in Nat /\ "nobody" \notin Recorders
    /\ MaxDay \in Nat
    /\ Retries \in Nat \ {0} /\ MaxClock \in Nat
    /\ \A n \in 0..(Retries - 1) : LimitPause * 2^n \in Nat /\ NetPause * 2^n \in Nat

\* The first edit is outside the strategy's class, the second one inside.
ClassSources == <<1, 1, 2>>

VARIABLES
    which,      \* the component that moves
    bar, klines, load, stuck, faults,
    rate, rates, pull, upsets,
    trade, agg, holder, work, import, unseen, missed, imports, troubles,
    disk, results, sweeper, trials, passed, unlogged, snags,
    stamps, partition, recorder, held, gone, mishaps,
    registry, burner, wiped,
    clock, pause, call

Klines == INSTANCE Klines WITH MaxBar <- LastBar
FundingHistory == INSTANCE FundingHistory
AggTrades == INSTANCE AggTrades
SweepStore == INSTANCE SweepStore
Recorder == INSTANCE Recorder
OosRegistry == INSTANCE OosRegistry
RestBudget == INSTANCE RestBudget

KlineVars == <<bar, klines, load, stuck, faults>>
FundingVars == <<rate, rates, pull, upsets>>
AggVars == <<trade, agg, holder, work, import, unseen, missed, imports, troubles>>
SweepVars == <<disk, results, sweeper, trials, passed, unlogged, snags>>
RecVars == <<stamps, partition, recorder, held, gone, mishaps>>
OosVars == <<registry, burner, wiped>>
BudgetVars == <<clock, pause, call>>

DataVars == <<KlineVars, FundingVars, AggVars, RecVars, BudgetVars>>
OtherVars == <<paperVars, SweepVars, OosVars>>
AllVars == <<which, DataVars, OtherVars>>

\* The trader begins in many states; it does so only if it is the one that moves.
AllInit ==
    /\ which \in {"paper", "klines", "funding", "agg", "recorder", "budget", "sweep", "oos"}
    /\ Init
    /\ which # "paper" => maker /\ candle = CHOOSE c \in Candles(1) : TRUE
    /\ Klines!Init /\ FundingHistory!Init /\ AggTrades!Init /\ Recorder!Init /\ RestBudget!Init
    /\ SweepStore!Init /\ OosRegistry!Init

KlineStep ==
    which = "klines" /\ Klines!Next /\ UNCHANGED <<which, FundingVars, AggVars, RecVars, BudgetVars, OtherVars>>
FundingStep ==
    which = "funding" /\ FundingHistory!Next /\ UNCHANGED <<which, KlineVars, AggVars, RecVars, BudgetVars, OtherVars>>
AggStep ==
    which = "agg" /\ AggTrades!Next /\ UNCHANGED <<which, KlineVars, FundingVars, RecVars, BudgetVars, OtherVars>>
RecorderStep ==
    which = "recorder" /\ Recorder!Next /\ UNCHANGED <<which, KlineVars, FundingVars, AggVars, BudgetVars, OtherVars>>
BudgetStep ==
    which = "budget" /\ RestBudget!Next /\ UNCHANGED <<which, KlineVars, FundingVars, AggVars, RecVars, OtherVars>>
PaperStep == which = "paper" /\ Next /\ UNCHANGED <<which, DataVars, SweepVars, OosVars>>
SweepStep == which = "sweep" /\ SweepStore!Next /\ UNCHANGED <<which, DataVars, paperVars, OosVars>>
OosStep == which = "oos" /\ OosRegistry!Next /\ UNCHANGED <<which, DataVars, paperVars, SweepVars>>

AllNext ==
    \/ KlineStep \/ FundingStep \/ AggStep \/ RecorderStep \/ BudgetStep
    \/ PaperStep \/ SweepStep \/ OosStep

AllSpec == AllInit /\ [][AllNext]_AllVars

-----------------------------------------------------------------------------
(* The properties are those of the components, where each is explained. *)

\* Every component keeps its types.
ComponentsTypeOK ==
    /\ which = "paper" => TypeOK
    /\ which = "klines" => Klines!TypeOK
    /\ which = "funding" => FundingHistory!TypeOK
    /\ which = "agg" => AggTrades!TypeOK
    /\ which = "recorder" => Recorder!TypeOK
    /\ which = "budget" => RestBudget!TypeOK
    /\ which = "sweep" => SweepStore!TypeOK
    /\ which = "oos" => OosRegistry!TypeOK

\* Klines: a download leaves the bars of its period in the cache, closed ones.
DownloadCoversPeriod == Klines!DownloadCoversPeriod

\* FundingHistory: what is returned has the demanded share of its period's rates.
ReturnedIsCovered == FundingHistory!ReturnedIsCovered

\* Klines and FundingHistory: what is cached is not lost again.
CachesAreKept == Klines!BarsAreKept /\ FundingHistory!RatesAreKept

\* AggTrades: trades are lost only where an import and a download write over
\* each other.
LostOnlyToRace == AggTrades!LostOnlyToRace

\* AggTrades: a REST download continues the cache without a gap.
RestLeavesNoGap == AggTrades!RestLeavesNoGap

\* Recorder: no timestamp that was received is missing in the day files.
ReceivedIsKept == Recorder!ReceivedIsKept

\* RestBudget: a caller does not send before the end of the pause it was told.
OwnPauseIsKept == RestBudget!OwnPauseIsKept

\* SweepStore: a resume passes over results of the class that is on disk.
PassedIsCurrent == SweepStore!PassedIsCurrent

\* SweepStore: a result is counted in the trial ledger before it is stored.
StoredIsCounted == SweepStore!StoredIsCounted

\* OosRegistry: a window that was given away is refused to the next one who enforces.
BurnedStaysBurned == OosRegistry!BurnedStaysBurned
=============================================================================
