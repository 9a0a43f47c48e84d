----------------------------- MODULE SyncEngine ------------------------------
(***************************************************************************)
(* The thread that copies the exchange's state into the local store        *)
(* (live/sync_engine.py): in each round the positions, whose drift ends    *)
(* the round, and then the trades.  Trades are numbered in the order of    *)
(* their timestamps.  A round asks for one symbol after the other, logs    *)
(* what it does not know, stores the ids and then the watermark, each in a *)
(* transaction of its own.                                                 *)
(***************************************************************************)
EXTENDS Integers, FiniteSets, Sequences, SequencesExt

CONSTANTS
    Symbols,        \* the scope, as 1..n: the order in which it is asked for
    Limit,          \* trades that one fetch_my_trades returns at most
    MaxTrades,      \* bound: trades
    MaxBreaks,      \* bound: crashes and failing writes
    MaxMisses       \* bound: fetches that fail, and drifts

VARIABLES
    trades,     \* trades[i]: the symbol of the i-th trade at the exchange
    logged,     \* logged[i]: how often the store has it as exchange_sync
    known,      \* meta sync_known_trade_ids
    since,      \* meta sync_fills_since_ms
    sync,       \* the round: where it is, what it has read and fetched
    drift,      \* TRUE iff positions and account differ
    breaks,     \* crashes and failing writes so far
    misses      \* failed fetches and drifts so far

syncVars == <<trades, logged, known, since, sync, drift, breaks, misses>>

Ids == 1..MaxTrades
LastSymbol == CHOOSE s \in Symbols : \A t \in Symbols : t <= s
Sleeping == [pc |-> "sleep", sym |-> 0, since |-> 0, known |-> {}, max |-> 0, batch |-> {}]

Init ==
    /\ trades = <<>>
    /\ logged = [i \in Ids |-> 0]
    /\ known = {} /\ since = 0
    /\ sync = Sleeping
    /\ drift = FALSE
    /\ breaks = 0 /\ misses = 0

\* A trade happens at the exchange.
Trade(s) ==
    /\ Len(trades) < MaxTrades
    /\ trades' = Append(trades, s)
    /\ UNCHANGED <<logged, known, since, sync, drift, breaks, misses>>

\* A round begins with sync_positions.  A drift raises KillSwitch: _run_loop
\* calls on_kill_switch, and the round ends without sync_fills.
Positions ==
    /\ sync.pc = "sleep"
    /\ ~drift
    /\ sync' = [sync EXCEPT !.pc = "read"]
    /\ UNCHANGED <<trades, logged, known, since, drift, breaks, misses>>

Drifts ==
    /\ misses < MaxMisses /\ misses' = misses + 1
    /\ ~drift /\ drift' = TRUE
    /\ UNCHANGED <<trades, logged, known, since, sync, breaks>>

DriftEnds ==
    /\ drift /\ drift' = FALSE
    /\ UNCHANGED <<trades, logged, known, since, sync, breaks, misses>>

ReadMeta ==
    /\ sync.pc = "read"
    /\ sync' = [sync EXCEPT !.pc = "fetch", !.sym = 1, !.since = since, !.max = since,
                            !.known = known, !.batch = {}]
    /\ UNCHANGED <<trades, logged, known, since, drift, breaks, misses>>

Of(s, from) == {i \in 1..Len(trades) : trades[i] = s /\ i >= from}

\* The oldest ones from the watermark on; without a watermark the newest ones.
Oldest(S) == {i \in S : Cardinality({j \in S : j < i}) < Limit}
Newest(S) == {i \in S : Cardinality({j \in S : j > i}) < Limit}

Returned(s) == IF sync.since > 0 THEN Oldest(Of(s, sync.since)) ELSE Newest(Of(s, 1))

AfterFetch == IF sync.sym = LastSymbol THEN "log" ELSE "fetch"

Fetch ==
    /\ sync.pc = "fetch"
    /\ sync' = [sync EXCEPT !.pc = AfterFetch, !.sym = @ + 1, !.batch = @ \union Returned(sync.sym)]
    /\ UNCHANGED <<trades, logged, known, since, drift, breaks, misses>>

\* The fetch of a symbol fails: a warning, and the next symbol.
FetchFails ==
    /\ sync.pc = "fetch"
    /\ misses < MaxMisses /\ misses' = misses + 1
    /\ sync' = [sync EXCEPT !.pc = AfterFetch, !.sym = @ + 1]
    /\ UNCHANGED <<trades, logged, known, since, drift, breaks>>

Larger(m, n) == IF m >= n THEN m ELSE n

\* new_trades: symbol by symbol, and each answer in the order of its ids.
FirstOf(S) == {i \in S : \A j \in S : trades[i] < trades[j] \/ (trades[i] = trades[j] /\ i <= j)}

\* Mutant: the id of a logged trade is not remembered.
LogForgets ==
    /\ sync.pc = "log"
    /\ \E i \in FirstOf(sync.batch) :
          /\ sync' = [sync EXCEPT !.batch = @ \ {i}, !.max = Larger(@, i)]
          /\ logged' = IF i \in sync.known THEN logged ELSE [logged EXCEPT ![i] = @ + 1]
    /\ UNCHANGED <<trades, known, since, drift, breaks, misses>>

\* One trade of the batch: the watermark counts it, known or not.
Log ==
    /\ sync.pc = "log"
    /\ \E i \in FirstOf(sync.batch) :
          /\ sync' = [sync EXCEPT !.batch = @ \ {i}, !.max = Larger(@, i), !.known = @ \union {i}]
          /\ logged' = IF i \in sync.known THEN logged ELSE [logged EXCEPT ![i] = @ + 1]
    /\ UNCHANGED <<trades, known, since, drift, breaks, misses>>

StoreKnown ==
    /\ sync.pc = "log"
    /\ sync.batch = {}
    /\ known' = sync.known
    /\ sync' = [sync EXCEPT !.pc = "mark"]
    /\ UNCHANGED <<trades, logged, since, drift, breaks, misses>>

\* Mutant: the watermark stops before the newest trade.
StoreSinceBehind ==
    /\ sync.pc = "mark"
    /\ since' = IF sync.max > 0 THEN sync.max - 1 ELSE 0
    /\ sync' = Sleeping
    /\ UNCHANGED <<trades, logged, known, drift, breaks, misses>>

StoreSince ==
    /\ sync.pc = "mark"
    /\ since' = sync.max
    /\ sync' = Sleeping
    /\ UNCHANGED <<trades, logged, known, drift, breaks, misses>>

\* The process dies, or a write raises and sync_fills logs the error: the
\* round is over, and what it had in memory is gone.
Break ==
    /\ sync.pc # "sleep"
    /\ breaks < MaxBreaks /\ breaks' = breaks + 1
    /\ sync' = Sleeping
    /\ UNCHANGED <<trades, logged, known, since, drift, misses>>

Round == Positions \/ ReadMeta \/ Fetch \/ FetchFails \/ Log \/ StoreKnown \/ StoreSince

Next == (\E s \in Symbols : Trade(s)) \/ Round \/ Drifts \/ DriftEnds \/ Break

Spec == Init /\ [][Next]_syncVars

\* The thread goes on, and a drift is settled by the operator in the end.
Fairness == WF_syncVars(Round) /\ SF_syncVars(Positions) /\ WF_syncVars(DriftEnds)
FairSpec == Spec /\ Fairness

-----------------------------------------------------------------------------
(* Properties *)

TypeOK ==
    /\ trades \in Seq(Symbols) /\ Len(trades) <= MaxTrades
    /\ logged \in [Ids -> Nat]
    /\ known \subseteq Ids /\ since \in 0..MaxTrades
    /\ sync.known \subseteq Ids /\ sync.max \in 0..MaxTrades /\ sync.batch \subseteq Ids
    /\ drift \in BOOLEAN /\ breaks \in 0..MaxBreaks /\ misses \in 0..MaxMisses

\* A trade is logged twice only because a round broke off between the log and
\* the write of the ids, and at most once more for each such round.
LoggedOncePerBreak == \A i \in Ids : logged[i] <= 1 + breaks

\* Every trade is logged in the end, unless another symbol trades too: a fetch
\* that fails, an answer that is full, a drift or a crash only delays it.  (The
\* watermark is one for all symbols and may pass a trade of a symbol that had
\* been asked for already.  The trades before the first watermark are asked for
\* in one answer, the newest ones.)
TradesAreLogged ==
    \A i \in Ids : i > MaxTrades - Limit =>
        ((Len(trades) >= i) ~> (logged[i] > 0 \/ Cardinality(ToSet(trades)) > 1))
=============================================================================
