----------------------------- MODULE AggTrades -------------------------------
(***************************************************************************)
(* The cache of aggregated trades: workers that bring it up to date over   *)
(* REST (data/downloader.py), one at a time under a file lock, and the     *)
(* import of day archives (data/binance_vision.py), which takes no lock.   *)
(* A trade is its id; PerDay of them make a day, so ids also tell time.    *)
(* Every writer loads the cache, adds to it and writes all of it back, in   *)
(* separate steps.                                                         *)
(***************************************************************************)
EXTENDS Integers, FiniteSets, FiniteSetsExt

CONSTANTS
    Workers,        \* processes that want the trades of the symbol
    PerDay,         \* trades of a day
    RestDays,       \* _AGG_TRADES_REST_DAYS: how far back REST goes, in days
    FullTrades,     \* trades of a full answer
    Checkpoint,     \* answers between two saves of a download
    FlushEvery,     \* checkpoint_every: archives between two writes
    FirstTrade,     \* the newest trade at the start
    MaxTrade,       \* bound: trades
    MaxImports,     \* bound: imports
    MaxTroubles     \* bound: fetches that fail for good, and crashes

VARIABLES
    trade,      \* the newest trade
    agg,        \* the cache: ids of the trades in it
    holder,     \* the worker that holds the lock, or "none"
    work,       \* work[w]: the download of worker w
    import,     \* the import: days to go, trades that are not written yet, and
                \* while it flushes them the cache it has loaded
    unseen,     \* history: unseen[w] is what was imported since w loaded the cache
    missed,     \* history: what downloads saved since the flush loaded the cache
    imports, troubles   \* imports and troubles so far

aggVars == <<trade, agg, holder, work, import, unseen, missed, imports, troubles>>

Ids == 0..MaxTrade
DayOf(t) == t \div PerDay
Today == DayOf(trade)
IdsOf(d) == {t \in 0..trade : DayOf(t) = d}
Holes(S) == IF S = {} THEN {} ELSE (Min(S)..Max(S)) \ S

NoWork == [pc |-> "idle", base |-> {}, from |-> 0, new |-> {}, end |-> 0, n |-> 0]
NoImport == [on |-> FALSE, days |-> {}, pending |-> {}, n |-> 0, flush |-> FALSE, base |-> {}]

Init ==
    /\ trade = FirstTrade
    /\ agg = {}
    /\ holder = "none"
    /\ work = [w \in Workers |-> NoWork]
    /\ import = NoImport
    /\ unseen = [w \in Workers |-> {}] /\ missed = {}
    /\ imports = 0 /\ troubles = 0

-----------------------------------------------------------------------------
(* The REST download. *)

\* agg_trades_cache_fresh: the newest trade is within what REST still gives.
Fresh == agg # {} /\ Max(agg) >= trade - RestDays * PerDay

\* Mutant: the cursor goes on by time, behind the last instant: the trades of
\* that instant that the answer cut off are passed over.
CursorByTime(S) == IF S = {} THEN Max({0, trade - RestDays * PerDay}) ELSE Max(S) + 2

\* Where agg_trades begins: behind the newest id, and by time without a cache.
CursorFrom(S) == IF S = {} THEN Max({0, trade - RestDays * PerDay}) ELSE Max(S) + 1

\* download_agg_trades: a fresh cache is returned as it is.
Want(w) ==
    /\ work[w].pc = "idle"
    /\ ~Fresh
    /\ work' = [work EXCEPT ![w] = [NoWork EXCEPT !.pc = "wait"]]
    /\ UNCHANGED <<trade, agg, holder, import, unseen, missed, imports, troubles>>

\* Mutant: the fetch takes no lock.
LockFree(w) == TRUE

\* _exclusive_fetch: one download at a time.
LockIs(w) == holder \in {"none", w}

\* Under the lock the cache is looked at again: another worker may have filled it.
Lock(w) ==
    /\ work[w].pc = "wait" /\ LockIs(w)
    /\ IF Fresh
       THEN /\ work' = [work EXCEPT ![w] = NoWork]
            /\ UNCHANGED <<holder, unseen>>
       ELSE /\ holder' = w
            /\ work' = [work EXCEPT ![w] = [pc |-> "fetch", base |-> agg, from |-> CursorFrom(agg),
                                            new |-> {}, end |-> trade, n |-> 0]]
            /\ unseen' = [unseen EXCEPT ![w] = {}]
    /\ UNCHANGED <<trade, agg, import, missed, imports, troubles>>

\* A download writes the cache, whatever a flush has loaded of it.
Saved(S) ==
    /\ agg' = S
    /\ missed' = IF import.flush THEN missed \union (S \ agg) ELSE missed

\* One answer.  One that reaches the time of the start is the last, and so is
\* a short one; every so many answers all so far is saved.
FetchTrades(w) ==
    LET there == {t \in Ids : work[w].from <= t /\ t <= trade}
        batch == {t \in there : Cardinality({u \in there : u < t}) < FullTrades}
        reached == batch # {} /\ Max(batch) >= work[w].end
        n == work[w].n + 1
    IN /\ work[w].pc = "fetch"
       /\ work' = [work EXCEPT ![w] =
                     [work[w] EXCEPT !.new = work[w].new \union batch, !.n = n,
                               !.from = IF batch = {} THEN work[w].from ELSE Max(batch) + 1,
                               !.pc = IF reached \/ Cardinality(batch) < FullTrades THEN "save" ELSE "fetch"]]
       /\ IF n % Checkpoint = 0 /\ batch # {} /\ ~reached
          THEN Saved(work[w].base \union work[w].new \union batch) ELSE UNCHANGED <<agg, missed>>
       /\ UNCHANGED <<trade, holder, import, unseen, imports, troubles>>

\* dedupe_trades of what was loaded and what was fetched; then the lock is given back.
Store(w) ==
    /\ IF work[w].base \union work[w].new = {} THEN UNCHANGED <<agg, missed>>
       ELSE Saved(work[w].base \union work[w].new)
    /\ holder' = IF holder = w THEN "none" ELSE holder
    /\ work' = [work EXCEPT ![w] = NoWork]

SaveTrades(w) ==
    /\ work[w].pc = "save"
    /\ Store(w)
    /\ UNCHANGED <<trade, import, unseen, imports, troubles>>

\* The retries are used up: the trades fetched so far are saved.
FetchTradesFails(w) ==
    /\ work[w].pc = "fetch" /\ troubles < MaxTroubles
    /\ troubles' = troubles + 1
    /\ IF work[w].new # {} THEN Store(w)
       ELSE /\ holder' = IF holder = w THEN "none" ELSE holder
            /\ work' = [work EXCEPT ![w] = NoWork]
            /\ UNCHANGED <<agg, missed>>
    /\ UNCHANGED <<trade, import, unseen, imports>>

\* The process dies, and its lock with it.
WorkerDies(w) ==
    /\ work[w].pc \in {"fetch", "save"} /\ troubles < MaxTroubles
    /\ troubles' = troubles + 1
    /\ holder' = IF holder = w THEN "none" ELSE holder
    /\ work' = [work EXCEPT ![w] = NoWork]
    /\ UNCHANGED <<trade, agg, import, unseen, missed, imports>>

-----------------------------------------------------------------------------
(* The import of archives, a day each. *)

\* missing_vision_periods: the days from d on.  One of which the cache spans 20
\* hours with 99 % of their ids passes for complete; which of the days with
\* trades these are is a free choice.
StartImport(d) ==
    /\ ~import.on /\ imports < MaxImports
    /\ imports' = imports + 1
    /\ \E complete \in SUBSET {e \in d..(Today - 1) : IdsOf(e) \cap agg # {}} :
            import' = [NoImport EXCEPT !.on = TRUE, !.days = (d..Today) \ complete]
    /\ UNCHANGED <<trade, agg, holder, work, unseen, missed, troubles>>

\* _flush begins: it loads the cache again.
Loaded(i) == import' = [i EXCEPT !.flush = TRUE, !.base = agg] /\ missed' = {}

\* One archive.  That of today is not there yet, and one that cannot be
\* downloaded is passed over like it.
ImportDay ==
    LET d == Min(import.days)
        n == import.n + 1
        rest == [import EXCEPT !.days = @ \ {d}]
        more == [rest EXCEPT !.pending = @ \union IdsOf(d), !.n = n]
    IN /\ import.on /\ import.days # {} /\ ~import.flush
       /\ \/ /\ d < Today
             /\ IF n % FlushEvery = 0 THEN Loaded(more) ELSE import' = more /\ UNCHANGED missed
             /\ UNCHANGED troubles
          \/ /\ d = Today
             /\ import' = rest /\ UNCHANGED <<missed, troubles>>
          \/ /\ troubles < MaxTroubles /\ troubles' = troubles + 1
             /\ import' = rest /\ UNCHANGED missed
       /\ UNCHANGED <<trade, agg, holder, work, unseen, imports>>

\* What is pending behind the last archive is flushed too.
LastFlush ==
    /\ import.on /\ import.days = {} /\ ~import.flush /\ import.pending # {}
    /\ Loaded(import)
    /\ UNCHANGED <<trade, agg, holder, work, unseen, imports, troubles>>

\* _flush goes on: it writes what it has loaded, with what is pending.
FlushSave ==
    /\ import.on /\ import.flush
    /\ agg' = import.base \union import.pending
    /\ unseen' = [w \in Workers |-> unseen[w] \union (agg' \ agg)]
    /\ import' = [import EXCEPT !.flush = FALSE, !.base = {}, !.pending = {}]
    /\ missed' = {}
    /\ UNCHANGED <<trade, holder, work, imports, troubles>>

EndImport ==
    /\ import.on /\ import.days = {} /\ ~import.flush /\ import.pending = {}
    /\ import' = NoImport
    /\ UNCHANGED <<trade, agg, holder, work, unseen, missed, imports, troubles>>

\* An archive that cannot be read ends the import, as a kill does: what is
\* pending is lost.
ImportDies ==
    /\ import.on /\ troubles < MaxTroubles
    /\ troubles' = troubles + 1
    /\ import' = NoImport /\ missed' = {}
    /\ UNCHANGED <<trade, agg, holder, work, unseen, imports>>

NewTrade ==
    /\ trade < MaxTrade
    /\ trade' = trade + 1
    /\ UNCHANGED <<agg, holder, work, import, unseen, missed, imports, troubles>>

Next ==
    \/ \E w \in Workers :
          Want(w) \/ Lock(w) \/ FetchTrades(w) \/ SaveTrades(w) \/ FetchTradesFails(w)
          \/ WorkerDies(w)
    \/ \E d \in 0..Today : StartImport(d)
    \/ ImportDay \/ LastFlush \/ FlushSave \/ EndImport \/ ImportDies
    \/ NewTrade

Spec == Init /\ [][Next]_aggVars

-----------------------------------------------------------------------------
TypeOK ==
    /\ trade \in Ids /\ agg \subseteq Ids /\ holder \in Workers \union {"none"}
    /\ \A w \in Workers : work[w].pc \in {"idle", "wait", "fetch", "save"}
    /\ import.pending \subseteq Ids /\ import.base \subseteq Ids /\ missed \subseteq Ids

\* A trade leaves the cache in two ways only: a download saves over what the
\* import wrote since that download loaded the cache, or a flush of the import
\* saves over what a download wrote since that flush loaded it.  Two downloads
\* do not lose each other's trades, and alone each writer loses nothing.
LostOnlyToRace ==
    [][agg \ agg' \subseteq
          IF import.flush /\ ~import'.flush THEN missed
          ELSE UNION {unseen[w] : w \in {v \in Workers : work[v].pc \in {"fetch", "save"}}}]_aggVars

\* A download continues the cache it loaded without a gap, whatever trades
\* come in meanwhile: what it is going to save has no hole but those that it found.
RestLeavesNoGap ==
    \A w \in Workers : Holes(work[w].base \union work[w].new) \subseteq Holes(work[w].base)
=============================================================================
