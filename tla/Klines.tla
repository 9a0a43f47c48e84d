------------------------------- MODULE Klines --------------------------------
(***************************************************************************)
(* The cache of klines and its download (data/downloader.py, storage.py).  *)
(* A bar is named by its number; bar "bar" is the one that is open now.    *)
(* The cache file is replaced atomically.  A download loads it, computes   *)
(* the windows it misses, fetches them batch by batch, and saves what it   *)
(* loaded with what it fetched: every so often, when a fetch fails, and at *)
(* the end.  One download of a symbol and interval runs at a time.         *)
(***************************************************************************)
EXTENDS Integers, FiniteSets, FiniteSetsExt

CONSTANTS
    Has,            \* the bars that the exchange has; the others are holes
    Starts,         \* first bars that are asked for
    Batch,          \* bars of a full answer
    Checkpoint,     \* checkpoint_batches
    FirstBar,       \* the bar that is open at the start
    MaxBar,         \* bound: bars
    MaxFaults       \* bound: fetches that fail for good, and crashes

VARIABLES
    bar,        \* the bar that is open
    klines,     \* the cache: klines[b] is "none", "open" or "closed", as b was when fetched
    load,       \* the download in progress, or the last one
    stuck,      \* history: bars that a merge or a full batch may leave half fetched
    faults      \* faults so far

klinesVars == <<bar, klines, load, stuck, faults>>

Bars == 0..MaxBar
Nothing == [b \in Bars |-> "none"]
In(cache) == {b \in Bars : cache[b] # "none"}

Init ==
    /\ bar = FirstBar
    /\ klines = Nothing
    /\ load = [pc |-> "idle", from |-> 0, at |-> 0, base |-> Nothing, wins |-> {},
               since |-> 0, new |-> Nothing, n |-> 0]
    /\ stuck = {}
    /\ faults = 0

-----------------------------------------------------------------------------
(* What is missing.  A window is <<first, end>>, its end not included. *)

\* _gap_windows: between two neighbours more than one and a half intervals apart.
GapWindows(S, from) ==
    {<<Max({b + 1, from}), Min({c \in S : c > b})>> : b \in {x \in S \ {Max(S)} : x + 1 \notin S}}

\* The tail counts when the last bar is older than two intervals.
Stale(tail, S, now) == IF Max(S) < now - 1 THEN {tail} ELSE {}

\* Mutant: the holes are not looked for.
WindowsNoGaps(S, from, now) ==
    IF S = {} THEN {<<from, now + 2>>}
    ELSE {<<from, Min(S)>>} \union Stale(<<Max(S), now + 2>>, S, now)

\* missing_klines_windows: the prefix, the holes, and, when the last bar is
\* older than two intervals, the tail from that bar on: it may have been open.
Windows(S, from, now) ==
    IF S = {} THEN {<<from, now + 2>>}
    ELSE {<<from, Min(S)>>} \union GapWindows(S, from)
         \union Stale(<<Max(S), now + 2>>, S, now)

\* merge_windows: the empty ones dropped.  None of them touch: a cached bar lies
\* between any two but the last hole and the tail, which begins at that cached
\* bar.  They are fetched in their order (FirstOf).
Merge(W) ==
    LET real == {w \in W : w[1] < w[2]}
        tail == {w \in real : \E v \in real : v[2] = w[1]}
    IN {IF \E w \in tail : v[2] = w[1] THEN <<v[1], Max({w[2] : w \in tail})>> ELSE v :
            v \in real \ tail}

FirstOf(W) == CHOOSE w \in W : \A v \in W : w[1] <= v[1]

-----------------------------------------------------------------------------
(* The fetch. *)

\* One answer: the first bars of the exchange from since on.
Answer == LET there == {b \in Has : load.since <= b /\ b <= bar}
          IN {b \in there : Cardinality({c \in there : c < b}) < Batch}

\* _make_merged: what was loaded and what was fetched.  A bar in both is taken
\* from the fetch when the frames are in order; sort_index is not stable, so
\* otherwise either may be kept.
InOrder(base, new) == \A b \in In(base), c \in In(new) : b <= c

Merged(base, new) ==
    LET both == In(base) \cap In(new)
        kept(S) == [b \in Bars |-> IF b \in In(new) \ S THEN new[b] ELSE base[b]]
    IN IF InOrder(base, new) THEN {kept({})} ELSE {kept(S) : S \in SUBSET both}

Save(new, edge) ==
    /\ klines' \in Merged(load.base, new)
    /\ stuck' = stuck \union edge
                  \union {b \in In(load.base) \cap In(new) : ~InOrder(load.base, new)}

\* download_klines, klines, _extend_klines: nothing is fetched when no window misses.
Start(from) ==
    LET wins == Merge(Windows(In(klines), from, bar)) IN
    /\ load.pc \in {"idle", "done"}
    /\ load' = [pc |-> IF wins = {} THEN "done" ELSE "fetch", from |-> from, at |-> bar,
                base |-> klines, wins |-> wins, since |-> IF wins = {} THEN 0 ELSE FirstOf(wins)[1],
                new |-> Nothing, n |-> 0]
    /\ UNCHANGED <<bar, klines, stuck, faults>>

NextWindow(l) ==
    LET rest == l.wins \ {FirstOf(l.wins)} IN
    IF rest = {} THEN [l EXCEPT !.pc = "save", !.wins = {}]
    ELSE [l EXCEPT !.wins = rest, !.since = FirstOf(rest)[1]]

\* _fetch_klines_windows, one answer.  Bars past the window are dropped; the
\* window ends with an answer that has none of it, or that is short, or when
\* the cursor reaches its end.  _on_batch writes a checkpoint now and then.
\* A full answer that ends with the open bar moves the cursor behind it.
Fetch ==
    LET end == FirstOf(load.wins)[2]
        df == {b \in Answer : b < end}
        new == [b \in Bars |-> IF b \notin df THEN load.new[b]
                               ELSE IF b = bar THEN "open" ELSE "closed"]
        l == [load EXCEPT !.new = new, !.n = @ + 1, !.since = Max(df) + 1]
        edge == {b \in df : b = bar /\ Cardinality(Answer) = Batch}
    IN /\ load.pc = "fetch"
       /\ IF df = {}
          THEN load' = NextWindow(load) /\ UNCHANGED <<klines, stuck>>
          ELSE /\ load' = IF l.since >= end \/ Cardinality(Answer) < Batch
                          THEN NextWindow(l) ELSE l
               /\ IF (load.n + 1) % Checkpoint = 0 THEN Save(new, edge)
                  ELSE stuck' = stuck \union edge /\ UNCHANGED klines
       /\ UNCHANGED <<bar, faults>>

\* Mutant: what was loaded is left out.
FetchFailsForgetting ==
    /\ load.pc = "fetch"
    /\ faults < MaxFaults
    /\ faults' = faults + 1
    /\ klines' = IF In(load.new) = {} THEN klines ELSE load.new
    /\ load' = [load EXCEPT !.pc = "idle"]
    /\ UNCHANGED <<bar, stuck>>

\* The retries of a fetch are used up: what was fetched so far is saved, and the error raised.
FetchFails ==
    /\ load.pc = "fetch"
    /\ faults < MaxFaults
    /\ faults' = faults + 1
    /\ IF In(load.new) = {} THEN UNCHANGED <<klines, stuck>> ELSE Save(load.new, {})
    /\ load' = [load EXCEPT !.pc = "idle"]
    /\ UNCHANGED bar

\* The end of _extend_klines and the save of klines(): the merged bars are returned.
Finish ==
    /\ load.pc = "save"
    /\ Save(load.new, {})
    /\ load' = [load EXCEPT !.pc = "done"]
    /\ UNCHANGED <<bar, faults>>

Crash ==
    /\ load.pc \in {"fetch", "save"}
    /\ faults < MaxFaults
    /\ faults' = faults + 1
    /\ load' = [load EXCEPT !.pc = "idle"]
    /\ UNCHANGED <<bar, klines, stuck>>

\* The open bar closes.
Tick ==
    /\ bar < MaxBar
    /\ bar' = bar + 1
    /\ UNCHANGED <<klines, load, stuck, faults>>

Next ==
    \/ \E from \in Starts : Start(from)
    \/ Fetch \/ FetchFails \/ Finish \/ Crash
    \/ Tick

Spec == Init /\ [][Next]_klinesVars

-----------------------------------------------------------------------------
TypeOK ==
    /\ bar \in Bars /\ faults \in 0..MaxFaults
    /\ klines \in [Bars -> {"none", "open", "closed"}]
    /\ load.pc \in {"idle", "fetch", "save", "done"} /\ load.new \in [Bars -> {"none", "open", "closed"}]
    /\ stuck \subseteq Bars

\* A download that succeeds leaves in the cache every bar that the exchange has,
\* from the first one asked for to the last that had closed when it began, after
\* failed fetches, crashes and earlier, shorter periods.  None of them is a bar
\* as it was while open, but the last of the cache, which the next tail replaces,
\* and those that an unordered merge or a full answer left so.
DownloadCoversPeriod ==
    load.pc = "done" =>
        /\ Has \cap (load.from..(load.at - 1)) \subseteq In(klines)
        /\ \A b \in Bars \ stuck : klines[b] = "open" => b = Max(In(klines))

\* No bar of the cache is lost, and none that had closed when it was fetched is
\* replaced by an older copy, although every save writes the whole cache from
\* what a download loaded: through checkpoints, failed fetches, crashes and
\* later periods.  An unordered merge may bring the older copy back.
BarsAreKept ==
    [][\A b \in Bars : /\ klines[b] # "none" => klines'[b] # "none"
                       /\ klines[b] = "closed" => klines'[b] = "closed" \/ b \in stuck']_klinesVars
=============================================================================
