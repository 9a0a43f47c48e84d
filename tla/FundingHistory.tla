--------------------------- MODULE FundingHistory ----------------------------
(***************************************************************************)
(* The cache of funding rates and its download (data/downloader.py).       *)
(* A rate is named by its number; "rate" is the newest one, and time is    *)
(* taken strictly between two of them.  A download asks for the last       *)
(* "days" rates.  The cursor of a download is the only bookkeeping: there  *)
(* is no list of missing windows, so a hole that an interrupted backfill   *)
(* leaves behind the cursor stays.                                         *)
(***************************************************************************)
EXTENDS Integers, FiniteSets, FiniteSetsExt

CONSTANTS
    Listed,         \* the first rate that the exchange keeps
    Days,           \* lengths of the periods that are asked for, in rates
    Full,           \* rates of a full answer
    CoverageMin,    \* FUNDING_COVERAGE_MIN, in percent
    FirstRate,      \* the newest rate at the start
    MaxRate,        \* bound: rates
    MaxUpsets       \* bound: fetches that fail for good, and crashes

VARIABLES
    rate,       \* the newest rate
    rates,      \* the cache: numbers of the rates in it
    pull,       \* the download in progress, or the last one
    upsets      \* upsets so far

fundingVars == <<rate, rates, pull, upsets>>

Init ==
    /\ rate = FirstRate
    /\ rates = {}
    /\ pull = [pc |-> "idle", days |-> 0, base |-> {}, since |-> 0, new |-> {}, out |-> {}]
    /\ upsets = 0

-----------------------------------------------------------------------------
(* The decisions. *)

\* The period begins just before its first rate.
NeededFrom(days) == rate - days

\* No new rate for two periods.
StaleRates(S) == Max(S) <= rate - 2

\* funding_coverage_ratio, with the true step between two rates.  The window
\* of a stale series ends with the series: at its last rate, which counts
\* with the "days" before it.
Coverage(S, days) ==
    IF S = {} THEN 0
    ELSE LET end == IF StaleRates(S) THEN Max(S) ELSE rate
             from == IF StaleRates(S) THEN end - days ELSE end - days + 1
         IN (Cardinality(S \cap (from..end)) * 100) \div days

\* Mutant: what comes from the cache is not measured.
EnoughUnchecked(S, days) == pull.pc = "idle" \/ Coverage(S, days) >= 0

\* _require_funding_coverage, strict.
Enough(S, days) == Coverage(S, days) >= CoverageMin

\* Where funding() begins: at the period's begin when the cache does not reach
\* back to it, and otherwise at the newest cached rate.
Cursor(S, days) ==
    IF S = {} \/ Min(S) > NeededFrom(days) THEN NeededFrom(days) + 1 ELSE Max(S)

-----------------------------------------------------------------------------
(* The steps. *)

\* download_funding: a cache that reaches back far enough and is fresh is
\* returned, or refused when it covers too little; otherwise it is updated.
Ask(days) ==
    LET cached == rates # {} /\ Min(rates) <= NeededFrom(days) /\ ~StaleRates(rates) IN
    /\ pull.pc \in {"idle", "done", "refused"}
    /\ pull' = [pc |-> IF ~cached THEN "fetch" ELSE IF Enough(rates, days) THEN "done" ELSE "refused",
                days |-> days, base |-> rates, since |-> Cursor(rates, days), new |-> {},
                out |-> IF cached /\ Enough(rates, days) THEN rates ELSE {}]
    /\ UNCHANGED <<rate, rates, upsets>>

\* One answer of fetch_funding_rate_history; a short one is the last.
FetchRates ==
    LET there == {r \in Listed..rate : r >= pull.since}
        batch == {r \in there : Cardinality({q \in there : q < r}) < Full}
        more == Cardinality(batch) = Full
    IN /\ pull.pc = "fetch"
       /\ pull' = [pull EXCEPT !.new = @ \union batch, !.pc = IF more THEN "fetch" ELSE "merge",
                               !.since = IF batch = {} THEN @ ELSE Max(batch) + 1]
       /\ UNCHANGED <<rate, rates, upsets>>

\* The retries are used up: what was fetched is saved with what was cached,
\* without a look at its coverage, and the error goes on.
FetchRatesFails ==
    /\ pull.pc = "fetch"
    /\ upsets < MaxUpsets
    /\ upsets' = upsets + 1
    /\ rates' = IF pull.new = {} THEN rates ELSE pull.base \union pull.new
    /\ pull' = [pull EXCEPT !.pc = "idle"]
    /\ UNCHANGED rate

\* _make_merged: a rate in both is the same rate.
MergedRates(base, new) == base \union new

\* The end of funding(): too little is refused and not saved.
FinishRates ==
    LET merged == MergedRates(pull.base, pull.new) IN
    /\ pull.pc = "merge"
    /\ IF Enough(merged, pull.days)
       THEN /\ rates' = merged
            /\ pull' = [pull EXCEPT !.pc = "done", !.out = merged]
       ELSE /\ pull' = [pull EXCEPT !.pc = "refused"]
            /\ UNCHANGED rates
    /\ UNCHANGED <<rate, upsets>>

CrashRates ==
    /\ pull.pc \in {"fetch", "merge"}
    /\ upsets < MaxUpsets
    /\ upsets' = upsets + 1
    /\ pull' = [pull EXCEPT !.pc = "idle"]
    /\ UNCHANGED <<rate, rates>>

NewRate ==
    /\ rate < MaxRate
    /\ rate' = rate + 1
    /\ UNCHANGED <<rates, pull, upsets>>

Next ==
    \/ \E days \in Days : Ask(days)
    \/ FetchRates \/ FetchRatesFails \/ FinishRates \/ CrashRates
    \/ NewRate

Spec == Init /\ [][Next]_fundingVars

-----------------------------------------------------------------------------
TypeOK ==
    /\ rate \in FirstRate..MaxRate
    /\ rates \subseteq 0..MaxRate /\ pull.new \subseteq 0..MaxRate
    /\ pull.pc \in {"idle", "fetch", "merge", "done", "refused"}

\* What a successful download returns, from the cache or from the exchange,
\* has at least CoverageMin percent of the rates of its period, which ends with
\* the newest rate there is or, if that is older, with the newest one returned
\* (downloader.py: "fail-closed" on a cut history).
ReturnedIsCovered ==
    pull.pc = "done" =>
        Cardinality(pull.out \cap ((Max(pull.out) - pull.days)..Max(pull.out))) * 100
            >= CoverageMin * pull.days

\* No rate of the cache is lost: not by a fetch that fails half way, a crash, or a
\* period that is refused.
RatesAreKept == [][rates \subseteq rates']_fundingVars
=============================================================================
