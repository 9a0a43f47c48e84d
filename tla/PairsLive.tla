----------------------------- MODULE PairsLive ------------------------------
(***************************************************************************)
(* One live pair: PairsLiveRunner and its loop (live/pairs_runner.py), the *)
(* PairsLiveAdapter it drives (pairs_live.py, on top of pairs_engine.py    *)
(* and fills.py), the position check of the SyncEngine thread              *)
(* (sync_engine.py), the control file, the snapshot, and the exchange.     *)
(*                                                                         *)
(* A call to the exchange is a step of its own, and fills, the other       *)
(* thread, the operator and a kill may come between any two steps.  Taken  *)
(* together in one step are a chase with the unwind that follows it, an    *)
(* unwind with the cancel that follows it, and the cancels of both legs.   *)
(* Sizes are whole lots; long is positive.  A pair that is "have" is short *)
(* "have" lots of leg 1 and long as many of leg 2.                         *)
(***************************************************************************)
EXTENDS Integers, FiniteSets

CONSTANTS
    Size,           \* lots of each leg of an entry
    WaitBars,       \* wait_bars
    MaxOrders,      \* bound: maker orders that are open or tracked at a time
    MaxUpsets,      \* bound: restarts, emergency flattens, trips of the breaker and
                    \* errors that leave on_bar, together
    Faults,         \* calls that may fail: "cancel" and "fetch" calls, "lost" answers of
                    \* orders, and a "poll" with an error that is not transient
    Operator,       \* subset of {"pause", "resume", "noNew"}
    Signals,        \* the signs of the strategy's signal that occur
    Sync            \* BOOLEAN: whether the SyncEngine thread runs

ASSUME PairsBounds ==
    /\ Size \in Nat \ {0} /\ WaitBars \in Nat \ {0}
    /\ Signals \subseteq {-1, 0, 1}
    /\ Operator \subseteq {"pause", "resume", "noNew"}
    /\ MaxOrders \in Nat /\ MaxUpsets \in Nat
    /\ Sync \in BOOLEAN

VARIABLES
    ord,        \* ord[o]: maker order o at the exchange
    exPos,      \* exPos[l]: the exchange's position in leg l
    pos,        \* pos[l]: the local position of leg l in PaperAccount
    have,       \* have
    pend,       \* pending: the legs' intents, or NoIntent
    live,       \* _live_pending: the ids of both legs' orders, or <<>>
    waited,     \* bars_waited of the tracked orders
    tripped,    \* dd_breaker.triggered
    rn,         \* the runner: where it is, and what it has read
    fresh,      \* TRUE iff the last closed bar is newer than _last_ts
    snap,       \* the stored snapshot: account, have, pending
    ctl,        \* control.json
    api,        \* the emergency flatten of the API: where it is, what it fetched
    seenPos,    \* the positions the sync thread has fetched, or NoPositions
    upsets      \* upsets so far

vars == <<ord, exPos, pos, have, pend, live, waited, tripped, rn, fresh, snap, ctl, api, seenPos, upsets>>
exchange == <<ord, exPos>>
engine == <<pos, have, pend, live, waited, tripped>>
world == <<snap, ctl, api, seenPos, upsets>>

Legs == {1, 2}
Other(l) == 3 - l
Ids == 1..MaxOrders
Flat == [l \in Legs |-> 0]
NoOrder == [st |-> "none", leg |-> 1, dir |-> 1, size |-> 0, reduce |-> FALSE, filled |-> 0]
NoIntent == [l \in Legs |-> [dir |-> 1, size |-> 0, reduce |-> FALSE]]
NoPositions == <<>>
Trading == [pause |-> FALSE, noNew |-> FALSE, flatten |-> FALSE]
Unused == [pc |-> "idle", got |-> Flat]
At(p) == [pc |-> p, noNew |-> FALSE, flatten |-> FALSE, seen |-> {}, first |-> 0]

Sign(n) == IF n > 0 THEN 1 ELSE IF n < 0 THEN -1 ELSE 0
Abs(n) == n * Sign(n)
Smaller(m, n) == IF m <= n THEN m ELSE n
Positive(n) == IF n > 0 THEN n ELSE 0

Tracked == {live[l] : l \in DOMAIN live} \union {rn.first}
Upset == upsets < MaxUpsets /\ upsets' = upsets + 1
Up == rn.pc \notin {"down", "stopping"}

\* The flags that a fault may set, and the legs whose cancel may fail.
May(fault) == IF fault \in Faults THEN BOOLEAN ELSE {FALSE}

Init ==
    /\ ord = [o \in Ids |-> NoOrder]
    /\ exPos = Flat
    /\ pos = Flat /\ have = 0 /\ pend = NoIntent /\ live = <<>> /\ waited = 0
    /\ tripped = FALSE
    /\ rn = At("start")
    /\ fresh = TRUE
    /\ snap = [pos |-> Flat, have |-> 0, pend |-> NoIntent]
    /\ ctl = Trading
    /\ api = Unused
    /\ seenPos = NoPositions
    /\ upsets = 0

-----------------------------------------------------------------------------
(* The exchange *)

\* How many lots an order in direction d may still take off position p.
Reducible(p, d) == Positive(-d * p)

\* An order that nobody tracks is forgotten when it is done, and its id is
\* free again.
Settled(o, r) == IF r.st # "open" /\ o \notin Tracked THEN NoOrder ELSE r

\* One lot of a maker order fills.
Fill(o) ==
    /\ ord[o].st = "open"
    /\ ord[o].reduce => Reducible(exPos[ord[o].leg], ord[o].dir) > 0
    /\ LET done == ord[o].filled + 1 = ord[o].size
       IN ord' = [ord EXCEPT ![o] = Settled(o, [ord[o] EXCEPT
                        !.filled = @ + 1, !.st = IF done THEN "closed" ELSE "open"])]
    /\ exPos' = [exPos EXCEPT ![ord[o].leg] = @ + ord[o].dir]
    /\ UNCHANGED <<engine, rn, fresh, world>>

\* The exchange drops a post-only order that would have crossed, or an order
\* that reduces a position which is gone.
Expire(o) ==
    /\ ord[o].st = "open" /\ ord[o].filled = 0
    /\ ord' = [ord EXCEPT ![o] = Settled(o, [ord[o] EXCEPT !.st = "canceled"])]
    /\ UNCHANGED <<exPos, engine, rn, fresh, world>>

\* _cancel_live_leg for the orders of a set, of which some calls fail: the
\* error is logged, and the order is forgotten by the caller in any case.
Cancelled(os, failing) ==
    [o \in Ids |->
        IF o \in os
        THEN IF ord[o].st = "open" /\ o \in failing THEN ord[o] ELSE NoOrder
        ELSE ord[o]]

FailingCancels(os) == IF "cancel" \in Faults THEN SUBSET os ELSE {{}}

-----------------------------------------------------------------------------
(* Booking: _apply_fills and _unwind_filled_leg *)

\* Mutant: only the first leg is looked at.
FirstLegRaises == ~ord[live[1]].reduce /\ pos[1] # 0

\* open_position raises ValueError if the leg is open already.  Leg 1 is
\* booked by then if it is leg 2 that is open.
BookingRaises == ~ord[live[1]].reduce /\ \E l \in Legs : pos[l] # 0

BookBoth ==
    IF ord[live[1]].reduce
    THEN pos' = Flat /\ have' = 0
    ELSE /\ pos' = [l \in Legs |-> ord[live[l]].dir * ord[live[l]].size]
         /\ have' = -ord[live[1]].dir

\* What is left of a pair of orders that is dropped without cancelling the
\* orders of "resting", which go on without being tracked.
Drop(resting) ==
    [o \in Ids |-> IF o \in Tracked \ resting THEN NoOrder
                   ELSE IF o \in resting /\ ord[o].st # "open" THEN NoOrder ELSE ord[o]]

NoLive == live' = <<>> /\ pend' = NoIntent /\ waited' = 0

\* KillSwitch: save_control(pause, flatten); "killed:" ends the loop.
Killed ==
    /\ ctl' = [ctl EXCEPT !.pause = TRUE, !.flatten = TRUE]
    /\ rn' = At("stopping")

Goto(p) == rn' = [rn EXCEPT !.pc = p]
EndStep == rn' = At("persist") /\ fresh' = FALSE

\* _apply_live_fills.  If it raises, the orders stay tracked and the bar is not
\* done; otherwise the orders of "resting" go on untracked.
BookOrRaise(resting) ==
    IF BookingRaises
    THEN /\ pos' = IF pos[1] = 0
                   THEN [pos EXCEPT ![1] = ord[live[1]].dir * ord[live[1]].size] ELSE pos
         /\ rn' = At("idle")
         /\ UNCHANGED <<ord, have, pend, live, waited>>
    ELSE BookBoth /\ NoLive /\ Goto("quote") /\ ord' = Drop(resting)

-----------------------------------------------------------------------------
(* start_live *)

HaveOf(p) == -Sign(p[1])

\* Positions that differ are a KillSwitch, unless the local account is empty:
\* then whatever the exchange has is taken over.
StartLive ==
    /\ rn.pc = "start"
    /\ IF exPos = pos THEN Goto("cancelall") /\ UNCHANGED <<pos, have>>
       ELSE IF pos = Flat
       THEN Goto("cancelall") /\ pos' = exPos /\ have' = HaveOf(exPos)
       ELSE rn' = At("down") /\ UNCHANGED <<pos, have>>
    /\ UNCHANGED <<exchange, pend, live, waited, tripped, fresh, world>>

\* cancel_all_orders of both symbols.
CancelAll ==
    /\ rn.pc = "cancelall"
    /\ \E failing \in FailingCancels(Ids) : ord' = Cancelled(Ids, failing)
    /\ rn' = At("idle")
    /\ UNCHANGED <<exPos, engine, fresh, world>>

-----------------------------------------------------------------------------
(* One step of the runner: load_control, reconcile_runtime, on_bar, persist *)

LoadControl ==
    /\ rn.pc = "idle"
    /\ ~ctl.pause
    /\ rn' = [At("reconcile") EXCEPT !.noNew = ctl.noNew, !.flatten = ctl.flatten]
    /\ UNCHANGED <<exchange, engine, fresh, world>>

\* Mutant: only the first leg is compared.
ReconcileFirstLeg ==
    /\ rn.pc = "reconcile"
    /\ IF exPos[1] # pos[1] THEN Killed
       ELSE /\ IF ~fresh THEN rn' = At("idle")
               ELSE Goto(IF live = <<>> THEN "quote" ELSE "poll1")
            /\ UNCHANGED ctl
    /\ UNCHANGED <<exchange, engine, fresh, snap, api, seenPos, upsets>>

\* fetch_positions and the comparison.  Nothing but this thread books.
Reconcile ==
    /\ rn.pc = "reconcile"
    /\ \E unreadable \in May("fetch") :
        IF exPos # pos \/ unreadable THEN Killed
        ELSE /\ IF ~fresh THEN rn' = At("idle")
                ELSE Goto(IF live = <<>> THEN "quote" ELSE "poll1")
             /\ UNCHANGED ctl
    /\ UNCHANGED <<exchange, engine, fresh, snap, api, seenPos, upsets>>

\* _poll_leg.  A transient error counts as not filled.
PollLeg(l, pc, next) ==
    /\ rn.pc = pc
    /\ \E missed \in May("fetch") :
        rn' = [rn EXCEPT !.pc = next,
                         !.seen = IF ord[live[l]].st = "closed" /\ ~missed
                                  THEN @ \union {l} ELSE @]
    /\ UNCHANGED <<exchange, engine, fresh, world>>

PollFirst == PollLeg(1, "poll1", "poll2")
PollSecond == PollLeg(2, "poll2", "resolve")

\* Any other error of fetch_order leaves on_bar: the orders stay tracked, and
\* the bar is neither counted nor done.
PollRaises(pc) ==
    /\ "poll" \in Faults
    /\ rn.pc = pc
    /\ rn' = At("idle")
    /\ UNCHANGED <<exchange, engine, fresh, world>>

BothFilled ==
    /\ rn.pc = "resolve"
    /\ rn.seen = Legs
    /\ BookOrRaise({})
    /\ UNCHANGED <<exPos, tripped, fresh, world>>

\* Mutant: an IOC order that was answered counts as filled.
ChaseUnconfirmed(l) ==
    /\ rn.pc = "resolve"
    /\ rn.seen = {Other(l)}
    /\ LET o == ord[live[l]]
       IN \E n \in 0..o.size :
            /\ o.reduce => Reducible(exPos[l], o.dir) >= n
            /\ exPos' = [exPos EXCEPT ![l] = @ + o.dir * n]
    /\ BookOrRaise({live[l]})
    /\ UNCHANGED <<tripped, fresh, world>>

\* An IOC order for the leg that is not filled.  Its maker order is neither
\* cancelled nor looked at again.
ChaseFills(l) ==
    /\ rn.pc = "resolve"
    /\ rn.seen = {Other(l)}
    /\ LET o == ord[live[l]]
       IN /\ o.reduce => Reducible(exPos[l], o.dir) >= o.size
          /\ exPos' = [exPos EXCEPT ![l] = @ + o.dir * o.size]
    /\ BookOrRaise({live[l]})
    /\ UNCHANGED <<tripped, fresh, world>>

\* _unwind_live_leg: a market order that only reduces.  Whatever fails, be it
\* rejected, without anything to reduce, or without an answer, is a KillSwitch.
Unwind(l, after) ==
    LET o == ord[live[l]]
        n == Smaller(o.size, Reducible(after[l], -o.dir))
        closed == [after EXCEPT ![l] = @ - o.dir * n]
    IN \/ /\ \E taken \in May("lost") : exPos' = IF taken THEN closed ELSE after
          /\ Killed
          /\ UNCHANGED <<ord, pos, have, pend, live, waited>>
       \/ /\ n > 0
          /\ exPos' = closed
          /\ IF pos[l] # 0 THEN pos' = [pos EXCEPT ![l] = 0] /\ have' = 0
             ELSE UNCHANGED <<pos, have>>
          /\ NoLive /\ Goto("quote") /\ UNCHANGED ctl

\* The IOC order fills in part or not at all, or its answer is lost: what it
\* did fill is not booked, and the filled leg is closed again.
ChaseFails(l) ==
    /\ rn.pc = "resolve"
    /\ rn.seen = {Other(l)}
    /\ LET o == ord[live[l]]
           most == IF o.reduce THEN Smaller(o.size, Reducible(exPos[l], o.dir)) ELSE o.size
       IN \E n \in 0..most :
            /\ n = o.size => "lost" \in Faults
            /\ Unwind(Other(l), [exPos EXCEPT ![l] = @ + o.dir * n])
    /\ ord' = IF rn'.pc = "stopping" THEN ord ELSE Drop({live[l]})
    /\ UNCHANGED <<tripped, fresh, snap, api, seenPos, upsets>>

\* The price has run away: close the filled leg, cancel the other one.
UnwindLeg(l) ==
    /\ rn.pc = "resolve"
    /\ rn.seen = {l}
    /\ Unwind(l, exPos)
    /\ IF rn'.pc = "stopping" THEN ord' = ord
       ELSE \E failing \in FailingCancels({live[Other(l)]}) :
                ord' = Cancelled({live[1], live[2]}, failing)
    /\ UNCHANGED <<tripped, fresh, snap, api, seenPos, upsets>>

\* Mutants: one bar too many; the bars are not counted.
NeitherFilledLate ==
    /\ rn.pc = "resolve"
    /\ rn.seen = {}
    /\ Goto("quote")
    /\ IF waited + 1 > WaitBars
       THEN ord' = Cancelled({live[1], live[2]}, {}) /\ NoLive
       ELSE waited' = waited + 1 /\ UNCHANGED <<ord, live, pend>>
    /\ UNCHANGED <<exPos, pos, have, tripped, fresh, world>>

NeitherFilledUncounted ==
    /\ rn.pc = "resolve"
    /\ rn.seen = {}
    /\ Goto("quote")
    /\ UNCHANGED <<exchange, engine, fresh, world>>

NeitherFilled ==
    /\ rn.pc = "resolve"
    /\ rn.seen = {}
    /\ Goto("quote")
    /\ IF waited + 1 >= WaitBars
       THEN /\ \E failing \in FailingCancels({live[1], live[2]}) :
                    ord' = Cancelled({live[1], live[2]}, failing)
            /\ NoLive
       ELSE waited' = waited + 1 /\ UNCHANGED <<ord, live, pend>>
    /\ UNCHANGED <<exPos, pos, have, tripped, fresh, world>>

-----------------------------------------------------------------------------
(* The second half of on_bar: the breaker, then _quote *)

Hold ==
    /\ EndStep
    /\ UNCHANGED <<pend, have>>

EntryIntent(w) == [l \in Legs |-> [dir |-> IF l = 1 THEN -w ELSE w, size |-> Size, reduce |-> FALSE]]
ExitIntent == [l \in Legs |-> [dir |-> -Sign(pos[l]), size |-> Abs(pos[l]), reduce |-> TRUE]]

\* An exit needs both legs.  With one of them missing the pair is taken for flat.
QuoteExit ==
    IF \E l \in Legs : pos[l] = 0
    THEN have' = 0 /\ EndStep /\ UNCHANGED pend
    ELSE pend' = ExitIntent /\ Goto("place1") /\ UNCHANGED <<have, fresh>>

\* A reversal closes first.  The other gates of _can_open are a free choice.
Quote(w) ==
    IF w = have THEN Hold
    ELSE IF w # 0 /\ have = 0
    THEN \/ Hold
         \/ ~rn.noNew /\ pend' = EntryIntent(w) /\ Goto("place1") /\ UNCHANGED <<have, fresh>>
    ELSE QuoteExit

Signal ==
    /\ rn.pc = "quote"
    /\ ~tripped
    /\ IF pend # NoIntent THEN Hold
       ELSE \E w \in (IF rn.flatten THEN {0} ELSE Signals) : Quote(w)
    /\ UNCHANGED <<exchange, pos, live, waited, tripped, world>>

\* dd_breaker.check: sticky until the process ends.
BreakerHalts ==
    /\ rn.pc = "quote"
    /\ IF tripped THEN UNCHANGED upsets ELSE Upset
    /\ tripped' = TRUE
    /\ IF pend # NoIntent
       THEN /\ \E failing \in FailingCancels(Tracked \ {0}) :
                    ord' = Cancelled(Tracked \ {0}, failing)
            /\ NoLive /\ EndStep /\ UNCHANGED have
       ELSE /\ IF have # 0 THEN QuoteExit ELSE Hold
            /\ UNCHANGED <<ord, live, waited>>
    /\ UNCHANGED <<exPos, pos, snap, ctl, api, seenPos>>

-----------------------------------------------------------------------------
(* _place_legs *)

Free == {o \in Ids : ord[o].st = "none"}
Next1 == CHOOSE o \in Free : TRUE
NewOrder(l) == [st |-> "open", leg |-> l, dir |-> pend[l].dir, size |-> pend[l].size,
                reduce |-> pend[l].reduce, filled |-> 0]

Placed(l, pc) ==
    /\ rn.pc = pc
    /\ Free # {}
    /\ ord' = [ord EXCEPT ![Next1] = NewOrder(l)]

PlaceFirst ==
    /\ Placed(1, "place1")
    /\ rn' = [rn EXCEPT !.pc = "place2", !.first = Next1]
    /\ UNCHANGED <<exPos, engine, fresh, world>>

PlaceSecond ==
    /\ Placed(2, "place2")
    /\ live' = <<rn.first, Next1>>
    /\ waited' = 0
    /\ EndStep
    /\ UNCHANGED <<exPos, pos, have, pend, tripped, world>>

\* The order is rejected, or the exchange took it and its answer is lost: for
\* the adapter both are "not placed".  A first leg is cancelled again.
PlaceFails(l, pc) ==
    /\ rn.pc = pc
    /\ \E taken \in May("lost"), failing \in FailingCancels({rn.first}) :
        LET rest == IF l = 2 THEN Cancelled({rn.first}, failing) ELSE ord
        IN IF taken THEN Free # {} /\ ord' = [rest EXCEPT ![Next1] = NewOrder(l)]
           ELSE ord' = rest
    /\ pend' = NoIntent
    /\ EndStep
    /\ UNCHANGED <<exPos, pos, have, live, waited, tripped, world>>

\* An error that is not transient leaves on_bar: the intents stay, no order is
\* tracked, and the bar is not done.
PlaceRaises(pc) ==
    /\ rn.pc = pc
    /\ Upset
    /\ rn' = At("idle")
    /\ ord' = [o \in Ids |-> IF o = rn.first /\ ord[o].st # "open" THEN NoOrder ELSE ord[o]]
    /\ UNCHANGED <<exPos, engine, fresh, snap, ctl, api, seenPos>>

Persist ==
    /\ rn.pc = "persist"
    /\ snap' = [pos |-> pos, have |-> have, pend |-> pend]
    /\ rn' = At("idle")
    /\ UNCHANGED <<exchange, engine, fresh, ctl, api, seenPos, upsets>>

-----------------------------------------------------------------------------
(* The end of the loop, the other thread, the operator, restarts *)

\* on_stop: the sync thread ends, tracked orders are cancelled; then save.
Stop ==
    /\ rn.pc = "stopping"
    /\ \E failing \in FailingCancels(Tracked \ {0}) : ord' = Cancelled(Tracked \ {0}, failing)
    /\ NoLive
    /\ snap' = [pos |-> pos, have |-> have, pend |-> NoIntent]
    /\ rn' = At("down")
    /\ seenPos' = NoPositions
    /\ UNCHANGED <<exPos, pos, have, tripped, fresh, ctl, api, upsets>>

\* SIGTERM is noticed between two steps.
Shutdown ==
    /\ rn.pc = "idle"
    /\ upsets < MaxUpsets
    /\ rn' = At("stopping")
    /\ UNCHANGED <<exchange, engine, fresh, world>>

\* The process is killed.  A bar that was done but not stored is not done.
Crash ==
    /\ upsets < MaxUpsets
    /\ rn.pc # "down"
    /\ fresh' = (fresh \/ rn.pc = "persist")
    /\ rn' = At("down")
    /\ live' = <<>> /\ waited' = 0 /\ pend' = NoIntent
    /\ ord' = [o \in Ids |-> IF ord[o].st = "open" THEN ord[o] ELSE NoOrder]
    /\ seenPos' = NoPositions
    /\ UNCHANGED <<exPos, pos, have, tripped, snap, ctl, api, upsets>>

\* A new process restores the snapshot.  The breaker's state is not in it.
Restart ==
    /\ rn.pc = "down"
    /\ Upset
    /\ pos' = snap.pos /\ have' = snap.have /\ pend' = snap.pend
    /\ tripped' = FALSE
    /\ rn' = At("start")
    /\ UNCHANGED <<exchange, live, waited, fresh, snap, ctl, api, seenPos>>

NewBar ==
    /\ rn.pc = "idle"
    /\ ~fresh
    /\ fresh' = TRUE
    /\ UNCHANGED <<exchange, engine, rn, world>>

Started == Up /\ rn.pc \notin {"start", "cancelall"}

\* sync_positions: fetch, then compare with the account of the other thread.
SyncFetch ==
    /\ Sync /\ Started
    /\ seenPos = NoPositions
    /\ seenPos' = exPos
    /\ UNCHANGED <<exchange, engine, rn, fresh, snap, ctl, api, upsets>>

SyncCompare ==
    /\ seenPos # NoPositions /\ Started
    /\ seenPos' = NoPositions
    /\ ctl' = IF seenPos = pos THEN ctl ELSE [ctl EXCEPT !.pause = TRUE, !.flatten = TRUE]
    /\ UNCHANGED <<exchange, engine, rn, fresh, snap, api, upsets>>

\* The buttons of the dashboard and the control route of the API.
After(op) ==
    CASE op = "pause" -> [ctl EXCEPT !.pause = TRUE]
      [] op = "noNew" -> [ctl EXCEPT !.noNew = TRUE]
      [] op = "resume" -> Trading

Operate ==
    /\ \E op \in Operator : ctl' = After(op) /\ ctl' # ctl
    /\ Upset
    /\ UNCHANGED <<exchange, engine, rn, fresh, snap, api, seenPos>>

\* emergency_flatten: the control file, cancel_all_orders, fetch_positions, and
\* a market order that only reduces for each position fetched.
ApiFlatten ==
    /\ api.pc = "idle"
    /\ Upset
    /\ ctl' = [ctl EXCEPT !.pause = TRUE, !.flatten = TRUE]
    /\ api' = [api EXCEPT !.pc = "cancel"]
    /\ UNCHANGED <<exchange, engine, rn, fresh, snap, seenPos>>

ApiCancelAll ==
    /\ api.pc = "cancel"
    /\ ord' = [o \in Ids |->
                    IF ord[o].st = "open" THEN Settled(o, [ord[o] EXCEPT !.st = "canceled"]) ELSE ord[o]]
    /\ api' = [api EXCEPT !.pc = "fetch"]
    /\ UNCHANGED <<exPos, engine, rn, fresh, snap, ctl, seenPos, upsets>>

ApiFetch ==
    /\ api.pc = "fetch"
    /\ api' = [pc |-> "close", got |-> exPos]
    /\ UNCHANGED <<exchange, engine, rn, fresh, snap, ctl, seenPos, upsets>>

ApiClose(l) ==
    /\ api.pc = "close"
    /\ api.got[l] # 0
    /\ l = 1 \/ api.got[1] = 0
    /\ LET d == -Sign(api.got[l])
       IN exPos' = [exPos EXCEPT ![l] = @ + d * Smaller(Abs(api.got[l]), Reducible(exPos[l], d))]
    /\ api' = [api EXCEPT !.got[l] = 0]
    /\ UNCHANGED <<ord, engine, rn, fresh, snap, ctl, seenPos, upsets>>

ApiDone ==
    /\ api.pc = "close"
    /\ api.got = Flat
    /\ api' = [api EXCEPT !.pc = "done"]
    /\ UNCHANGED <<exchange, engine, rn, fresh, snap, ctl, seenPos, upsets>>

-----------------------------------------------------------------------------
RunnerStep ==
    \/ StartLive \/ CancelAll \/ LoadControl \/ Reconcile
    \/ PollFirst \/ PollSecond \/ PollRaises("poll1") \/ PollRaises("poll2")
    \/ BothFilled \/ NeitherFilled
    \/ \E l \in Legs : ChaseFills(l) \/ ChaseFails(l) \/ UnwindLeg(l)
    \/ Signal \/ BreakerHalts
    \/ PlaceFirst \/ PlaceSecond
    \/ PlaceFails(1, "place1") \/ PlaceFails(2, "place2")
    \/ PlaceRaises("place1") \/ PlaceRaises("place2")
    \/ Persist \/ Stop

Next ==
    \/ \E o \in Ids : Fill(o) \/ Expire(o)
    \/ RunnerStep \/ Shutdown \/ Crash \/ Restart \/ NewBar
    \/ SyncFetch \/ SyncCompare \/ Operate
    \/ ApiFlatten \/ ApiCancelAll \/ ApiFetch \/ (\E l \in Legs : ApiClose(l)) \/ ApiDone

Spec == Init /\ [][Next]_vars

\* The loop runs, bars close, and a poll that is repeated does not raise for
\* ever.
FairSpec ==
    /\ Spec
    /\ WF_vars(RunnerStep) /\ SF_vars(NewBar)
    /\ SF_vars(PollFirst) /\ SF_vars(PollSecond)

-----------------------------------------------------------------------------
(* Properties *)

Order == [st : {"none", "open", "closed", "canceled"}, leg : Legs, dir : {-1, 1},
          size : Nat, reduce : BOOLEAN, filled : Nat]

TypeOK ==
    /\ ord \in [Ids -> Order]
    /\ exPos \in [Legs -> Int] /\ pos \in [Legs -> Int]
    /\ have \in {-1, 0, 1}
    /\ live = <<>> \/ live \in Ids \X Ids
    /\ waited \in 0..(WaitBars - 1)
    /\ tripped \in BOOLEAN /\ fresh \in BOOLEAN
    /\ rn.seen \subseteq Legs /\ rn.first \in Ids \union {0}
    /\ upsets \in 0..MaxUpsets

\* A pair that the engine takes for open has its first leg in the account, on
\* the right side, whatever was chased, unwound, adopted or restored before.
\* PairBook implies it: the runs check it as a part of ImplementsBook.
HaveMeansLeg == have # 0 => Sign(pos[1]) = -have

\* What _chase_leg_taker promises ("never paper on live"): a pair is booked as
\* open only when each leg's order has filled in full, be it the maker order or
\* the IOC order that chases it.
FilledIn(l) ==
    \/ ord[live[l]].filled = ord[live[l]].size
    \/ exPos'[l] = exPos[l] + ord[live[l]].dir * ord[live[l]].size

NeverPaperOnLive ==
    [][rn.pc = "resolve" /\ have' # have => have' = 0 \/ \A l \in Legs : FilledIn(l)]_vars

\* The legs and the belief change only as PairBook allows, whichever orders
\* fill, fail, stay behind or are placed twice: a pair is opened and closed as
\* a whole, and out of a book that is empty.
Book == INSTANCE PairBook WITH held <- exPos, book <- [pos |-> pos, have |-> have],
                               saved <- [pos |-> snap.pos, have |-> snap.have]
ImplementsBook == Book!BookSpec

\* A difference between the exchange and the account, whichever race, lost
\* answer or stray order it comes from, is resolved by a booking, or ends the
\* loop, unless the operator has paused it.
DriftIsSettled == (exPos # pos /\ Started) ~> (exPos = pos \/ ~Up \/ ctl.pause)

\* Tracked orders are booked, unwound or cancelled in the end.  Excepted is the
\* engine that holds legs it does not believe in: there each booking raises.
OrdersDoNotRest ==
    (live # <<>>) ~> (live = <<>> \/ ctl.pause \/ (have = 0 /\ pos # Flat))
=============================================================================
