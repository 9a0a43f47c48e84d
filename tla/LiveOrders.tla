----------------------------- MODULE LiveOrders -----------------------------
(***************************************************************************)
(* The maker orders of one LiveTrader (live/trader.py, trader_loop.py,     *)
(* pending_orders.py, reconcile.py, intent_store.py): the trader thread    *)
(* that runs one cycle after another, the thread of the user data stream,  *)
(* and the exchange.                                                       *)
(*                                                                         *)
(* PendingOrderManager's lock is held through one order's part of a poll,  *)
(* through one execute and through one stream event, calls to the exchange *)
(* included, so each of these is one step.  Between two of them anything   *)
(* may happen, and what the trader has read by then is in its own record.  *)
(*                                                                         *)
(* Sizes are whole lots, buying is +1 and selling -1.                      *)
(***************************************************************************)
EXTENDS Integers, FiniteSets, Sequences

CONSTANTS
    MaxOrders,      \* bound: client order ids ever taken
    Size,           \* lots of an opening order
    MaxBars,        \* bound: bars
    Policy,         \* partial_fill_policy
    Faults,         \* subset of {"cancel", "submit", "fetch", "stream"}
    MaxRestarts,    \* bound: times that the process is killed and started again
    Breaker         \* BOOLEAN: whether the drawdown breaker may trip

ASSUME LiveBounds ==
    /\ MaxOrders \in Nat /\ Size \in Nat \ {0} /\ MaxBars \in Nat \ {0} /\ MaxRestarts \in Nat
    /\ Policy \in {"cancel", "wait"} /\ Breaker \in BOOLEAN

VARIABLES
    ord,        \* ord[o]: the order with client order id o, as the exchange has it
    exPos,      \* the exchange's position in the symbol
    told,       \* told[o]: stream events of o that were delivered or lost
    pending,    \* client order ids in pending_orders
    booked,     \* booked[o]: booked_qty
    pos,        \* the local position in PaperAccount
    intents,    \* intent_coids: records of a key and the client order id kept for it
    nextCoid,   \* the next client order id of next_client_order_id
    bar,        \* the current bar
    tr,         \* the trader thread
    tripped,    \* dd_breaker.triggered
    restarts    \* restarts so far

exchange == <<ord, exPos>>
journal == <<pending, booked, pos>>
vars == <<ord, exPos, told, pending, booked, pos, intents, nextCoid, bar, tr, tripped, restarts>>

Coids == 1..MaxOrders
Bars == 1..MaxBars
Dirs == {-1, 1}

NoOrder == [st |-> "none", dir |-> 1, kind |-> "open", size |-> 0, bar |-> 0, filled |-> 0]

(***************************************************************************)
(* A cycle: idle -> poll (-> apply -> poll)* -> positions -> compare ->    *)
(* decide -> execute* -> idle.  KillSwitch ends in halted.                 *)
(***************************************************************************)
NoReport == [st |-> "none", filled |-> 0]
Resting == [pc |-> "idle", todo |-> {}, o |-> 0, got |-> NoReport, seen |-> 0, plan |-> <<>>]

Init ==
    /\ ord = [o \in Coids |-> NoOrder]
    /\ exPos = 0
    /\ told = [o \in Coids |-> 0]
    /\ pending = {}
    /\ booked = [o \in Coids |-> 0]
    /\ pos = 0
    /\ intents = {}
    /\ nextCoid = 1
    /\ bar = 1
    /\ tr = Resting
    /\ tripped = FALSE
    /\ restarts = 0

Sign(n) == IF n > 0 THEN 1 ELSE IF n < 0 THEN -1 ELSE 0
Abs(n) == n * Sign(n)
Smaller(m, n) == IF m <= n THEN m ELSE n

-----------------------------------------------------------------------------
(* Booking *)

\* _book_fill_delta: lots of the cumulative quantity that are not booked yet.
Delta(o, cum) == Smaller(cum, ord[o].size) - booked[o]

\* close_position raises ValueError for more lots than the position has.
BookingRaises(o, cum) ==
    /\ Delta(o, cum) > 0
    /\ ord[o].kind = "close" /\ pos # 0 /\ Delta(o, cum) > Abs(pos)

\* _book_pending_fill: an opening fill against an opposite position is logged
\* and skipped, and so is a closing fill without a position; booked_qty grows
\* all the same.
Moves(o) ==
    IF ord[o].kind = "open" THEN Sign(pos) \in {0, ord[o].dir} ELSE pos # 0

Book(o, cum) ==
    IF Delta(o, cum) > 0
    THEN /\ booked' = [booked EXCEPT ![o] = @ + Delta(o, cum)]
         /\ pos' = IF ~Moves(o) THEN pos
                   ELSE IF ord[o].kind = "open"
                   THEN pos + ord[o].dir * Delta(o, cum)
                   ELSE pos - Sign(pos) * Delta(o, cum)
    ELSE UNCHANGED <<booked, pos>>

-----------------------------------------------------------------------------
(* The exchange *)

\* An order that reduces only fills against the position.  One lot at a time.
Fill(o) ==
    /\ ord[o].st = "open"
    /\ ord[o].kind = "close" => ord[o].dir * exPos < 0
    /\ ord' = [ord EXCEPT ![o].filled = @ + 1,
                          ![o].st = IF ord[o].filled + 1 = ord[o].size THEN "closed" ELSE "open"]
    /\ exPos' = exPos + ord[o].dir
    /\ UNCHANGED <<told, journal, intents, nextCoid, bar, tr, tripped, restarts>>

\* The exchange drops an order: a post-only order that would cross, a reducing
\* order with nothing left to reduce, maintenance.
Expire(o) ==
    /\ ord[o].st = "open"
    /\ ord' = [ord EXCEPT ![o].st = "canceled"]
    /\ UNCHANGED <<exPos, told, journal, intents, nextCoid, bar, tr, tripped, restarts>>

\* The cancel call, whose errors every caller swallows: orders after it.
Cancelled(o) ==
    IF ord[o].st = "open"
    THEN {[ord EXCEPT ![o].st = "canceled"]} \cup (IF "cancel" \in Faults THEN {ord} ELSE {})
    ELSE {ord}

-----------------------------------------------------------------------------
(* The user data stream *)

\* Events of o, in order: one per lot, the last lot's with status FILLED, then
\* the end of an order that was not filled.
Events(o) == ord[o].filled + (IF ord[o].st = "canceled" THEN 1 ELSE 0)

\* on_ws_order_trade, while the trader does not hold the lock
StreamEvent(o) ==
    /\ tr.pc # "answer"
    /\ told[o] < Events(o)
    /\ told' = [told EXCEPT ![o] = @ + 1]
    /\ LET n == told[o] + 1
       IN  CASE o \notin pending -> UNCHANGED journal
             [] o \in pending /\ n > ord[o].filled ->
                    pending' = pending \ {o} /\ UNCHANGED <<booked, pos>>
             [] o \in pending /\ n <= ord[o].filled /\ BookingRaises(o, n) -> UNCHANGED journal
             [] OTHER ->
                    /\ Book(o, n)
                    /\ pending' = IF n = ord[o].size THEN pending \ {o} ELSE pending
    /\ UNCHANGED <<exchange, intents, nextCoid, bar, tr, tripped, restarts>>

StreamLoss(o) ==
    /\ "stream" \in Faults
    /\ told[o] < Events(o)
    /\ told' = [told EXCEPT ![o] = @ + 1]
    /\ UNCHANGED <<exchange, journal, intents, nextCoid, bar, tr, tripped, restarts>>

-----------------------------------------------------------------------------
(* The trader: poll and reconcile *)

\* run_trader_once, unless it is paused; poll returns at once when nothing is pending.
StartCycle ==
    /\ tr.pc = "idle"
    /\ tr' = [tr EXCEPT !.pc = "poll", !.todo = pending]
    /\ UNCHANGED <<exchange, told, journal, intents, nextCoid, bar, tripped, restarts>>

\* fetch_order, without the lock.
PollFetch(o) ==
    /\ tr.pc = "poll" /\ o \in tr.todo
    /\ tr' = [tr EXCEPT !.pc = "apply", !.o = o, !.todo = @ \ {o},
                        !.got = [st |-> ord[o].st, filled |-> ord[o].filled]]
    /\ UNCHANGED <<exchange, told, journal, intents, nextCoid, bar, tripped, restarts>>

\* A network error skips the order, any other error ends the cycle.
PollFetchFails(o) ==
    /\ "fetch" \in Faults
    /\ tr.pc = "poll" /\ o \in tr.todo
    /\ tr' \in {[tr EXCEPT !.todo = @ \ {o}], Resting}
    /\ UNCHANGED <<exchange, told, journal, intents, nextCoid, bar, tripped, restarts>>

\* Older than maker_fill_wait_bars bars by the clock: a free choice once the
\* bar of the submission is over.
Late(o) == IF bar > ord[o].bar THEN BOOLEAN ELSE {FALSE}

NextInPoll == tr' = [tr EXCEPT !.pc = "poll", !.o = 0, !.got = NoReport]

\* What poll makes of the report: all lots filled; some, and the policy is to
\* cancel or the order is late; some, and it waits; dead; late; nothing new.
Drop(o) == pending' = pending \ {o}
\* Faulty variant: every order that is not open any more counts as filled.
ApplyClosedAsFilled(o) ==
    /\ tr.got.st # "open" \/ tr.got.filled >= ord[o].size
    /\ Book(o, ord[o].size) /\ Drop(o)
    /\ UNCHANGED ord
ApplyFilled(o) ==
    /\ tr.got.st = "closed" \/ tr.got.filled >= ord[o].size
    /\ Book(o, ord[o].size) /\ Drop(o)
    /\ UNCHANGED ord
ApplyPartial(o, late) ==
    /\ tr.got.st # "closed" /\ tr.got.filled \in 1..(ord[o].size - 1)
    /\ Book(o, tr.got.filled)
    /\ IF Policy = "wait" /\ ~late
       THEN UNCHANGED <<pending, ord>>
       ELSE Drop(o) /\ ord' \in Cancelled(o)
ApplyUnfilled(o, late) ==
    /\ tr.got.st # "closed" /\ tr.got.filled = 0
    /\ UNCHANGED <<booked, pos>>
    /\ CASE tr.got.st = "canceled" -> Drop(o) /\ UNCHANGED ord
         [] tr.got.st # "canceled" /\ late -> Drop(o) /\ ord' \in Cancelled(o)
         [] OTHER -> UNCHANGED <<pending, ord>>

PollApply ==
    /\ tr.pc = "apply"
    /\ LET o == tr.o
           cum == IF tr.got.st = "closed" THEN ord[o].size ELSE tr.got.filled
       IN  CASE o \notin pending -> NextInPoll /\ UNCHANGED <<journal, ord>>
             [] o \in pending /\ BookingRaises(o, cum) -> tr' = Resting /\ UNCHANGED <<journal, ord>>
             [] OTHER ->
                    /\ NextInPoll
                    /\ \/ ApplyFilled(o)
                       \/ \E late \in Late(o) : ApplyPartial(o, late) \/ ApplyUnfilled(o, late)
    /\ UNCHANGED <<exPos, told, intents, nextCoid, bar, tripped, restarts>>

\* reconcile_exchange_state: fetch_positions ...
FetchPositions ==
    /\ tr.pc = "poll" /\ tr.todo = {}
    /\ tr' = [tr EXCEPT !.pc = "compare", !.seen = exPos]
    /\ UNCHANGED <<exchange, told, journal, intents, nextCoid, bar, tripped, restarts>>

FetchPositionsFails ==
    /\ "fetch" \in Faults
    /\ tr.pc = "poll" /\ tr.todo = {}
    /\ tr' = Resting
    /\ UNCHANGED <<exchange, told, journal, intents, nextCoid, bar, tripped, restarts>>

\* Faulty variant: only local positions are looked up at the exchange.
LocalMatches(seen) == pos = 0 \/ seen = pos

\* ... and reconcile_positions: side and size agree, in both directions.
Matches(seen) == seen = pos

Compare ==
    /\ tr.pc = "compare"
    /\ tr' = [tr EXCEPT !.pc = IF Matches(tr.seen) THEN "decide" ELSE "halted", !.seen = 0]
    /\ UNCHANGED <<exchange, told, journal, intents, nextCoid, bar, tripped, restarts>>

-----------------------------------------------------------------------------
(* The trader: decide and execute *)

Close == [act |-> "close", dir |-> 0]
Open(d) == [act |-> "open", dir |-> d]
Hold == [act |-> "hold", dir |-> 0]

\* Whatever blocks new entries (control file, HMM gate, risk_check) blocks
\* openings and nothing else.
Entries(d) == {<<Open(d)>>, <<>>}
Exits == IF pos # 0 THEN {<<Close>>} ELSE {<<>>}

\* execute_signal: calls of execute for a signal, the breaker and the position.
Plans(want, broken) ==
    CASE broken -> Exits
      [] ~broken /\ want = 0 -> IF pos # 0 THEN Exits ELSE {<<Hold>>}
      [] ~broken /\ want # 0 /\ want = Sign(pos) -> {<<Hold>>}
      [] OTHER -> {x \o e : x \in Exits, e \in Entries(want)}

Decide ==
    /\ tr.pc = "decide"
    /\ tripped' \in {tripped, tripped \/ Breaker}
    /\ \E want \in {-1, 0, 1} : \E plan \in Plans(want, tripped') :
        tr' = [tr EXCEPT !.pc = "execute", !.plan = plan]
    /\ UNCHANGED <<exchange, told, journal, intents, nextCoid, bar, restarts>>

\* No closed bar yet, or the strategy raises.
NoDecision ==
    /\ tr.pc = "decide"
    /\ tr' = Resting
    /\ UNCHANGED <<exchange, told, journal, intents, nextCoid, bar, tripped, restarts>>

\* The next call of execute, or the end of the cycle.
Executed ==
    tr' = IF Len(tr.plan) = 1 THEN Resting
          ELSE [tr EXCEPT !.pc = "execute", !.o = 0, !.plan = Tail(@)]

NothingToExecute ==
    /\ tr.pc = "execute" /\ tr.plan = <<>>
    /\ tr' = Resting
    /\ UNCHANGED <<exchange, told, journal, intents, nextCoid, bar, tripped, restarts>>

(***************************************************************************)
(* _submit_order of n lots after a cancel that left the orders in `book'   *)
(* and the journal in `rest'.  The client order id is the one kept for     *)
(* this side, kind and bar, or a new one.                                  *)
(***************************************************************************)
Kept(dir, kind, b) == {i \in intents : i.dir = dir /\ i.kind = kind /\ i.bar = b}
Keep(dir, kind, b, o) ==
    intents' = intents \cup {[dir |-> dir, kind |-> kind, bar |-> b, o |-> o]}

TakeCoid(dir, kind, o) ==
    IF Kept(dir, kind, bar) # {}
    THEN o \in {i.o : i \in Kept(dir, kind, bar)} /\ UNCHANGED nextCoid
    ELSE o = nextCoid /\ o \in Coids /\ nextCoid' = nextCoid + 1

\* sanitize_order fails or rejects the order: nothing is sent.
NotSent(book, rest) ==
    /\ ord' = book /\ pending' = rest
    /\ Executed
    /\ UNCHANGED <<intents, nextCoid>>

\* The exchange accepts the order; the trader waits for the answer.
Accept(book, rest, dir, kind, n) ==
    \E o \in Coids :
        /\ TakeCoid(dir, kind, o) /\ book[o].st = "none"
        /\ ord' = [book EXCEPT ![o] = [st |-> "open", dir |-> dir, kind |-> kind,
                                       size |-> n, bar |-> bar, filled |-> 0]]
        /\ pending' = rest
        /\ tr' = [tr EXCEPT !.pc = "answer", !.o = o]
        /\ UNCHANGED intents

\* Faulty variant: the order is in the journal before the exchange has it.
RejectRegistered(book, rest, dir, kind) ==
    /\ "submit" \in Faults
    /\ \E o \in Coids :
        /\ TakeCoid(dir, kind, o) /\ book[o].st = "none"
        /\ Keep(dir, kind, bar, o)
        /\ pending' = rest \cup {o}
    /\ ord' = book
    /\ Executed

\* The exchange does not get or rejects the order: the intent is kept.
Reject(book, rest, dir, kind) ==
    /\ "submit" \in Faults
    /\ \E o \in Coids :
        /\ TakeCoid(dir, kind, o) /\ book[o].st = "none"
        /\ Keep(dir, kind, bar, o)
    /\ ord' = book /\ pending' = rest
    /\ Executed

\* DuplicateOrderId: _recover_duplicate_intent registers the order if it is
\* among the open ones.  If not, or if fetch_open_orders fails, the intent is
\* kept.
Duplicate(book, rest, dir, kind) ==
    /\ \E o \in Coids :
        /\ TakeCoid(dir, kind, o) /\ book[o].st # "none"
        /\ \/ /\ book[o].st = "open"
              /\ pending' = rest \cup {o}
              /\ intents' = intents \ Kept(dir, kind, bar)
           \/ /\ book[o].st # "open" \/ "fetch" \in Faults
              /\ pending' = rest
              /\ UNCHANGED intents
    /\ ord' = book
    /\ Executed

Submit(book, rest, dir, kind, n) ==
    \/ NotSent(book, rest)
    \/ Accept(book, rest, dir, kind, n)
    \/ Reject(book, rest, dir, kind)
    \/ Duplicate(book, rest, dir, kind)

\* The answer arrives and the order is registered, or it is lost and the
\* intent kept.
Answer ==
    /\ tr.pc = "answer"
    /\ LET o == tr.o
           dir == ord[o].dir
           kind == ord[o].kind
       IN  \/ /\ pending' = pending \cup {o}
              /\ intents' = intents \ Kept(dir, kind, ord[o].bar)
           \/ /\ "submit" \in Faults
              /\ UNCHANGED pending
              /\ Keep(dir, kind, ord[o].bar, o)
    /\ Executed
    /\ UNCHANGED <<exchange, told, booked, pos, nextCoid, bar, tripped, restarts>>

\* find_for_symbol returns an order of pending_orders, if there is one.
CancelPending(o) ==
    /\ ord' \in Cancelled(o) /\ pending' = pending \ {o}
    /\ Executed
    /\ UNCHANGED <<intents, nextCoid>>
Leave == Executed /\ UNCHANGED <<ord, pending, intents, nextCoid>>

\* _execute_live_maker, under the lock
ExecuteHold ==
    \/ /\ pending = {}
       /\ Leave
    \/ \E o \in pending :
        IF ord[o].kind = "open" \/ pos # 0 THEN CancelPending(o) ELSE Leave

ExecuteClose ==
    \/ \E o \in pending : IF ord[o].kind = "open" THEN CancelPending(o) ELSE Leave
    \/ /\ pending = {} /\ pos = 0
       /\ Leave
    \/ /\ pending = {} /\ pos # 0
       /\ Submit(ord, pending, -Sign(pos), "close", Abs(pos))

\* Faulty variant: an opening order is sent whatever is pending.
OpenBesidePending(d) ==
    IF pos # 0 THEN Leave ELSE Submit(ord, pending, d, "open", Size)

ExecuteOpen(d) ==
    \/ /\ pos # 0
       /\ Leave
    \/ /\ pos = 0 /\ pending = {}
       /\ Submit(ord, pending, d, "open", Size)
    \/ /\ pos = 0
       /\ \E o \in pending :
            IF ord[o].kind = "close" \/ ord[o].dir = d
            THEN Leave
            ELSE \E book \in Cancelled(o) : Submit(book, pending \ {o}, d, "open", Size)

Execute ==
    /\ tr.pc = "execute" /\ tr.plan # <<>>
    /\ LET a == Head(tr.plan)
       IN  \/ a.act = "hold" /\ ExecuteHold
           \/ a.act = "close" /\ ExecuteClose
           \/ a.act = "open" /\ ExecuteOpen(a.dir)
    /\ UNCHANGED <<exPos, told, booked, pos, bar, tripped, restarts>>

-----------------------------------------------------------------------------
(* The process and time *)

\* The process is killed and started again: a new account and journal; only
\* the intents file survives.
Restart ==
    /\ restarts < MaxRestarts
    /\ restarts' = restarts + 1
    /\ pending' = {} /\ pos' = 0
    /\ booked' = [o \in Coids |-> 0]
    /\ tr' = Resting
    /\ tripped' = FALSE
    /\ UNCHANGED <<exchange, told, intents, nextCoid, bar>>

NewBar ==
    /\ bar < MaxBars
    /\ bar' = bar + 1
    /\ UNCHANGED <<exchange, told, journal, intents, nextCoid, tr, tripped, restarts>>

-----------------------------------------------------------------------------
Trader ==
    \/ StartCycle \/ FetchPositions \/ FetchPositionsFails \/ Compare
    \/ \E o \in Coids : PollFetch(o) \/ PollFetchFails(o)
    \/ PollApply \/ Decide \/ NoDecision \/ NothingToExecute \/ Execute \/ Answer

Stream == \E o \in Coids : StreamEvent(o) \/ StreamLoss(o)

Environment ==
    \/ \E o \in Coids : Fill(o) \/ Expire(o)
    \/ Restart \/ NewBar

Next == Trader \/ Stream \/ Environment

Spec == Init /\ [][Next]_vars

\* The trader's loop keeps running and is not paused for ever, and a read that is
\* tried again and again succeeds in the end.
FairSpec ==
    /\ Spec
    /\ WF_vars(Trader)
    /\ SF_vars(FetchPositions) /\ \A o \in Coids : SF_vars(PollFetch(o))

-----------------------------------------------------------------------------
Order == [st : {"none", "open", "closed", "canceled"}, dir : Dirs, kind : {"open", "close"},
          size : Nat, bar : Nat, filled : Nat]
Intent == [dir : Dirs, kind : {"open", "close"}, bar : Bars, o : Coids]
Call == [act : {"hold", "close"}, dir : {0}] \cup [act : {"open"}, dir : Dirs]
TraderState ==
    [pc : {"idle", "poll", "apply", "compare", "decide", "execute", "answer", "halted"},
     todo : SUBSET Coids, o : {0} \cup Coids,
     got : [st : {"none", "open", "closed", "canceled"}, filled : Nat],
     seen : Int, plan : Seq(Call)]

(* The type of every variable.  A trader that applies a report or waits for an
   answer names the order, and every order in the journal is one that the
   exchange has accepted. *)
TypeOK ==
    /\ ord \in [Coids -> Order]
    /\ exPos \in Int
    /\ told \in [Coids -> Nat]
    /\ pending \subseteq {o \in Coids : ord[o].st # "none"}
    /\ booked \in [Coids -> Nat]
    /\ pos \in Int
    /\ intents \subseteq Intent
    /\ nextCoid \in 1..(MaxOrders + 1)
    /\ bar \in Bars
    /\ tr \in TraderState
    /\ tr.pc \in {"apply", "answer"} => tr.o \in Coids
    /\ tripped \in BOOLEAN
    /\ restarts \in 0..MaxRestarts

-----------------------------------------------------------------------------
(* The local position is what the trader booked, lot by lot, of what the
   exchange filled: no report, from the poll or from the stream, is booked
   twice, ahead of the exchange or against the position, and none is booked
   without moving the position unless the trader has started again. *)
Ledger == INSTANCE FillLedger WITH
    Orders <- Coids,
    filled <- [o \in Coids |-> ord[o].dir * ord[o].filled],
    booked <- [o \in Coids |-> ord[o].dir * booked[o]],
    position <- pos,
    restarted <- restarts > 0
ImplementsLedger == Ledger!LedgerSpec

(* The journal holds one order at a time, as find_for_symbol assumes, on the
   side of the position if it opens and against it if it closes.  Until the
   process starts again, what remains of a tracked closing order is no more
   than the position, so that booking it never raises. *)
OneFittingOrder ==
    /\ \A o, p \in pending : o = p
    /\ \A o \in pending :
          /\ Sign(pos) \in {0, IF ord[o].kind = "open" THEN ord[o].dir ELSE -ord[o].dir}
          /\ restarts = 0 /\ ord[o].kind = "close" =>
                pos # 0 /\ ord[o].size - booked[o] <= Abs(pos)

(* While cancels and submissions do not fail, no fill that the trader misses,
   and no order it replaces, adds up to more than one opening order: the
   exchange holds at most one, and its remainder on top of the position is
   within one order's size. *)
ExposureBounded ==
    \A o \in Coids : ord[o].st = "open" /\ ord[o].kind = "open" =>
        /\ \A p \in Coids : ord[p].st = "open" /\ ord[p].kind = "open" => p = o
        /\ Abs(exPos + ord[o].dir * (ord[o].size - ord[o].filled)) <= Size

(* A fill that the trader has missed for good does not go unnoticed: the local
   position meets the exchange's, or KillSwitch stops the trader. *)
DriftIsSettled == exPos # pos ~> (exPos = pos \/ tr.pc = "halted")

-----------------------------------------------------------------------------
(* What a comment of the repository says, and the code does not keep. *)

(* "It survives a restart of the process too, or a retry after a crash would
   place a duplicate order" (trader.py:169): the exchange never holds two open
   orders of one intent. *)
NoDuplicateOrder ==
    \A o, p \in Coids : ord[o].st = "open" /\ ord[p].st = "open" /\ o # p =>
        <<ord[o].dir, ord[o].kind, ord[o].bar>> # <<ord[p].dir, ord[p].kind, ord[p].bar>>
=============================================================================
