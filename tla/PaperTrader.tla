----------------------------- MODULE PaperTrader -----------------------------
(***************************************************************************)
(* The single-symbol paper trader: one step of PaperRunner on the last     *)
(* closed candle (live/trader_loop.py) with the account's ledger, the      *)
(* entry gate, the drawdown breaker, the exit ladder and the paper maker   *)
(* orders.  A step is one call in one thread, so it is one action here.    *)
(* Money is counted from the initial capital in units of the fee, and the  *)
(* limits are amounts and not fractions of the equity.                     *)
(***************************************************************************)
EXTENDS Integers

CONSTANTS
    Makers,         \* values of MAKER_EXECUTION to choose from
    WaitBars,       \* maker_fill_wait_bars
    Closes,         \* prices at which a candle closes
    BarsPerDay,     \* candles of a UTC day
    Size,           \* size of an entry, a multiple of 50
    Drawdown,       \* max_drawdown_pct, as an amount
    DayLoss,        \* daily_loss_limit, as an amount
    CoolLosses, MaxLosses, CoolBars,
    MaxBar,         \* bound: candles
    MaxSteps        \* bound: steps

ASSUME PaperBounds ==
    /\ Closes \subseteq Int /\ Drawdown \in Int /\ DayLoss \in Int
    /\ BarsPerDay \in Nat \ {0} /\ Size \in Nat \ {0, 1} /\ CoolBars \in Int
    /\ WaitBars \in Int /\ CoolLosses \in Int /\ MaxLosses \in Int
    /\ MaxBar \in Nat \ {0} /\ MaxSteps \in Nat

VARIABLES
    candle,     \* the last closed candle: number, close, low, high, lucky
    book,       \* account, pending order, ladder and limits of the trader
    maker,      \* settings.maker_execution
    steps       \* steps so far

paperVars == <<candle, book, maker, steps>>

Sides == {-1, 1}
Flat == [side |-> 0, size |-> 0, entry |-> 0, fee |-> 0, asked |-> 0, since |-> 0]
NoOrder == [kind |-> "none", side |-> 0, size |-> 0, price |-> 0, waited |-> 0, placed |-> 0]
NoLadder == [side |-> 0, entry |-> 0, left |-> {}]

\* A candle whose extremes are its close or beyond it; `lucky' is the draw of
\* the bar's random number that decides a touch of the limit.
Candles(n) == [n : {n}, close : Closes, dip : {0, 1}, rise : {0, 1}, lucky : BOOLEAN]
Day(n) == n \div BarsPerDay

Init ==
    /\ candle \in Candles(1)
    /\ book = [pos |-> Flat, order |-> NoOrder, ladder |-> NoLadder, cash |-> 0, realized |-> 0,
               losses |-> 0, until |-> 0, anchor |-> 0, peak |-> 0, tripped |-> FALSE,
               day |-> Day(2), mark |-> 0]
    /\ maker \in Makers
    /\ steps = 0

-----------------------------------------------------------------------------
(* The account *)

Equity(b) == b.cash + b.pos.side * (b.mark - b.pos.entry) * b.pos.size

\* open_position; `asked' and `since' are the candles of the order and the fill.
Entered(side, size, price, asked) ==
    [side |-> side, size |-> size, entry |-> price, fee |-> size,
     asked |-> asked, since |-> candle.n]
Opened(b, side, size, price, asked) ==
    [b EXCEPT !.cash = b.cash - size, !.mark = price,
              !.pos = Entered(side, size, price, asked)]

\* close_position: a part takes its share of the entry fee with it.
Gain(pos, size, price) == pos.side * (price - pos.entry) * size
Share(pos, size) == (pos.fee * size) \div pos.size

\* Mutant: a partial close leaves the whole entry fee with the position.
LeftWithFee(pos, size) ==
    IF size = pos.size THEN Flat ELSE [pos EXCEPT !.size = pos.size - size]

Left(pos, size) ==
    IF size = pos.size THEN Flat
    ELSE [pos EXCEPT !.size = pos.size - size, !.fee = pos.fee - Share(pos, size)]

Booked(b, gain, pnl, pos) ==
    [b EXCEPT !.cash = b.cash + gain, !.realized = b.realized + pnl,
              !.losses = IF pnl < 0 THEN b.losses + 1 ELSE 0, !.pos = pos]
Closed(b, size, price) ==
    LET gain == Gain(b.pos, size, price) - size
    IN Booked(b, gain, gain - Share(b.pos, size), Left(b.pos, size))

\* maybe_roll_day: another day than the last one seen, later or earlier.
Rolled(b, n) ==
    IF b.day = Day(n) THEN b
    ELSE [b EXCEPT !.day = Day(n), !.anchor = Equity(b), !.losses = 0]

-----------------------------------------------------------------------------
(* Paper maker orders *)

\* _paper_maker_touch
Touched(o) ==
    LET low == candle.close - candle.dip
        high == candle.close + candle.rise
    IN IF o.side = 1 THEN low < o.price \/ (low = o.price /\ candle.lucky)
       ELSE high > o.price \/ (high = o.price /\ candle.lucky)

Filled(b, o) ==
    CASE o.kind = "open" /\ b.pos = Flat -> Opened(b, o.side, o.size, o.price, o.placed)
      [] o.kind = "close" /\ b.pos # Flat -> Closed(b, o.size, o.price)
      [] OTHER -> b

\* _resolve_maker_pending_for_bar: fill, give up after WaitBars calls, or wait.
Resolved(b) ==
    LET o == b.order
        gone == [b EXCEPT !.order = NoOrder]
    IN CASE o = NoOrder -> b
         [] o # NoOrder /\ Touched(o) -> Filled(gone, o)
         [] o # NoOrder /\ ~Touched(o) /\ o.waited + 1 >= WaitBars -> gone
         [] OTHER -> [b EXCEPT !.order.waited = @ + 1]

Asked(b, kind, side, size) ==
    [b EXCEPT !.order = [kind |-> kind, side |-> side, size |-> size, price |-> candle.close,
                         waited |-> 0, placed |-> candle.n]]

-----------------------------------------------------------------------------
(* execute: hold, close, open *)

\* Holding takes back an entry, and the exit of a position that is to stay.
Hold(b) ==
    LET r == Rolled(b, candle.n)
    IN IF r.order.kind = "open" \/ r.pos # Flat THEN [r EXCEPT !.order = NoOrder] ELSE r

Close(b, size) ==
    LET r == Rolled(b, candle.n)
    IN CASE r.order.kind = "open" -> [r EXCEPT !.order = NoOrder]
         [] r.order.kind # "open" /\ (r.order.kind = "close" \/ r.pos = Flat) -> r
         [] OTHER -> IF maker THEN Asked(r, "close", -r.pos.side, size)
                     ELSE Closed(r, size, candle.close)

\* decide_entry and the limits of risk_check; `barred' stands for the weekly
\* limit, the attrition switch and the caps on notional and leverage.
Halving(b) == candle.n < b.until \/ b.losses >= CoolLosses
Cooled(b) ==
    IF b.losses < MaxLosses /\ b.losses >= CoolLosses /\ candle.n >= b.until
    THEN [b EXCEPT !.until = candle.n + CoolBars] ELSE b
Allowed(b, barred) == b.losses < MaxLosses /\ Equity(b) > b.anchor - DayLoss /\ ~barred

Open(b, side, barred) ==
    LET r == Rolled(b, candle.n)
        c == Cooled(r)
        size == IF Halving(r) THEN Size \div 2 ELSE Size
    IN CASE ~Allowed(r, barred) -> c
         [] Allowed(r, barred) /\ (c.pos # Flat \/ c.order.kind = "close"
                                   \/ (c.order.kind = "open" /\ c.order.side = side)) -> c
         [] OTHER -> IF maker THEN Asked(c, "open", side, size)
                     ELSE Opened(c, side, size, candle.close, candle.n)

-----------------------------------------------------------------------------
(* The exit ladder: rungs at distances and with weights in the ratio 1.5 *)

Rungs == {1, 2}
Distance == <<2, 3>>
Weight == <<3, 2>>
WeightOf(S) == (IF 1 \in S THEN Weight[1] ELSE 0) + (IF 2 \in S THEN Weight[2] ELSE 0)

NewLadder(side) == [side |-> side, entry |-> candle.close, left |-> Rungs]

\* update_price
Reached(l) == {i \in l.left : l.side * (candle.close - l.entry) >= Distance[i]}

\* The fraction of a rung is taken from what is left of the position.
LadderExit(b) == (b.pos.size * WeightOf(Reached(b.ladder))) \div 5
Climbed(b) ==
    LET up == Reached(b.ladder)
    IN [b EXCEPT !.ladder = IF b.ladder.left = up THEN NoLadder
                            ELSE [b.ladder EXCEPT !.left = b.ladder.left \ up]]

-----------------------------------------------------------------------------
(* A step *)

\* Mutant: the breaker resets itself when the position is gone.
CheckedResets(b) ==
    LET done == b.tripped /\ b.pos = Flat
        peak == IF Equity(b) > b.peak \/ done THEN Equity(b) ELSE b.peak
    IN [b EXCEPT !.peak = peak,
                 !.tripped = (b.tripped /\ ~done) \/ Equity(b) <= peak - Drawdown]

\* DrawdownBreaker.check
Checked(b) ==
    LET peak == IF Equity(b) > b.peak THEN Equity(b) ELSE b.peak
    IN IF b.tripped THEN b
       ELSE [b EXCEPT !.peak = peak, !.tripped = Equity(b) <= peak - Drawdown]

\* The step as far as the breaker: the day rolls by the clock, which is in the
\* next candle, and then by the time of the closed candle.
Ready ==
    LET clock == Rolled(book, candle.n + 1)
        resolved == Resolved(Resolved(clock))
        bar == Rolled(resolved, candle.n)
    IN Checked([bar EXCEPT !.mark = candle.close])

NoneLeft(b) == [b EXCEPT !.ladder = NoLadder]

Stepped(b) ==
    /\ steps < MaxSteps /\ steps' = steps + 1
    /\ book' = Resolved(b)
    /\ UNCHANGED <<candle, maker>>

\* The breaker has tripped: flatten, and nothing else.
Halt ==
    /\ Ready.tripped
    /\ Stepped(IF Ready.pos = Flat THEN Ready
               ELSE Resolved(NoneLeft(Close(Ready, Ready.pos.size))))

\* Signal 0, or the flatten command of the control file.
Leave ==
    /\ ~Ready.tripped
    /\ Stepped(Resolved(IF Ready.pos = Flat THEN Hold(Ready)
                        ELSE NoneLeft(Close(Ready, Ready.pos.size))))

\* The signal agrees with the position: its ladder may close a part.
Stay ==
    LET b == Climbed(Ready)
    IN /\ ~Ready.tripped /\ Ready.pos # Flat
       /\ Stepped(Resolved(IF Reached(Ready.ladder) = {} THEN Hold(Ready)
                           ELSE Close(b, LadderExit(Ready))))

\* The position is closed, if there is one, and resolved.
Reversed(b) == IF b.pos = Flat THEN b ELSE Resolved(NoneLeft(Close(b, b.pos.size)))

\* Mutant: the ladder of the last position goes on.
TurnOldLadder(side) ==
    /\ ~Ready.tripped /\ Ready.pos.side # side
    /\ \E barred \in BOOLEAN :
        LET b == Open(Reversed(Ready), side, barred)
        IN Stepped(Resolved([b EXCEPT !.ladder = IF Ready.ladder = NoLadder THEN NewLadder(side)
                                                 ELSE Ready.ladder]))

\* The signal asks for the other side: a new ladder, whatever came of the entry.
Turn(side) ==
    /\ ~Ready.tripped /\ Ready.pos.side # side
    /\ \E barred \in BOOLEAN :
        Stepped(Resolved([Open(Reversed(Ready), side, barred) EXCEPT !.ladder = NewLadder(side)]))

\* no_new_entries or the HMM gate: the position is closed and none is opened.
TurnBlocked(side) ==
    /\ ~Ready.tripped /\ Ready.pos.side # side
    /\ Stepped(Resolved(Reversed(Ready)))

\* The next candle closes.
NewCandle ==
    /\ candle.n < MaxBar
    /\ candle' \in Candles(candle.n + 1)
    /\ UNCHANGED <<book, maker, steps>>

Next ==
    \/ Halt \/ Leave \/ Stay \/ NewCandle
    \/ \E side \in Sides : Turn(side) \/ TurnBlocked(side)

Spec == Init /\ [][Next]_paperVars

-----------------------------------------------------------------------------
TypeOK ==
    /\ candle \in UNION {Candles(n) : n \in 1..MaxBar}
    /\ maker \in Makers /\ steps \in 0..MaxSteps
    /\ book.pos.side \in {-1, 0, 1} /\ book.pos.size \in 0..Size
    /\ book.order.kind \in {"none", "open", "close"}
    /\ book.ladder.side \in {-1, 0, 1} /\ book.ladder.left \subseteq Rungs
    /\ book.tripped \in BOOLEAN /\ book.losses \in Nat

(* The ledger closes: through entries, exits, parts taken by the ladder and
   paper maker fills, the cash is what was realised less the entry fee that the
   open position still carries. *)
LedgerBalances == book.cash = book.realized - book.pos.fee

(* The breaker is final: once it has tripped, the position there is can only go,
   and none is taken again, whatever a recovered equity, the next signal or a
   resting order that was not filled in time suggests. *)
BreakerStaysFlat ==
    [][book.tripped => book'.pos \in {Flat, book.pos}]_paperVars

(* A ladder belongs to the position it was built for: when a taker position is
   closed in part, its price has moved from its own entry by a rung or more in
   its favour. *)
LadderTakesProfit ==
    [][(~maker /\ book'.pos # Flat /\ book'.pos = [book.pos EXCEPT !.size = book'.pos.size, !.fee = book'.pos.fee]
        /\ book'.pos.size < book.pos.size)
       => book.pos.side * (candle.close - book.pos.entry) >= Distance[1]]_paperVars

(* "the check is made on the current bar, as in _simulate_maker_fills", with the
   close of the bar before as the limit (trader.py:238): a maker order is filled
   by a candle after the one whose close was its price. *)
FilledOnALaterBar == (maker /\ book.pos # Flat) => book.pos.since > book.pos.asked
=============================================================================
