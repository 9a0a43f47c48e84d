-------------------------- MODULE PaperTraderProofs --------------------------
(***************************************************************************)
(* The paper trader's ledger balances, whatever the prices, sizes, limits  *)
(* and signals are.  A step is a chain of operators on the trader's book;  *)
(* each of them keeps the book sound, and a sound book balances.           *)
(***************************************************************************)
EXTENDS PaperTrader, TLAPS

Signs == {-1, 0, 1}
Position == [side : Signs, size : 0..Size, entry : Int, fee : Int,
             asked : Int, since : Int]
Order == [kind : {"none", "open", "close"}, side : Signs, size : 0..Size, price : Int,
          waited : Nat, placed : Int]
Ladder == [side : Signs, entry : Int, left : SUBSET Rungs]
Book == [pos : Position, order : Order, ladder : Ladder, cash : Int, realized : Int,
         losses : Nat, until : Int, anchor : Int, peak : Int, tripped : BOOLEAN,
         day : Int, mark : Int]

\* A position has lots, and an order has what it needs to be filled: an entry
\* has lots, and an exit has a position that is as large at least.
Fillable(pos, o) ==
    /\ o.kind = "open" => o.size > 0
    /\ o.kind = "close" => pos # Flat /\ 0 <= o.size /\ o.size <= pos.size
Fits(b) == (b.pos = Flat \/ b.pos.size > 0) /\ Fillable(b.pos, b.order)

Sound(b) == b \in Book /\ b.cash = b.realized - b.pos.fee /\ Fits(b)

CandleOK == candle.n \in Int /\ candle.close \in Int

\* The whole fee belongs to the whole position.
LEMMA WholeShare ==
    ASSUME NEW f \in Int, NEW s \in Nat \ {0}
    PROVE  (f * s) \div s = f
  OBVIOUS

LEMMA FlatIs == Flat \in Position /\ Flat.fee = 0
  BY PaperBounds DEF Flat, Position, Signs

\* What booking a close does to a book.
LEMMA BookedIs ==
    ASSUME NEW b \in Book, NEW g \in Int, NEW l \in Int, NEW p \in Position
    PROVE  /\ Booked(b, g, l, p) \in Book
           /\ Booked(b, g, l, p).cash = b.cash + g
           /\ Booked(b, g, l, p).realized = b.realized + l
           /\ Booked(b, g, l, p).pos = p
           /\ Booked(b, g, l, p).order = b.order
           /\ Booked(b, g, l, p).ladder = b.ladder
           /\ Booked(b, g, l, p).tripped = b.tripped
<1>1. /\ b.cash + g \in Int /\ b.realized + l \in Int
      /\ (IF l < 0 THEN b.losses + 1 ELSE 0) \in Nat
  BY DEF Book
<1> QED
  BY <1>1 DEF Booked, Book

LEMMA ShareIs ==
    ASSUME NEW p \in Position, p.size > 0, NEW size \in Nat
    PROVE  Share(p, size) \in Int /\ (size = p.size => Share(p, size) = p.fee)
<1>1. p.fee \in Int /\ p.size \in Nat \ {0}
  BY DEF Position
<1>2. p.fee * size \in Int
  BY <1>1
<1> QED
  BY <1>1, <1>2, WholeShare DEF Share

LEMMA LeftIs ==
    ASSUME NEW p \in Position, p.size > 0, NEW size \in Nat, size <= p.size
    PROVE  /\ Left(p, size) \in Position
           /\ Left(p, size).fee = p.fee - Share(p, size)
           /\ Left(p, size) = Flat \/ Left(p, size).size > 0
<1>1. p.fee \in Int /\ p.size \in Int /\ Share(p, size) \in Int
  BY ShareIs DEF Position
<1>2. CASE size = p.size
  <2>1. Left(p, size) = Flat
    BY <1>2 DEF Left
  <2>2. Share(p, size) = p.fee
    BY <1>2, ShareIs
  <2> QED
    BY <1>1, <2>1, <2>2, FlatIs
<1>3. CASE size # p.size
  <2>1. ASSUME NEW s \in 0..Size, NEW f \in Int
        PROVE  /\ [p EXCEPT !.size = s, !.fee = f] \in Position
               /\ [p EXCEPT !.size = s, !.fee = f].size = s
               /\ [p EXCEPT !.size = s, !.fee = f].fee = f
    BY DEF Position
  <2>2. p.size - size \in 0..Size /\ p.fee - Share(p, size) \in Int /\ p.size - size > 0
    BY <1>1, <1>3, PaperBounds DEF Position
  <2> DEFINE q == [p EXCEPT !.size = p.size - size, !.fee = p.fee - Share(p, size)]
  <2>3. q \in Position /\ q.size = p.size - size /\ q.fee = p.fee - Share(p, size)
    BY <2>1, <2>2
  <2>4. Left(p, size) = q
    BY <1>3 DEF Left
  <2> HIDE DEF q
  <2> QED
    BY <2>2, <2>3, <2>4
<1> QED
  BY <1>2, <1>3

LEMMA GainIs ==
    ASSUME NEW p \in Position, NEW size \in Int, NEW price \in Int
    PROVE  Gain(p, size, price) \in Int
<1>1. p.side \in Int /\ price - p.entry \in Int
  BY DEF Position, Signs
<1>2. p.side * (price - p.entry) \in Int
  BY <1>1
<1> QED
  BY <1>2 DEF Gain

\* A close that is not larger than the position balances.
LEMMA ClosedSound ==
    ASSUME NEW b, Sound(b), b.pos # Flat, b.order.kind # "close",
           NEW size \in Nat, size <= b.pos.size, NEW price \in Int
    PROVE  /\ Sound(Closed(b, size, price))
           /\ Closed(b, size, price).order = b.order
           /\ Closed(b, size, price).ladder = b.ladder
           /\ Closed(b, size, price).tripped = b.tripped
           /\ Closed(b, size, price).pos = Left(b.pos, size)
<1> DEFINE gain == Gain(b.pos, size, price) - size
           share == Share(b.pos, size)
           rest == Left(b.pos, size)
           u == Booked(b, gain, gain - share, rest)
<1>1. /\ b \in Book /\ b.pos \in Position /\ b.pos.size > 0
      /\ b.cash \in Int /\ b.realized \in Int /\ b.pos.fee \in Int
      /\ b.cash = b.realized - b.pos.fee
      /\ b.order.kind = "open" => b.order.size > 0
  BY DEF Sound, Fits, Fillable, Book, Position
<1>2. gain \in Int
  BY <1>1, GainIs
<1>3. share \in Int
  BY <1>1, ShareIs
<1>4. rest \in Position /\ rest.fee = b.pos.fee - share /\ (rest = Flat \/ rest.size > 0)
  BY <1>1, LeftIs
<1>5. Closed(b, size, price) = u
  BY DEF Closed
<1> HIDE DEF gain, share, rest
<1>6. gain - share \in Int
  BY <1>2, <1>3
<1>7. /\ u \in Book /\ u.cash = b.cash + gain /\ u.realized = b.realized + (gain - share)
      /\ u.pos = rest /\ u.order = b.order /\ u.ladder = b.ladder /\ u.tripped = b.tripped
  BY <1>1, <1>2, <1>6, <1>4, BookedIs
<1> HIDE DEF u
<1>8. u.cash = u.realized - u.pos.fee
  BY <1>1, <1>2, <1>3, <1>4, <1>7
<1>9. Fits(u)
  BY <1>1, <1>4, <1>7 DEF Fits, Fillable
<1>10. Sound(u)
  BY <1>7, <1>8, <1>9 DEF Sound
<1> QED
  BY <1>5, <1>7, <1>10 DEF rest

-----------------------------------------------------------------------------
(* The operators that leave the position alone *)

LEMMA BookIs ==
    ASSUME NEW b, Sound(b)
    PROVE  /\ b \in Book /\ b.pos \in Position /\ b.order \in Order /\ b.ladder \in Ladder
           /\ b.cash \in Int /\ b.realized \in Int /\ b.losses \in Nat /\ b.mark \in Int
           /\ b.until \in Int /\ b.anchor \in Int /\ b.peak \in Int /\ b.day \in Int
           /\ b.tripped \in BOOLEAN
  BY DEF Sound, Book

\* A book with the cash, the result, the position and the order of a sound one
\* is sound.
LEMMA SameSound ==
    ASSUME NEW b, Sound(b), NEW u \in Book, u.cash = b.cash, u.realized = b.realized,
           u.pos = b.pos, u.order = b.order
    PROVE  Sound(u)
  BY DEF Sound, Fits

LEMMA EquityIs ==
    ASSUME NEW b, Sound(b)
    PROVE  Equity(b) \in Int
<1>1. b.cash \in Int /\ b.mark \in Int /\ b.pos.side \in Int /\ b.pos.entry \in Int /\ b.pos.size \in Int
  BY BookIs DEF Position, Signs
<1>2. b.pos.side * (b.mark - b.pos.entry) \in Int
  BY <1>1
<1>3. b.pos.side * (b.mark - b.pos.entry) * b.pos.size \in Int
  BY <1>1, <1>2
<1> QED
  BY <1>1, <1>3 DEF Equity

\* What a change of day does to a book.
Dayed(b, d, e, l) == [b EXCEPT !.day = d, !.anchor = e, !.losses = l]

LEMMA NewDay ==
    ASSUME NEW b \in Book, NEW d \in Int, NEW e \in Int, NEW l \in Nat
    PROVE  /\ Dayed(b, d, e, l) \in Book
           /\ Dayed(b, d, e, l).cash = b.cash /\ Dayed(b, d, e, l).realized = b.realized
           /\ Dayed(b, d, e, l).pos = b.pos /\ Dayed(b, d, e, l).order = b.order
           /\ Dayed(b, d, e, l).ladder = b.ladder /\ Dayed(b, d, e, l).tripped = b.tripped
  BY DEF Book, Dayed

LEMMA RolledSound ==
    ASSUME NEW b, Sound(b), NEW n \in Int
    PROVE  /\ Sound(Rolled(b, n)) /\ Rolled(b, n).pos = b.pos
           /\ Rolled(b, n).order = b.order /\ Rolled(b, n).ladder = b.ladder
           /\ Rolled(b, n).tripped = b.tripped
<1> DEFINE u == Dayed(b, Day(n), Equity(b), 0)
<1>1. b \in Book /\ Equity(b) \in Int /\ Day(n) \in Int
  BY BookIs, EquityIs, PaperBounds DEF Day
<1>2. /\ u \in Book /\ u.cash = b.cash /\ u.realized = b.realized
      /\ u.pos = b.pos /\ u.order = b.order /\ u.ladder = b.ladder /\ u.tripped = b.tripped
  BY <1>1, NewDay
<1>3. Rolled(b, n) = b \/ Rolled(b, n) = u
  BY DEF Rolled, Dayed
<1> HIDE DEF u
<1> QED
  BY <1>2, <1>3, SameSound

LEMMA OrderSound ==
    ASSUME NEW b, Sound(b), NEW o \in Order, Fillable(b.pos, o)
    PROVE  /\ Sound([b EXCEPT !.order = o]) /\ [b EXCEPT !.order = o].pos = b.pos
           /\ [b EXCEPT !.order = o].order = o /\ [b EXCEPT !.order = o].ladder = b.ladder
           /\ [b EXCEPT !.order = o].tripped = b.tripped
<1> DEFINE u == [b EXCEPT !.order = o]
<1>1. /\ u \in Book /\ u.cash = b.cash /\ u.realized = b.realized
      /\ u.pos = b.pos /\ u.order = o /\ u.ladder = b.ladder /\ u.tripped = b.tripped
  BY DEF Sound, Book
<1> HIDE DEF u
<1>2. Sound(u)
  BY <1>1 DEF Sound, Fits
<1> QED
  BY <1>1, <1>2 DEF u

LEMMA NoOrderIs == NoOrder \in Order /\ NoOrder.kind = "none" /\ \A p : Fillable(p, NoOrder)
  BY PaperBounds DEF NoOrder, Order, Fillable, Signs

LEMMA LadderSound ==
    ASSUME NEW b, Sound(b), NEW l
    PROVE  l \in Ladder =>
           /\ Sound([b EXCEPT !.ladder = l]) /\ [b EXCEPT !.ladder = l].pos = b.pos
           /\ [b EXCEPT !.ladder = l].order = b.order
           /\ [b EXCEPT !.ladder = l].ladder = l /\ [b EXCEPT !.ladder = l].tripped = b.tripped
<1> SUFFICES ASSUME l \in Ladder
             PROVE  /\ Sound([b EXCEPT !.ladder = l]) /\ [b EXCEPT !.ladder = l].pos = b.pos
                    /\ [b EXCEPT !.ladder = l].order = b.order
                    /\ [b EXCEPT !.ladder = l].ladder = l /\ [b EXCEPT !.ladder = l].tripped = b.tripped
  OBVIOUS
<1> DEFINE u == [b EXCEPT !.ladder = l]
<1>1. /\ u \in Book /\ u.cash = b.cash /\ u.realized = b.realized
      /\ u.pos = b.pos /\ u.order = b.order /\ u.ladder = l /\ u.tripped = b.tripped
  BY DEF Sound, Book
<1> HIDE DEF u
<1>2. Sound(u)
  BY <1>1, SameSound
<1> QED
  BY <1>1, <1>2 DEF u

LEMMA CooledSound ==
    ASSUME NEW b, Sound(b), CandleOK
    PROVE  /\ Sound(Cooled(b)) /\ Cooled(b).pos = b.pos
           /\ Cooled(b).order = b.order /\ Cooled(b).ladder = b.ladder
           /\ Cooled(b).tripped = b.tripped
<1> DEFINE u == [b EXCEPT !.until = candle.n + CoolBars]
<1>1. b \in Book /\ candle.n + CoolBars \in Int
  BY BookIs, PaperBounds DEF CandleOK
<1>2. /\ u \in Book /\ u.cash = b.cash /\ u.realized = b.realized
      /\ u.pos = b.pos /\ u.order = b.order /\ u.ladder = b.ladder /\ u.tripped = b.tripped
  BY <1>1 DEF Book
<1>3. Cooled(b) = b \/ Cooled(b) = u
  BY DEF Cooled
<1> HIDE DEF u
<1> QED
  BY <1>2, <1>3, SameSound

LEMMA CheckedSound ==
    ASSUME NEW b, Sound(b)
    PROVE  /\ Sound(Checked(b)) /\ Checked(b).pos = b.pos /\ Checked(b).order = b.order
           /\ Checked(b).ladder = b.ladder /\ (b.tripped => Checked(b).tripped)
<1> DEFINE peak == IF Equity(b) > b.peak THEN Equity(b) ELSE b.peak
           trip == Equity(b) <= peak - Drawdown
           u == [b EXCEPT !.peak = peak, !.tripped = trip]
<1>1. b \in Book /\ peak \in Int
  BY BookIs, EquityIs
<1>2. trip \in BOOLEAN
  OBVIOUS
<1>3. IF b.tripped THEN Checked(b) = b ELSE Checked(b) = u
  BY DEF Checked
<1> HIDE DEF peak, trip
<1>4. /\ u \in Book /\ u.cash = b.cash /\ u.realized = b.realized
      /\ u.pos = b.pos /\ u.order = b.order /\ u.ladder = b.ladder
  BY <1>1, <1>2 DEF Book
<1> HIDE DEF u
<1> QED
  BY <1>3, <1>4, SameSound

LEMMA MarkSound ==
    ASSUME NEW b, Sound(b), NEW price \in Int
    PROVE  /\ Sound([b EXCEPT !.mark = price]) /\ [b EXCEPT !.mark = price].pos = b.pos
           /\ [b EXCEPT !.mark = price].order = b.order
           /\ [b EXCEPT !.mark = price].ladder = b.ladder
           /\ [b EXCEPT !.mark = price].tripped = b.tripped
<1> DEFINE u == [b EXCEPT !.mark = price]
<1>1. /\ u \in Book /\ u.cash = b.cash /\ u.realized = b.realized
      /\ u.pos = b.pos /\ u.order = b.order /\ u.ladder = b.ladder /\ u.tripped = b.tripped
  BY DEF Sound, Book
<1> HIDE DEF u
<1>2. Sound(u)
  BY <1>1, SameSound
<1> QED
  BY <1>1, <1>2 DEF u

-----------------------------------------------------------------------------
(* Orders and what fills them *)

LEMMA EnteredIs ==
    ASSUME CandleOK, NEW side \in Signs, NEW size \in 0..Size, size > 0,
           NEW price \in Int, NEW asked \in Int
    PROVE  /\ Entered(side, size, price, asked) \in Position
           /\ Entered(side, size, price, asked).fee = size
           /\ Entered(side, size, price, asked).size > 0
  BY DEF CandleOK, Entered, Position

\* An entry by a flat book balances.
LEMMA OpenedSound ==
    ASSUME CandleOK, NEW b, Sound(b), b.pos = Flat, NEW side \in Signs,
           NEW size \in 0..Size, size > 0, NEW price \in Int, NEW asked \in Int
    PROVE  /\ Sound(Opened(b, side, size, price, asked))
           /\ Opened(b, side, size, price, asked).order = b.order
           /\ Opened(b, side, size, price, asked).ladder = b.ladder
           /\ Opened(b, side, size, price, asked).tripped = b.tripped
           /\ Opened(b, side, size, price, asked).pos = Entered(side, size, price, asked)
<1> DEFINE p == Entered(side, size, price, asked)
           c == b.cash - size
           u == [b EXCEPT !.cash = c, !.mark = price, !.pos = p]
<1>1. p \in Position /\ p.fee = size /\ p.size > 0
  BY EnteredIs
<1>2. Opened(b, side, size, price, asked) = u
  BY DEF Opened
<1>3. b \in Book /\ b.cash \in Int /\ b.realized \in Int /\ c \in Int
  BY BookIs
<1>4. b.cash = b.realized
  BY <1>3, FlatIs DEF Sound
<1>5. b.order.kind # "close" /\ (b.order.kind = "open" => b.order.size > 0)
  BY DEF Sound, Fits, Fillable
<1>6. c = b.realized - size
  BY <1>4
<1> HIDE DEF p, c
<1>7. /\ u \in Book /\ u.cash = c /\ u.realized = b.realized /\ u.pos = p
      /\ u.order = b.order /\ u.ladder = b.ladder /\ u.tripped = b.tripped
  BY <1>1, <1>3 DEF Book
<1> HIDE DEF u
<1>8. Sound(u)
  BY <1>1, <1>5, <1>6, <1>7 DEF Sound, Fits, Fillable
<1> QED
  BY <1>2, <1>7, <1>8 DEF p

LEMMA FilledSound ==
    ASSUME CandleOK, NEW b, Sound(b), b.order = NoOrder, NEW o \in Order, Fillable(b.pos, o)
    PROVE  /\ Sound(Filled(b, o)) /\ Filled(b, o).ladder = b.ladder
           /\ Filled(b, o).order = NoOrder /\ Filled(b, o).tripped = b.tripped
<1>1. o.side \in Signs /\ o.size \in 0..Size /\ o.price \in Int /\ o.placed \in Int
  BY DEF Order
<1>2. CASE o.kind = "open" /\ b.pos = Flat
  <2>1. Filled(b, o) = Opened(b, o.side, o.size, o.price, o.placed)
    BY <1>2 DEF Filled
  <2>2. o.size > 0
    BY <1>2 DEF Fillable
  <2> QED
    BY <1>1, <1>2, <2>1, <2>2, OpenedSound
<1>3. CASE o.kind = "close" /\ b.pos # Flat
  <2>1. Filled(b, o) = Closed(b, o.size, o.price)
    BY <1>3 DEF Filled
  <2>2. o.size \in Nat /\ o.size <= b.pos.size
    BY <1>1, <1>3 DEF Fillable
  <2>3. b.order.kind # "close"
    BY NoOrderIs
  <2> QED
    BY <1>1, <1>3, <2>1, <2>2, <2>3, ClosedSound
<1>4. CASE ~(o.kind = "open" /\ b.pos = Flat) /\ ~(o.kind = "close" /\ b.pos # Flat)
  BY <1>4 DEF Filled
<1> QED
  BY <1>2, <1>3, <1>4

\* An order that goes on waiting.
LEMMA WaitingIs ==
    ASSUME NEW b, Sound(b)
    PROVE  /\ [b.order EXCEPT !.waited = b.order.waited + 1] \in Order
           /\ Fillable(b.pos, [b.order EXCEPT !.waited = b.order.waited + 1])
<1>1. b.order \in Order /\ b.order.waited + 1 \in Nat
  BY BookIs DEF Order
<1> DEFINE w == b.order.waited + 1
           o == [b.order EXCEPT !.waited = w]
<1> HIDE DEF w
<1>2. o \in Order /\ o.kind = b.order.kind /\ o.size = b.order.size
  BY <1>1 DEF Order, w
<1> HIDE DEF o
<1>3. Fillable(b.pos, o)
  BY <1>2 DEF Sound, Fits, Fillable
<1> QED
  BY <1>2, <1>3 DEF o, w

LEMMA ResolvedSound ==
    ASSUME CandleOK, NEW b, Sound(b)
    PROVE  /\ Sound(Resolved(b)) /\ Resolved(b).ladder = b.ladder
           /\ Resolved(b).tripped = b.tripped
<1> DEFINE gone == [b EXCEPT !.order = NoOrder]
           later == [b EXCEPT !.order = [b.order EXCEPT !.waited = b.order.waited + 1]]
<1>1. /\ Sound(gone) /\ gone.pos = b.pos /\ gone.order = NoOrder /\ gone.ladder = b.ladder
      /\ gone.tripped = b.tripped
  BY OrderSound, NoOrderIs
<1>2. Sound(later) /\ later.ladder = b.ladder /\ later.tripped = b.tripped
  BY OrderSound, WaitingIs
<1>3. b.order \in Order /\ Fillable(b.pos, b.order)
  BY BookIs DEF Sound, Fits
<1>4. /\ Sound(Filled(gone, b.order)) /\ Filled(gone, b.order).ladder = b.ladder
      /\ Filled(gone, b.order).tripped = b.tripped
  <2> HIDE DEF gone
  <2> QED
    BY <1>1, <1>3, FilledSound
<1>5. \/ Resolved(b) = b \/ Resolved(b) = gone \/ Resolved(b) = Filled(gone, b.order)
      \/ Resolved(b) = later
  BY DEF Resolved
<1> HIDE DEF gone, later
<1> QED
  BY <1>1, <1>2, <1>4, <1>5

LEMMA AskedSound ==
    ASSUME CandleOK, NEW b, Sound(b), NEW kind \in {"open", "close"}, NEW side \in Signs,
           NEW size \in 0..Size, kind = "open" => size > 0,
           kind = "close" => b.pos # Flat /\ 0 <= size /\ size <= b.pos.size
    PROVE  /\ Sound(Asked(b, kind, side, size)) /\ Asked(b, kind, side, size).ladder = b.ladder
           /\ Asked(b, kind, side, size).tripped = b.tripped
           /\ Asked(b, kind, side, size).pos = b.pos
           /\ Asked(b, kind, side, size).order.kind = kind
           /\ Asked(b, kind, side, size).order.size = size
<1> DEFINE o == [kind |-> kind, side |-> side, size |-> size, price |-> candle.close,
                 waited |-> 0, placed |-> candle.n]
<1>1. o \in Order /\ o.kind = kind /\ o.size = size
  BY DEF Order, CandleOK
<1>2. Asked(b, kind, side, size) = [b EXCEPT !.order = o]
  BY DEF Asked
<1> HIDE DEF o
<1>3. Fillable(b.pos, o)
  BY <1>1 DEF Fillable
<1> QED
  BY <1>1, <1>2, <1>3, OrderSound

-----------------------------------------------------------------------------
(* Hold, close, open *)

LEMMA HoldSound ==
    ASSUME CandleOK, NEW b, Sound(b)
    PROVE  /\ Sound(Hold(b)) /\ Hold(b).ladder = b.ladder /\ Hold(b).tripped = b.tripped
           /\ Hold(b).pos = b.pos /\ Hold(b).order \in {NoOrder, b.order}
<1> DEFINE r == Rolled(b, candle.n)
           gone == [r EXCEPT !.order = NoOrder]
<1>1. /\ Sound(r) /\ r.ladder = b.ladder /\ r.tripped = b.tripped
      /\ r.pos = b.pos /\ r.order = b.order
  BY RolledSound DEF CandleOK
<1>2. Hold(b) = r \/ Hold(b) = gone
  BY DEF Hold
<1> HIDE DEF r
<1>3. /\ Sound(gone) /\ gone.ladder = r.ladder /\ gone.tripped = r.tripped
      /\ gone.pos = r.pos /\ gone.order = NoOrder
  BY <1>1, OrderSound, NoOrderIs
<1> HIDE DEF gone
<1> QED
  BY <1>1, <1>2, <1>3

\* A close is not larger than the position.
LEMMA CloseSound ==
    ASSUME CandleOK, NEW b, Sound(b), NEW size \in Nat, b.pos # Flat => size <= b.pos.size
    PROVE  /\ Sound(Close(b, size)) /\ Close(b, size).ladder = b.ladder
           /\ Close(b, size).tripped = b.tripped
<1> DEFINE r == Rolled(b, candle.n)
           gone == [r EXCEPT !.order = NoOrder]
           ask == Asked(r, "close", -r.pos.side, size)
           now == Closed(r, size, candle.close)
<1>1. Sound(r) /\ r.ladder = b.ladder /\ r.pos = b.pos /\ r.tripped = b.tripped
  BY RolledSound DEF CandleOK
<1>2. \/ Close(b, size) = r \/ Close(b, size) = gone
      \/ r.pos # Flat /\ r.order.kind # "close" /\ (Close(b, size) = ask \/ Close(b, size) = now)
  BY DEF Close
<1> HIDE DEF r
<1>3. Sound(gone) /\ gone.ladder = r.ladder /\ gone.tripped = r.tripped
  BY <1>1, OrderSound, NoOrderIs
<1>4. r.pos # Flat => Sound(ask) /\ ask.ladder = r.ladder /\ ask.tripped = r.tripped
  <2>1. -r.pos.side \in Signs /\ r.pos.size \in 0..Size
    BY <1>1, BookIs DEF Position, Signs
  <2>2. r.pos # Flat => size \in 0..Size
    BY <1>1, <2>1, PaperBounds
  <2> QED
    BY <1>1, <2>1, <2>2, AskedSound
<1>5. r.pos # Flat /\ r.order.kind # "close" => Sound(now) /\ now.ladder = r.ladder /\ now.tripped = r.tripped
  BY <1>1, ClosedSound DEF CandleOK
<1> HIDE DEF gone, ask, now
<1> QED
  BY <1>1, <1>2, <1>3, <1>4, <1>5

LEMMA OpenSound ==
    ASSUME CandleOK, NEW b, Sound(b), NEW side \in Sides, NEW barred \in BOOLEAN
    PROVE  /\ Sound(Open(b, side, barred)) /\ Open(b, side, barred).ladder = b.ladder
           /\ Open(b, side, barred).tripped = b.tripped
<1> DEFINE r == Rolled(b, candle.n)
           c == Cooled(r)
           size == IF Halving(r) THEN Size \div 2 ELSE Size
           ask == Asked(c, "open", side, size)
           now == Opened(c, side, size, candle.close, candle.n)
<1>1. Sound(r) /\ r.ladder = b.ladder /\ r.tripped = b.tripped
  BY RolledSound DEF CandleOK
<1>2. \/ Open(b, side, barred) = c
      \/ c.pos = Flat /\ (Open(b, side, barred) = ask \/ Open(b, side, barred) = now)
  BY DEF Open
<1>3. size \in 0..Size /\ size > 0
  BY PaperBounds
<1>4. side \in Signs
  BY DEF Sides, Signs
<1> HIDE DEF r, size
<1>5. Sound(c) /\ c.ladder = r.ladder /\ c.tripped = r.tripped
  BY <1>1, CooledSound
<1> HIDE DEF c
<1>6. Sound(ask) /\ ask.ladder = c.ladder /\ ask.tripped = c.tripped
  BY <1>3, <1>4, <1>5, AskedSound
<1>7. c.pos = Flat => Sound(now) /\ now.ladder = c.ladder /\ now.tripped = c.tripped
  BY <1>3, <1>4, <1>5, OpenedSound DEF CandleOK
<1> HIDE DEF ask, now
<1> QED
  BY <1>1, <1>2, <1>5, <1>6, <1>7

-----------------------------------------------------------------------------
(* The ladder *)

LEMMA NoLadderIs == NoLadder \in Ladder
  BY DEF NoLadder, Ladder, Signs

LEMMA NewLadderIs ==
    ASSUME CandleOK, NEW side \in Sides
    PROVE  NewLadder(side) \in Ladder
  BY DEF NewLadder, Ladder, Signs, Sides, CandleOK

LEMMA ClimbedSound ==
    ASSUME NEW b, Sound(b)
    PROVE  /\ Sound(Climbed(b)) /\ Climbed(b).pos = b.pos /\ Climbed(b).order = b.order
           /\ Climbed(b).tripped = b.tripped
<1> DEFINE up == Reached(b.ladder)
           l == [b.ladder EXCEPT !.left = b.ladder.left \ up]
           m == IF b.ladder.left = up THEN NoLadder ELSE l
<1>1. Climbed(b) = [b EXCEPT !.ladder = m]
  BY DEF Climbed
<1>2. b.ladder \in Ladder
  BY BookIs
<1> HIDE DEF up
<1>3. l \in Ladder
  BY <1>2 DEF Ladder
<1> HIDE DEF l
<1>4. m \in Ladder
  BY <1>3, NoLadderIs
<1> HIDE DEF m
<1> QED
  BY <1>1, <1>4, LadderSound

\* What the ladder takes is no more than there is.
LEMMA LadderExitIs ==
    ASSUME NEW b, Sound(b), b.pos # Flat
    PROVE  LadderExit(b) \in Nat /\ LadderExit(b) <= b.pos.size
<1> DEFINE w == WeightOf(Reached(b.ladder))
<1>1. w = 0 \/ w = 2 \/ w = 3 \/ w = 5
  BY DEF WeightOf, Weight
<1>2. b.pos.size \in Nat /\ b.pos.size > 0
  BY BookIs DEF Sound, Fits, Position
<1> HIDE DEF w
<1>3. ASSUME NEW s \in Nat
      PROVE  /\ (s * 0) \div 5 = 0
             /\ (s * 2) \div 5 \in Nat /\ (s * 2) \div 5 <= s
             /\ (s * 3) \div 5 \in Nat /\ (s * 3) \div 5 <= s
             /\ (s * 5) \div 5 = s
  OBVIOUS
<1>4. (b.pos.size * w) \div 5 \in Nat /\ (b.pos.size * w) \div 5 <= b.pos.size
  BY <1>1, <1>2, <1>3
<1> QED
  BY <1>4 DEF LadderExit, w

LEMMA NoneLeftSound ==
    ASSUME NEW b, Sound(b)
    PROVE  /\ Sound(NoneLeft(b)) /\ NoneLeft(b).pos = b.pos /\ NoneLeft(b).order = b.order
           /\ NoneLeft(b).ladder = NoLadder /\ NoneLeft(b).tripped = b.tripped
  BY LadderSound, NoLadderIs DEF NoneLeft

-----------------------------------------------------------------------------
(* The step *)

LEMMA ReadySound ==
    ASSUME CandleOK, Sound(book)
    PROVE  Sound(Ready)
<1> DEFINE clock == Rolled(book, candle.n + 1)
           once == Resolved(clock)
           resolved == Resolved(once)
           bar == Rolled(resolved, candle.n)
           marked == [bar EXCEPT !.mark = candle.close]
<1>1. candle.n \in Int /\ candle.n + 1 \in Int /\ candle.close \in Int
  BY DEF CandleOK
<1>2. Ready = Checked(marked)
  BY DEF Ready
<1>3. Sound(clock)
  BY <1>1, RolledSound
<1> HIDE DEF clock
<1>4. Sound(once)
  BY <1>3, ResolvedSound
<1> HIDE DEF once
<1>5. Sound(resolved)
  BY <1>4, ResolvedSound
<1> HIDE DEF resolved
<1>6. Sound(bar)
  BY <1>1, <1>5, RolledSound
<1> HIDE DEF bar
<1>7. Sound(marked)
  BY <1>1, <1>6, MarkSound
<1> HIDE DEF marked
<1> QED
  BY <1>2, <1>7, CheckedSound

\* The whole of a position there is can be closed.
LEMMA AllClosedSound ==
    ASSUME CandleOK, NEW b, Sound(b), b.pos # Flat
    PROVE  /\ Sound(Resolved(NoneLeft(Close(b, b.pos.size)))) /\ Sound(NoneLeft(Close(b, b.pos.size)))
           /\ Resolved(NoneLeft(Close(b, b.pos.size))).tripped = b.tripped
           /\ NoneLeft(Close(b, b.pos.size)).tripped = b.tripped
<1>1. b.pos.size \in Nat /\ b.pos.size <= b.pos.size
  BY BookIs DEF Sound, Fits, Position
<1>2. Sound(Close(b, b.pos.size)) /\ Close(b, b.pos.size).tripped = b.tripped
  BY <1>1, CloseSound
<1>3. /\ Sound(NoneLeft(Close(b, b.pos.size)))
      /\ NoneLeft(Close(b, b.pos.size)).tripped = b.tripped
  BY <1>2, NoneLeftSound
<1> QED
  BY <1>3, ResolvedSound

LEMMA ReversedSound ==
    ASSUME CandleOK, NEW b, Sound(b)
    PROVE  Sound(Reversed(b)) /\ Reversed(b).tripped = b.tripped
  BY AllClosedSound DEF Reversed

\* The candle, the setting and the number of steps are those of the bounds.
Counted ==
    /\ candle.n \in 1..MaxBar /\ candle \in Candles(candle.n)
    /\ maker \in Makers /\ steps \in 0..MaxSteps

\* The inductive invariant: the book is sound, and the candle has numbers.
IInv == CandleOK /\ Sound(book) /\ Counted

LEMMA CandlesAre ==
    ASSUME NEW m \in Int, NEW c \in Candles(m)
    PROVE  c.n \in Int /\ c.close \in Int
<1>1. c.n = m /\ c.close \in Closes
  BY DEF Candles
<1> QED
  BY <1>1, PaperBounds

LEMMA InitSound == Init => IInv
<1> SUFFICES ASSUME Init PROVE IInv
  OBVIOUS
<1>1. CandleOK
  BY CandlesAre DEF Init, CandleOK
<1>2. Day(2) \in Int
  BY PaperBounds DEF Day
<1> DEFINE d == Day(2)
<1>3. /\ book.pos = Flat /\ book.order = NoOrder /\ book.cash = 0 /\ book.realized = 0
  BY DEF Init
<1>4. book \in Book
  <2>1. book = [pos |-> Flat, order |-> NoOrder, ladder |-> NoLadder, cash |-> 0,
                realized |-> 0, losses |-> 0, until |-> 0, anchor |-> 0, peak |-> 0,
                tripped |-> FALSE, day |-> d, mark |-> 0]
    BY DEF Init
  <2>2. d \in Int
    BY <1>2
  <2> HIDE DEF d
  <2> QED
    BY <2>1, <2>2, FlatIs, NoOrderIs, NoLadderIs DEF Book
<1>5. Sound(book)
  BY <1>3, <1>4, FlatIs, NoOrderIs DEF Sound, Fits
<1>6. Counted
  BY PaperBounds DEF Init, Counted, Candles
<1> QED
  BY <1>1, <1>5, <1>6 DEF IInv

LEMMA NextSound == IInv /\ [Next]_paperVars => IInv'
<1> SUFFICES ASSUME IInv, [Next]_paperVars PROVE IInv'
  OBVIOUS
<1>0. CandleOK /\ Sound(book) /\ Sound(Ready) /\ Counted
  BY ReadySound DEF IInv
\* A step leaves the candle, and what it makes of the book is sound.
<1>1. ASSUME NEW b, Stepped(b), Sound(b)
      PROVE  IInv'
  <2>1. book' = Resolved(b) /\ candle' = candle
    BY <1>1 DEF Stepped
  <2>2. Sound(Resolved(b))
    BY <1>0, <1>1, ResolvedSound
  <2>3. Sound(book)'
    BY <2>1, <2>2 DEF Sound, Fits, Fillable
  <2>4. CandleOK'
    BY <1>0, <2>1 DEF CandleOK
  <2>5. Counted'
    BY <1>0, <1>1, PaperBounds DEF Stepped, Counted, Candles
  <2> QED
    BY <2>3, <2>4, <2>5 DEF IInv
<1>2. CASE Halt
  <2>1. Ready.pos # Flat => Sound(Resolved(NoneLeft(Close(Ready, Ready.pos.size))))
    BY <1>0, AllClosedSound
  <2> QED
    BY <1>0, <1>1, <1>2, <2>1 DEF Halt
<1>3. CASE Leave
  <2>1. PICK b : Stepped(Resolved(b)) /\ Sound(b)
    <3>1. Ready.pos = Flat => Sound(Hold(Ready))
      BY <1>0, HoldSound
    <3>2. Ready.pos # Flat => Sound(NoneLeft(Close(Ready, Ready.pos.size)))
      BY <1>0, AllClosedSound
    <3> QED
      BY <1>3, <3>1, <3>2 DEF Leave
  <2> QED
    BY <1>0, <1>1, <2>1, ResolvedSound
<1>4. CASE Stay
  <2>1. Ready.pos # Flat
    BY <1>4 DEF Stay
  <2>2. Sound(Hold(Ready))
    BY <1>0, HoldSound
  <2>3. Sound(Close(Climbed(Ready), LadderExit(Ready)))
    <3>1. Sound(Climbed(Ready)) /\ Climbed(Ready).pos = Ready.pos
      BY <1>0, ClimbedSound
    <3>2. LadderExit(Ready) \in Nat /\ LadderExit(Ready) <= Ready.pos.size
      BY <1>0, <2>1, LadderExitIs
    <3> QED
      BY <1>0, <3>1, <3>2, CloseSound
  <2>4. PICK b : Stepped(Resolved(b)) /\ Sound(b)
    BY <1>4, <2>2, <2>3 DEF Stay
  <2> QED
    BY <1>0, <1>1, <2>4, ResolvedSound
<1>5. CASE NewCandle
  <2>1. candle' \in Candles(candle.n + 1) /\ book' = book
    BY <1>5 DEF NewCandle
  <2>2. CandleOK'
    <3>1. candle.n + 1 \in Int
      BY <1>0 DEF CandleOK
    <3>2. candle'.n \in Int /\ candle'.close \in Int
      BY <2>1, <3>1, CandlesAre
    <3> QED
      BY <3>2 DEF CandleOK
  <2>3. Sound(book)'
    BY <1>0, <2>1 DEF Sound, Fits, Fillable
  <2>4. Counted'
    <3>1. candle'.n = candle.n + 1
      BY <2>1 DEF Candles
    <3>2. candle'.n \in 1..MaxBar
      BY <1>0, <1>5, <3>1, PaperBounds DEF Counted, NewCandle
    <3> QED
      BY <1>0, <1>5, <2>1, <3>1, <3>2 DEF NewCandle, Counted, Candles
  <2> QED
    BY <2>2, <2>3, <2>4 DEF IInv
<1>6. ASSUME NEW side \in Sides, Turn(side)
      PROVE  IInv'
  <2>1. PICK barred \in BOOLEAN :
          Stepped(Resolved([Open(Reversed(Ready), side, barred) EXCEPT !.ladder = NewLadder(side)]))
    BY <1>6 DEF Turn
  <2>2. Sound(Open(Reversed(Ready), side, barred))
    BY <1>0, ReversedSound, OpenSound
  <2>3. Sound([Open(Reversed(Ready), side, barred) EXCEPT !.ladder = NewLadder(side)])
    BY <1>0, <2>2, NewLadderIs, LadderSound
  <2> QED
    BY <1>0, <1>1, <2>1, <2>3, ResolvedSound
<1>7. ASSUME NEW side \in Sides, TurnBlocked(side)
      PROVE  IInv'
  <2>1. Stepped(Resolved(Reversed(Ready)))
    BY <1>7 DEF TurnBlocked
  <2> QED
    BY <1>0, <1>1, <2>1, ReversedSound, ResolvedSound
<1>8. CASE UNCHANGED paperVars
  BY <1>0, <1>8 DEF paperVars, IInv, CandleOK, Sound, Fits, Fillable, Counted, Candles
<1> QED
  BY <1>2, <1>3, <1>4, <1>5, <1>6, <1>7, <1>8 DEF Next

(* The ledger closes whatever the prices, the sizes, the limits and the signals
   are: account.py books an entry's fee when it is paid and realises it with the
   lots it belongs to. *)
THEOREM LedgerCloses == Spec => []LedgerBalances
<1>1. IInv => LedgerBalances
  BY DEF IInv, Sound, LedgerBalances
<1> QED
  BY <1>1, InitSound, NextSound, PTL DEF Spec

LEMMA InvTyped == IInv => TypeOK
<1> SUFFICES ASSUME IInv PROVE TypeOK
  OBVIOUS
<1>1. book.pos \in Position /\ book.order \in Order /\ book.ladder \in Ladder
      /\ book.tripped \in BOOLEAN /\ book.losses \in Nat
  BY BookIs DEF IInv
<1> QED
  BY <1>1 DEF IInv, Counted, TypeOK, Position, Order, Ladder, Signs

(* The types of the trader, for every bound. *)
THEOREM TypeCorrect == Spec => []TypeOK
  BY InvTyped, InitSound, NextSound, PTL DEF Spec

-----------------------------------------------------------------------------
(* The breaker is final *)

\* The end of a step resolves twice after an order was placed.
Rested(b) == b.order = NoOrder \/ b.order.waited >= 2

\* What rests, if anything, is the exit of the whole position.
Ending(b) == b.order = NoOrder \/ (b.order.kind = "close" /\ b.order.size = b.pos.size)

\* Once it has tripped, no order rests that could open a position or leave a part of one.
BreakerInv == Rested(book) /\ (book.tripped => Ending(book))

\* An order that is still there after a resolve has waited longer, but not long enough.
LEMMA StillWaits ==
    ASSUME CandleOK, NEW b, Sound(b)
    PROVE  \/ Resolved(b).order = NoOrder
           \/ /\ b.order # NoOrder /\ Resolved(b).pos = b.pos
              /\ Resolved(b).order.waited = b.order.waited + 1 /\ b.order.waited + 1 < WaitBars
              /\ Resolved(b).order.kind = b.order.kind /\ Resolved(b).order.size = b.order.size
<1> DEFINE gone == [b EXCEPT !.order = NoOrder]
           o == [b.order EXCEPT !.waited = b.order.waited + 1]
           later == [b EXCEPT !.order = o]
<1>1. Sound(gone) /\ gone.pos = b.pos /\ gone.order = NoOrder
  BY OrderSound, NoOrderIs
<1>2. b.order \in Order /\ Fillable(b.pos, b.order) /\ b.order.waited \in Nat
  BY BookIs DEF Sound, Fits, Order
<1>3. Filled(gone, b.order).order = NoOrder
  <2> HIDE DEF gone
  <2> QED
    BY <1>1, <1>2, FilledSound
<1>4. o.waited = b.order.waited + 1 /\ o.kind = b.order.kind /\ o.size = b.order.size
  BY <1>2 DEF Order
<1>5. later.order = o /\ later.pos = b.pos
  BY OrderSound, WaitingIs
<1>6. \/ b.order = NoOrder /\ Resolved(b) = b
      \/ Resolved(b) = gone \/ Resolved(b) = Filled(gone, b.order)
      \/ b.order # NoOrder /\ ~(b.order.waited + 1 >= WaitBars) /\ Resolved(b) = later
  BY DEF Resolved
<1>7. ~(b.order.waited + 1 >= WaitBars) => b.order.waited + 1 < WaitBars
  BY <1>2, PaperBounds
<1> HIDE DEF gone, o, later
<1> QED
  BY <1>1, <1>3, <1>4, <1>5, <1>6, <1>7

LEMMA NothingRests ==
    ASSUME NEW b, b.order = NoOrder
    PROVE  Resolved(b) = b
  BY DEF Resolved

LEMMA TwiceRested ==
    ASSUME CandleOK, NEW b, Sound(b)
    PROVE  Rested(Resolved(Resolved(b)))
<1>1. Sound(Resolved(b)) /\ b.order.waited \in Nat /\ NoOrder.waited = 0
  BY ResolvedSound, BookIs DEF Order, NoOrder
<1>2. \/ Resolved(b).order = NoOrder
      \/ Resolved(b).order.waited = b.order.waited + 1
  BY StillWaits
<1>3. \/ Resolved(Resolved(b)).order = NoOrder
      \/ /\ Resolved(b).order # NoOrder
         /\ Resolved(Resolved(b)).order.waited = Resolved(b).order.waited + 1
  BY <1>1, StillWaits
<1> QED
  BY <1>1, <1>2, <1>3 DEF Rested

\* An exit of the whole position leaves nothing of it, or the position as it is.
LEMMA EndingResolved ==
    ASSUME CandleOK, NEW b, Sound(b), Ending(b)
    PROVE  Ending(Resolved(b)) /\ Resolved(b).pos \in {Flat, b.pos}
<1> DEFINE gone == [b EXCEPT !.order = NoOrder]
           o == [b.order EXCEPT !.waited = b.order.waited + 1]
           later == [b EXCEPT !.order = o]
<1>1. Sound(gone) /\ gone.pos = b.pos /\ gone.order = NoOrder
  BY OrderSound, NoOrderIs
<1>2. b.order \in Order /\ Fillable(b.pos, b.order)
  BY BookIs DEF Sound, Fits
<1>3. CASE b.order = NoOrder
  BY <1>3, NothingRests DEF Ending
<1>4. CASE b.order # NoOrder
  <2>1. b.order.kind = "close" /\ b.order.size = b.pos.size /\ b.pos # Flat
    BY <1>2, <1>4 DEF Ending, Fillable
  <2>2. \/ Resolved(b) = gone \/ Resolved(b) = Filled(gone, b.order) \/ Resolved(b) = later
    BY <1>4 DEF Resolved
  <2>3. Filled(gone, b.order) = Closed(gone, b.pos.size, b.order.price)
    BY <1>1, <2>1 DEF Filled
  <2>4. b.pos.size \in Nat /\ b.order.price \in Int /\ NoOrder.kind = "none"
    BY <1>2, BookIs, NoOrderIs, PaperBounds DEF Position, Order
  <2>5. Left(b.pos, b.pos.size) = Flat
    BY DEF Left
  <2>6. o.kind = b.order.kind /\ o.size = b.order.size
    BY <1>2 DEF Order
  <2>7. later.order = o /\ later.pos = b.pos
    BY OrderSound, WaitingIs
  <2> HIDE DEF gone, later, o
  <2>8. /\ Closed(gone, b.pos.size, b.order.price).pos = Flat
        /\ Closed(gone, b.pos.size, b.order.price).order = NoOrder
    BY <1>1, <2>1, <2>4, <2>5, ClosedSound
  <2> QED
    BY <1>1, <2>1, <2>2, <2>3, <2>6, <2>7, <2>8 DEF Ending
<1> QED
  BY <1>3, <1>4

\* When the breaker is checked no order rests: it has waited four times by then.
LEMMA ReadyBare ==
    ASSUME CandleOK, Sound(book), BreakerInv, WaitBars <= 4
    PROVE  /\ Ready.order = NoOrder
           /\ book.tripped => Ready.tripped /\ Ready.pos \in {Flat, book.pos}
<1> DEFINE clock == Rolled(book, candle.n + 1)
           once == Resolved(clock)
           twice == Resolved(once)
           bar == Rolled(twice, candle.n)
           marked == [bar EXCEPT !.mark = candle.close]
<1>1. candle.n \in Int /\ candle.n + 1 \in Int /\ candle.close \in Int
  BY DEF CandleOK
<1>2. Ready = Checked(marked)
  BY DEF Ready
<1>3. Sound(clock) /\ clock.order = book.order /\ clock.pos = book.pos /\ clock.tripped = book.tripped
  BY <1>1, RolledSound
<1> HIDE DEF clock
<1>4. Rested(clock) /\ (book.tripped => Ending(clock)) /\ clock.order.waited \in Nat
  BY <1>3, BookIs DEF BreakerInv, Rested, Ending, Order
<1>5. /\ Sound(once) /\ once.tripped = book.tripped
      /\ once.order = NoOrder \/ once.order.waited >= 3
  BY <1>3, <1>4, ResolvedSound, StillWaits DEF Rested
<1>6. book.tripped => Ending(once) /\ once.pos \in {Flat, book.pos}
  BY <1>3, <1>4, EndingResolved
<1> HIDE DEF once
<1>7. /\ Sound(twice) /\ twice.tripped = book.tripped
  BY <1>5, ResolvedSound
<1>8. twice.order = NoOrder
  <2>1. once.order.waited \in Nat /\ WaitBars \in Int
    BY <1>5, BookIs, PaperBounds DEF Order
  <2>2. \/ twice.order = NoOrder
        \/ once.order # NoOrder /\ once.order.waited + 1 < WaitBars
    BY <1>5, StillWaits
  <2> QED
    BY <1>5, <2>1, <2>2
<1>9. book.tripped => twice.pos \in {Flat, book.pos}
  BY <1>5, <1>6, EndingResolved
<1> HIDE DEF twice
<1>10. /\ Sound(bar) /\ bar.order = NoOrder /\ bar.pos = twice.pos /\ bar.tripped = book.tripped
  BY <1>1, <1>7, <1>8, RolledSound
<1> HIDE DEF bar
<1>11. /\ Sound(marked) /\ marked.order = NoOrder /\ marked.pos = twice.pos
       /\ marked.tripped = book.tripped
  BY <1>1, <1>10, MarkSound
<1> HIDE DEF marked
<1> QED
  BY <1>2, <1>9, <1>11, CheckedSound

\* A close of the whole position, with no order in its way.
LEMMA WholeClose ==
    ASSUME CandleOK, NEW b, Sound(b), b.pos # Flat, b.order = NoOrder
    PROVE  Ending(Close(b, b.pos.size)) /\ Close(b, b.pos.size).pos \in {Flat, b.pos}
<1> DEFINE r == Rolled(b, candle.n)
           ask == Asked(r, "close", -r.pos.side, b.pos.size)
           now == Closed(r, b.pos.size, candle.close)
<1>1. Sound(r) /\ r.pos = b.pos /\ r.order = NoOrder
  BY RolledSound DEF CandleOK
<1>2. NoOrder.kind = "none"
  BY NoOrderIs
<1>3. Close(b, b.pos.size) = (IF maker THEN ask ELSE now)
  BY <1>1, <1>2 DEF Close
<1>4. b.pos.size \in 0..Size /\ b.pos.size \in Nat /\ -r.pos.side \in Signs
  BY <1>1, BookIs, PaperBounds DEF Position, Signs
<1>5. Left(b.pos, b.pos.size) = Flat
  BY DEF Left
<1> HIDE DEF r
<1>6. ask.pos = b.pos /\ ask.order.kind = "close" /\ ask.order.size = b.pos.size
  BY <1>1, <1>4, AskedSound
<1>7. now.pos = Flat /\ now.order = NoOrder
  BY <1>1, <1>2, <1>4, <1>5, ClosedSound DEF CandleOK
<1> HIDE DEF ask, now
<1> QED
  BY <1>3, <1>6, <1>7 DEF Ending

LEMMA NoneLeftEnding ==
    ASSUME NEW b, Sound(b), Ending(b)
    PROVE  Ending(NoneLeft(b)) /\ NoneLeft(b).pos = b.pos
  BY NoneLeftSound DEF Ending

\* A step with a tripped breaker, and one without.
LEMMA BreakerNext ==
    ASSUME WaitBars <= 4, IInv, BreakerInv, [Next]_paperVars
    PROVE  BreakerInv' /\ (book.tripped => book'.pos \in {Flat, book.pos})
<1>0. CandleOK /\ Sound(book) /\ Sound(Ready)
  BY ReadySound DEF IInv
<1>1. /\ Ready.order = NoOrder
      /\ book.tripped => Ready.tripped /\ Ready.pos \in {Flat, book.pos}
  BY <1>0, ReadyBare
\* A step without a tripped breaker resolves twice, and the breaker stays as it is.
<1>2. ASSUME NEW b, Sound(b), b.tripped = Ready.tripped, ~Ready.tripped, Stepped(Resolved(b))
      PROVE  BreakerInv' /\ ~book.tripped
  <2>1. book' = Resolved(Resolved(b))
    BY <1>2 DEF Stepped
  <2>2. Rested(Resolved(Resolved(b)))
    BY <1>0, <1>2, TwiceRested
  <2>3. Sound(Resolved(b)) /\ Resolved(b).tripped = b.tripped
    BY <1>0, <1>2, ResolvedSound
  <2>4. Resolved(Resolved(b)).tripped = b.tripped
    BY <1>0, <2>3, ResolvedSound
  <2> QED
    BY <1>1, <1>2, <2>1, <2>2, <2>4 DEF BreakerInv, Rested
<1>3. CASE Halt
  <2>1. CASE Ready.pos = Flat
    <3>1. book' = Ready
      BY <1>1, <1>3, <2>1, NothingRests DEF Halt, Stepped
    <3> QED
      BY <1>1, <2>1, <3>1 DEF BreakerInv, Rested, Ending
  <2>2. CASE Ready.pos # Flat
    <3> DEFINE b == NoneLeft(Close(Ready, Ready.pos.size))
               once == Resolved(b)
    <3>1. book' = Resolved(once)
      BY <1>3, <2>2 DEF Halt, Stepped
    <3>2. Ready.pos.size \in Nat /\ Ready.pos.size <= Ready.pos.size
      BY <1>0, BookIs, PaperBounds DEF Position
    <3>3. Sound(Close(Ready, Ready.pos.size))
      BY <1>0, <3>2, CloseSound
    <3>4. Ending(Close(Ready, Ready.pos.size)) /\ Close(Ready, Ready.pos.size).pos \in {Flat, Ready.pos}
      BY <1>0, <1>1, <2>2, WholeClose
    <3>5. Sound(b) /\ Ending(b) /\ b.pos \in {Flat, Ready.pos}
      BY <3>3, <3>4, NoneLeftSound, NoneLeftEnding
    <3> HIDE DEF b
    <3>6. Sound(once) /\ Ending(once) /\ once.pos \in {Flat, Ready.pos}
      BY <1>0, <3>5, ResolvedSound, EndingResolved
    <3>7. Rested(Resolved(once))
      BY <1>0, <3>5, TwiceRested
    <3> HIDE DEF once
    <3>8. Ending(Resolved(once)) /\ Resolved(once).pos \in {Flat, Ready.pos}
      BY <1>0, <3>6, EndingResolved
    <3> QED
      BY <1>1, <3>1, <3>7, <3>8 DEF BreakerInv, Rested, Ending
  <2> QED
    BY <2>1, <2>2
<1>4. CASE Leave
  <2>1. PICK b : Stepped(Resolved(b)) /\ Sound(b) /\ b.tripped = Ready.tripped
    <3>1. Ready.pos = Flat => Sound(Hold(Ready)) /\ Hold(Ready).tripped = Ready.tripped
      BY <1>0, HoldSound
    <3>2. Ready.pos # Flat => /\ Sound(NoneLeft(Close(Ready, Ready.pos.size)))
                              /\ NoneLeft(Close(Ready, Ready.pos.size)).tripped = Ready.tripped
      BY <1>0, AllClosedSound
    <3> QED
      BY <1>4, <3>1, <3>2 DEF Leave
  <2> QED
    BY <1>2, <1>4, <2>1 DEF Leave
<1>5. CASE Stay
  <2>1. Ready.pos # Flat /\ ~Ready.tripped
    BY <1>5 DEF Stay
  <2>2. Sound(Hold(Ready)) /\ Hold(Ready).tripped = Ready.tripped
    BY <1>0, HoldSound
  <2>3. /\ Sound(Close(Climbed(Ready), LadderExit(Ready)))
        /\ Close(Climbed(Ready), LadderExit(Ready)).tripped = Ready.tripped
    <3>1. Sound(Climbed(Ready)) /\ Climbed(Ready).pos = Ready.pos /\ Climbed(Ready).tripped = Ready.tripped
      BY <1>0, ClimbedSound
    <3>2. LadderExit(Ready) \in Nat /\ LadderExit(Ready) <= Ready.pos.size
      BY <1>0, <2>1, LadderExitIs
    <3> QED
      BY <1>0, <3>1, <3>2, CloseSound
  <2>4. PICK b : Stepped(Resolved(b)) /\ Sound(b) /\ b.tripped = Ready.tripped
    BY <1>5, <2>2, <2>3 DEF Stay
  <2> QED
    BY <1>2, <2>1, <2>4
<1>6. ASSUME NEW side \in Sides, Turn(side)
      PROVE  BreakerInv' /\ ~book.tripped
  <2>1. PICK barred \in BOOLEAN :
          Stepped(Resolved([Open(Reversed(Ready), side, barred) EXCEPT !.ladder = NewLadder(side)]))
    BY <1>6 DEF Turn
  <2>2. Sound(Reversed(Ready)) /\ Reversed(Ready).tripped = Ready.tripped
    BY <1>0, ReversedSound
  <2>3. /\ Sound(Open(Reversed(Ready), side, barred))
        /\ Open(Reversed(Ready), side, barred).tripped = Ready.tripped
    BY <1>0, <2>2, OpenSound
  <2>4. /\ Sound([Open(Reversed(Ready), side, barred) EXCEPT !.ladder = NewLadder(side)])
        /\ [Open(Reversed(Ready), side, barred) EXCEPT !.ladder = NewLadder(side)].tripped = Ready.tripped
    BY <1>0, <2>3, NewLadderIs, LadderSound
  <2> QED
    BY <1>2, <1>6, <2>1, <2>4 DEF Turn
<1>7. ASSUME NEW side \in Sides, TurnBlocked(side)
      PROVE  BreakerInv' /\ ~book.tripped
  <2>1. Stepped(Resolved(Reversed(Ready))) /\ ~Ready.tripped
    BY <1>7 DEF TurnBlocked
  <2> QED
    BY <1>0, <1>2, <2>1, ReversedSound
<1>8. CASE book' = book
  BY <1>8 DEF BreakerInv, Rested, Ending
<1> QED
  BY <1>3, <1>4, <1>5, <1>6, <1>7, <1>8 DEF Next, NewCandle, paperVars

\* The breaker is final, for every price, size, limit and bound, as long as a
\* resting order is given up after at most four looks at it: the setting's
\* default is one (config.py).  With more, an entry that rests when the
\* breaker trips can be filled behind it.
THEOREM BreakerIsFinal ==
    ASSUME WaitBars <= 4
    PROVE  Spec => BreakerStaysFlat
<1>1. Init => BreakerInv
  BY DEF Init, BreakerInv, Rested
<1>2. ASSUME IInv, BreakerInv, [Next]_paperVars
      PROVE  BreakerInv' /\ (book.tripped => book'.pos \in {Flat, book.pos})
  BY <1>2, BreakerNext
<1>3. IInv /\ BreakerInv /\ [Next]_paperVars
         => BreakerInv' /\ [book.tripped => book'.pos \in {Flat, book.pos}]_paperVars
  BY <1>2
<1> QED
  BY <1>1, <1>3, InitSound, NextSound, PTL DEF Spec, BreakerStaysFlat

-----------------------------------------------------------------------------
(* The ladder takes its parts at a profit *)

\* A ladder with rungs left is that of the position, if there is one.
Matched(b) ==
    b.pos # Flat /\ b.ladder.left # {} => b.ladder.side = b.pos.side /\ b.ladder.entry = b.pos.entry

\* A taker has no orders.
Taker(b) == b.order = NoOrder /\ Matched(b)

LadderInv == ~maker => Taker(book)

LEMMA TakerReady ==
    ASSUME CandleOK, Sound(book), Taker(book)
    PROVE  Taker(Ready) /\ Ready.pos = book.pos
<1> DEFINE clock == Rolled(book, candle.n + 1)
           bar == Rolled(clock, candle.n)
           marked == [bar EXCEPT !.mark = candle.close]
<1>1. candle.n \in Int /\ candle.n + 1 \in Int /\ candle.close \in Int
  BY DEF CandleOK
<1>2. Sound(clock) /\ clock.order = NoOrder /\ clock.pos = book.pos /\ clock.ladder = book.ladder
  BY <1>1, RolledSound DEF Taker
<1>3. Ready = Checked(marked)
  BY <1>2, NothingRests DEF Ready
<1> HIDE DEF clock
<1>4. Sound(bar) /\ bar.order = NoOrder /\ bar.pos = book.pos /\ bar.ladder = book.ladder
  BY <1>1, <1>2, RolledSound
<1> HIDE DEF bar
<1>5. /\ Sound(marked) /\ marked.order = NoOrder /\ marked.pos = book.pos
      /\ marked.ladder = book.ladder
  BY <1>1, <1>4, MarkSound
<1> HIDE DEF marked
<1> QED
  BY <1>3, <1>5, CheckedSound DEF Taker, Matched

\* A close by a taker is done at once.
LEMMA TakerClose ==
    ASSUME CandleOK, ~maker, NEW b, Sound(b), b.order = NoOrder, b.pos # Flat,
           NEW size \in Nat, size <= b.pos.size
    PROVE  /\ Close(b, size).order = NoOrder /\ Close(b, size).ladder = b.ladder
           /\ Close(b, size).pos = Left(b.pos, size)
<1> DEFINE r == Rolled(b, candle.n)
           now == Closed(r, size, candle.close)
<1>1. Sound(r) /\ r.pos = b.pos /\ r.order = NoOrder /\ r.ladder = b.ladder
  BY RolledSound DEF CandleOK
<1>2. NoOrder.kind = "none"
  BY NoOrderIs
<1>3. Close(b, size) = now
  BY <1>1, <1>2 DEF Close
<1> HIDE DEF r
<1>4. now.pos = Left(b.pos, size) /\ now.order = NoOrder /\ now.ladder = b.ladder
  BY <1>1, <1>2, ClosedSound DEF CandleOK
<1> QED
  BY <1>3, <1>4

LEMMA TakerLeaves ==
    ASSUME CandleOK, ~maker, NEW b, Sound(b), b.order = NoOrder, b.pos # Flat
    PROVE  /\ Sound(NoneLeft(Close(b, b.pos.size)))
           /\ Taker(NoneLeft(Close(b, b.pos.size))) /\ NoneLeft(Close(b, b.pos.size)).pos = Flat
<1>1. b.pos.size \in Nat /\ b.pos.size <= b.pos.size
  BY BookIs, PaperBounds DEF Position
<1>2. Left(b.pos, b.pos.size) = Flat
  BY DEF Left
<1>3. Close(b, b.pos.size).order = NoOrder /\ Close(b, b.pos.size).pos = Flat
  BY <1>1, <1>2, TakerClose
<1>4. Sound(Close(b, b.pos.size))
  BY <1>1, CloseSound
<1> QED
  BY <1>3, <1>4, NoneLeftSound DEF Taker, Matched

LEMMA TakerReversed ==
    ASSUME CandleOK, ~maker, NEW b, Sound(b), Taker(b)
    PROVE  Sound(Reversed(b)) /\ Taker(Reversed(b)) /\ Reversed(b).pos = Flat
<1>1. CASE b.pos = Flat
  BY <1>1 DEF Reversed
<1>2. CASE b.pos # Flat
  <2>1. Reversed(b) = Resolved(NoneLeft(Close(b, b.pos.size)))
    BY <1>2 DEF Reversed
  <2>2. /\ Sound(NoneLeft(Close(b, b.pos.size))) /\ Taker(NoneLeft(Close(b, b.pos.size)))
        /\ NoneLeft(Close(b, b.pos.size)).pos = Flat
    BY <1>2, TakerLeaves DEF Taker
  <2>3. Resolved(NoneLeft(Close(b, b.pos.size))) = NoneLeft(Close(b, b.pos.size))
    BY <2>2, NothingRests DEF Taker
  <2> QED
    BY <2>1, <2>2, <2>3
<1> QED
  BY <1>1, <1>2

LEMMA TakerOpens ==
    ASSUME CandleOK, ~maker, NEW b, Sound(b), Taker(b), b.pos = Flat, NEW side \in Sides,
           NEW barred \in BOOLEAN
    PROVE  /\ Open(b, side, barred).order = NoOrder
           /\ \/ Open(b, side, barred).pos = Flat
              \/ /\ Open(b, side, barred).pos.side = side
                 /\ Open(b, side, barred).pos.entry = candle.close
<1> DEFINE r == Rolled(b, candle.n)
           c == Cooled(r)
           size == IF Halving(r) THEN Size \div 2 ELSE Size
           now == Opened(c, side, size, candle.close, candle.n)
<1>1. Sound(r) /\ r.pos = Flat /\ r.order = NoOrder
  BY RolledSound DEF CandleOK, Taker
<1>2. Open(b, side, barred) = c \/ Open(b, side, barred) = now
  BY DEF Open
<1>3. size \in 0..Size /\ size > 0
  BY PaperBounds
<1>4. side \in Signs
  BY DEF Sides, Signs
<1> HIDE DEF r, size
<1>5. Sound(c) /\ c.pos = Flat /\ c.order = NoOrder
  BY <1>1, CooledSound
<1> HIDE DEF c
<1>6. now.order = NoOrder /\ now.pos = Entered(side, size, candle.close, candle.n)
  BY <1>3, <1>4, <1>5, OpenedSound DEF CandleOK
<1>7. /\ Entered(side, size, candle.close, candle.n).side = side
      /\ Entered(side, size, candle.close, candle.n).entry = candle.close
  BY DEF Entered
<1> QED
  BY <1>2, <1>5, <1>6, <1>7

LEMMA LadderEnds == NoLadder.left = {}
  BY DEF NoLadder

\* What is left of a ladder is the ladder's.
LEMMA TakerClimbs ==
    ASSUME NEW b, Sound(b), Taker(b)
    PROVE  Taker(Climbed(b))
<1> DEFINE up == Reached(b.ladder)
           l == [b.ladder EXCEPT !.left = b.ladder.left \ up]
           m == IF b.ladder.left = up THEN NoLadder ELSE l
<1>1. Climbed(b) = [b EXCEPT !.ladder = m]
  BY DEF Climbed
<1>2. b.ladder \in Ladder
  BY BookIs
<1> HIDE DEF up
<1>3. l \in Ladder /\ l.side = b.ladder.side /\ l.entry = b.ladder.entry /\ l.left \subseteq b.ladder.left
  BY <1>2 DEF Ladder
<1> HIDE DEF l
<1>4. m \in Ladder /\ (m.left # {} => m = l)
  BY <1>3, NoLadderIs, LadderEnds
<1> HIDE DEF m
<1>5. /\ [b EXCEPT !.ladder = m].pos = b.pos /\ [b EXCEPT !.ladder = m].order = b.order
      /\ [b EXCEPT !.ladder = m].ladder = m
  BY <1>4, LadderSound
<1> QED
  BY <1>1, <1>3, <1>4, <1>5 DEF Taker, Matched

\* The position is made smaller, and nothing else about it changes.
Smaller(p, q) == q # Flat /\ q = [p EXCEPT !.size = q.size, !.fee = q.fee] /\ q.size < p.size

Profits == book.pos.side * (candle.close - book.pos.entry) >= Distance[1]

LEMMA LadderNext ==
    ASSUME IInv, LadderInv, [Next]_paperVars
    PROVE  LadderInv' /\ (~maker /\ Smaller(book.pos, book'.pos) => Profits)
<1>0. CandleOK /\ Sound(book) /\ Sound(Ready) /\ book.pos \in Position /\ Ready.pos \in Position
  BY ReadySound, BookIs DEF IInv
<1>a. CASE maker
  BY <1>a DEF LadderInv, Next, Halt, Leave, Stay, Turn, TurnBlocked, NewCandle, Stepped, paperVars
<1>b. CASE ~maker
  <2>1. Taker(Ready) /\ Ready.pos = book.pos
    BY <1>0, <1>b, TakerReady DEF LadderInv
  <2>2. ASSUME NEW b, Taker(b), Stepped(Resolved(b)) PROVE book' = b /\ LadderInv'
    <3>1. book' = b
      BY <2>2, NothingRests DEF Stepped, Taker
    <3> QED
      BY <2>2, <3>1 DEF LadderInv, Taker, Matched
  <2>3. ASSUME NEW b, Taker(b), Stepped(b) PROVE book' = b /\ LadderInv'
    <3>1. book' = b
      BY <2>3, NothingRests DEF Stepped, Taker
    <3> QED
      BY <2>3, <3>1 DEF LadderInv, Taker, Matched
  <2>4. ~Smaller(book.pos, Flat) /\ ~Smaller(book.pos, book.pos)
    BY <1>0 DEF Smaller, Position
  <2>5. CASE Halt
    <3>1. CASE Ready.pos = Flat
      BY <2>1, <2>3, <2>4, <2>5, <3>1 DEF Halt
    <3>2. CASE Ready.pos # Flat
      <4>1. /\ Taker(NoneLeft(Close(Ready, Ready.pos.size)))
            /\ NoneLeft(Close(Ready, Ready.pos.size)).pos = Flat
        BY <1>0, <1>b, <2>1, <3>2, TakerLeaves DEF Taker
      <4>2. Resolved(NoneLeft(Close(Ready, Ready.pos.size))) = NoneLeft(Close(Ready, Ready.pos.size))
        BY <4>1, NothingRests DEF Taker
      <4> QED
        BY <2>3, <2>4, <2>5, <3>2, <4>1, <4>2 DEF Halt
    <3> QED
      BY <3>1, <3>2
  <2>6. Taker(Hold(Ready)) /\ Hold(Ready).pos = book.pos
    <3>1. /\ Hold(Ready).ladder = Ready.ladder /\ Hold(Ready).pos = Ready.pos
          /\ Hold(Ready).order \in {NoOrder, Ready.order}
      BY <1>0, HoldSound
    <3> QED
      BY <2>1, <3>1 DEF Taker, Matched
  <2>7. CASE Leave
    <3>1. CASE Ready.pos = Flat
      BY <2>2, <2>4, <2>6, <2>7, <3>1 DEF Leave
    <3>2. CASE Ready.pos # Flat
      <4>1. /\ Taker(NoneLeft(Close(Ready, Ready.pos.size)))
            /\ NoneLeft(Close(Ready, Ready.pos.size)).pos = Flat
        BY <1>0, <1>b, <2>1, <3>2, TakerLeaves DEF Taker
      <4> QED
        BY <2>2, <2>4, <2>7, <3>2, <4>1 DEF Leave
    <3> QED
      BY <3>1, <3>2
  <2>8. CASE Stay
    <3>1. CASE Reached(Ready.ladder) = {}
      BY <2>2, <2>4, <2>6, <2>8, <3>1 DEF Stay
    <3>2. CASE Reached(Ready.ladder) # {}
      <4>1. Ready.pos # Flat /\ Ready.ladder \in Ladder
        BY <1>0, <2>8, BookIs DEF Stay
      <4>2. PICK i \in Ready.ladder.left : Ready.ladder.side * (candle.close - Ready.ladder.entry) >= Distance[i]
        BY <3>2 DEF Reached
      <4>3. Distance[i] >= Distance[1] /\ Distance[1] = 2 /\ Distance[i] \in Int
        BY <4>1, <4>2 DEF Ladder, Rungs, Distance
      <4>4. Ready.ladder.side = book.pos.side /\ Ready.ladder.entry = book.pos.entry
        BY <2>1, <4>1, <4>2 DEF Taker, Matched
      <4>5. Profits
        <5>1. book.pos.side \in Int /\ candle.close - book.pos.entry \in Int
          BY <1>0 DEF Position, Signs, CandleOK
        <5>2. book.pos.side * (candle.close - book.pos.entry) \in Int
          BY <5>1
        <5> QED
          BY <4>2, <4>3, <4>4, <5>2 DEF Profits
      <4>6. LadderInv'
        <5> DEFINE c == Climbed(Ready)
                   size == LadderExit(Ready)
        <5>1. Sound(c) /\ c.pos = Ready.pos /\ Taker(c)
          BY <1>0, <2>1, ClimbedSound, TakerClimbs
        <5>2. size \in Nat /\ size <= c.pos.size
          BY <1>0, <4>1, <5>1, LadderExitIs
        <5>3. Stepped(Resolved(Close(c, size)))
          BY <2>8, <3>2 DEF Stay
        <5> HIDE DEF c, size
        <5>4. /\ Close(c, size).order = NoOrder /\ Close(c, size).ladder = c.ladder
              /\ Close(c, size).pos = Left(c.pos, size)
          BY <1>0, <1>b, <4>1, <5>1, <5>2, TakerClose DEF Taker
        <5>5. c.pos \in Position
          BY <5>1, BookIs
        <5>6. \/ Left(c.pos, size) = Flat
              \/ Left(c.pos, size).side = c.pos.side /\ Left(c.pos, size).entry = c.pos.entry
          BY <5>5 DEF Left, Position
        <5>7. Taker(Close(c, size))
          BY <4>1, <5>1, <5>4, <5>6 DEF Taker, Matched
        <5> QED
          BY <2>2, <5>3, <5>7
      <4> QED
        BY <4>5, <4>6
    <3> QED
      BY <3>1, <3>2
  <2>9. /\ Sound(Reversed(Ready)) /\ Taker(Reversed(Ready)) /\ Reversed(Ready).pos = Flat
    BY <1>0, <1>b, <2>1, TakerReversed
  <2>10. ASSUME NEW side \in Sides, TurnBlocked(side)
         PROVE  LadderInv' /\ ~Smaller(book.pos, book'.pos)
    BY <2>2, <2>4, <2>9, <2>10 DEF TurnBlocked
  <2>11. ASSUME NEW side \in Sides, Turn(side)
         PROVE  LadderInv' /\ ~Smaller(book.pos, book'.pos)
    <3>1. PICK barred \in BOOLEAN :
            Stepped(Resolved([Open(Reversed(Ready), side, barred) EXCEPT !.ladder = NewLadder(side)]))
      BY <2>11 DEF Turn
    <3> DEFINE o == Open(Reversed(Ready), side, barred)
               b == [o EXCEPT !.ladder = NewLadder(side)]
    <3>2. /\ o.order = NoOrder
          /\ o.pos = Flat \/ (o.pos.side = side /\ o.pos.entry = candle.close)
      BY <1>0, <1>b, <2>9, TakerOpens
    <3>3. Sound(o)
      BY <1>0, <2>9, OpenSound
    <3> HIDE DEF o
    <3>4. b.order = NoOrder /\ b.pos = o.pos /\ b.ladder = NewLadder(side)
      BY <1>0, <3>2, <3>3, NewLadderIs, LadderSound
    <3>5. NewLadder(side).side = side /\ NewLadder(side).entry = candle.close
      BY DEF NewLadder
    <3>6. Taker(b)
      BY <3>2, <3>4, <3>5 DEF Taker, Matched
    <3>7. book' = b /\ LadderInv'
      BY <2>2, <3>1, <3>6 DEF o
    <3>8. ~Smaller(book.pos, o.pos)
      <4>1. book.pos.side # side
        BY <2>1, <2>11 DEF Turn
      <4>2. ASSUME Smaller(book.pos, o.pos), o.pos # Flat PROVE FALSE
        <5>1. o.pos.side = book.pos.side
          BY <1>0, <4>2 DEF Smaller, Position
        <5> QED
          BY <3>2, <4>1, <4>2, <5>1
      <4> QED
        BY <2>4, <4>2
    <3> QED
      BY <3>4, <3>7, <3>8
  <2>12. CASE book' = book /\ maker' = maker
    BY <1>b, <2>4, <2>12 DEF LadderInv, Taker, Matched
  <2> QED
    BY <1>b, <2>5, <2>7, <2>8, <2>10, <2>11, <2>12 DEF Next, NewCandle, paperVars
<1> QED
  BY <1>a, <1>b

\* The ladder takes a part of a position only at a profit of a rung or more from
\* the entry of that very position, whatever the prices and the limits are.
THEOREM LadderProfits == Spec => LadderTakesProfit
<1>1. Init => LadderInv
  <2> SUFFICES ASSUME Init PROVE LadderInv
    OBVIOUS
  <2>1. book.order = NoOrder /\ book.pos = Flat
    BY DEF Init
  <2> QED
    BY <2>1 DEF LadderInv, Taker, Matched
<1>2. ASSUME IInv, LadderInv, [Next]_paperVars
      PROVE  LadderInv' /\ (~maker /\ Smaller(book.pos, book'.pos) => Profits)
  BY <1>2, LadderNext
<1>3. IInv /\ LadderInv /\ [Next]_paperVars
         => LadderInv' /\ [(~maker /\ book'.pos # Flat
                             /\ book'.pos = [book.pos EXCEPT !.size = book'.pos.size, !.fee = book'.pos.fee]
                             /\ book'.pos.size < book.pos.size)
                           => book.pos.side * (candle.close - book.pos.entry) >= Distance[1]]_paperVars
  BY <1>2 DEF Smaller, Profits
<1> QED
  BY <1>1, <1>3, InitSound, NextSound, PTL DEF Spec, LadderTakesProfit
=============================================================================
