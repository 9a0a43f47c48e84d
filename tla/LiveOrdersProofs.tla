-------------------------- MODULE LiveOrdersProofs --------------------------
(***************************************************************************)
(* What the maker orders of a live trader keep, whatever the bounds, the   *)
(* policy and the faults are: the types, one tracked order that fits the   *)
(* position, and the ledger of FillLedger.  And how far the exposure goes  *)
(* while nothing but fetches fails.                                        *)
(***************************************************************************)
EXTENDS LiveOrders, TLAPS

\* The exchange: an order that was sent has a client order id that was given
\* out, and is filled up to its size; nothing is booked that is not filled.
OrderSound(o) ==
    /\ ord[o].filled <= ord[o].size
    /\ ord[o].st = "none" => ord[o].filled = 0
    /\ ord[o].st # "none" => o < nextCoid /\ ord[o].size > 0 /\ ord[o].bar \in 1..bar
    /\ ord[o].st = "open" => ord[o].filled < ord[o].size
    /\ ord[o].st = "closed" => ord[o].filled = ord[o].size
    /\ booked[o] <= ord[o].filled

\* An intent names an order of its own side, kind and bar, if it names one
\* that was sent, and no two intents name the same.
IntentSound(i) ==
    /\ i.o < nextCoid /\ i.bar <= bar
    /\ ord[i.o].st # "none" =>
          ord[i.o].dir = i.dir /\ ord[i.o].kind = i.kind /\ ord[i.o].bar = i.bar
    /\ \A j \in intents : i.o = j.o => i = j

\* A report is never ahead of the exchange.
ReportSound ==
    tr.pc = "apply" =>
        /\ tr.got.filled <= ord[tr.o].filled
        /\ tr.got.st = "closed" => ord[tr.o].filled = ord[tr.o].size

\* An order on the side of the position if it opens, against it if it closes.
OnSide(o) == Sign(pos) \in {0, IF ord[o].kind = "open" THEN ord[o].dir ELSE -ord[o].dir}

\* A closing order of which nothing is booked yet is as large as the position.
Whole(o) == Sign(pos) = -ord[o].dir /\ ord[o].size = Abs(pos) /\ booked[o] = 0

\* A trader that waits for an answer tracks nothing, so that its position
\* stays what it was when it sent the order.
AnswerSound ==
    tr.pc = "answer" =>
        /\ tr.plan # <<>>
        /\ ord[tr.o].st # "none"
        /\ pending = {}
        /\ ord[tr.o].kind = "open" => pos = 0
        /\ OnSide(tr.o)
        /\ \A i \in intents : i.bar <= ord[tr.o].bar
        /\ restarts = 0 /\ ord[tr.o].kind = "close" => Whole(tr.o)

\* So does one whose closing order of this bar got no answer: only that order
\* can be registered next.
LostSound ==
    restarts = 0 =>
        \A i \in intents : i.kind = "close" /\ i.bar = bar /\ ord[i.o].st # "none" =>
            pending = {} /\ Whole(i.o)

IInv ==
    /\ TypeOK
    /\ \A o \in Coids : OrderSound(o)
    /\ \A i \in intents : IntentSound(i)
    /\ ReportSound
    /\ AnswerSound
    /\ LostSound
    /\ OneFittingOrder
-----------------------------------------------------------------------------
(* Signs, booking and cancelling *)

LEMMA SignIs ==
    ASSUME NEW n \in Int
    PROVE  /\ Sign(n) \in {-1, 0, 1} /\ Abs(n) \in Nat
           /\ n = 0 => Sign(n) = 0 /\ Abs(n) = 0
           /\ n > 0 => Sign(n) = 1 /\ Abs(n) = n
           /\ n < 0 => Sign(n) = -1 /\ Abs(n) = -n
<1>1. CASE n > 0
  BY <1>1 DEF Sign, Abs
<1>2. CASE n < 0
  BY <1>2 DEF Sign, Abs
<1>3. CASE n = 0
  BY <1>3 DEF Sign, Abs
<1> QED
  BY <1>1, <1>2, <1>3

LEMMA OrderFields ==
    ASSUME TypeOK, NEW o \in Coids
    PROVE  /\ ord[o] \in Order /\ booked[o] \in Nat /\ told[o] \in Nat
           /\ ord[o].st \in {"none", "open", "closed", "canceled"}
           /\ ord[o].dir \in Dirs /\ ord[o].kind \in {"open", "close"}
           /\ ord[o].size \in Nat /\ ord[o].bar \in Nat /\ ord[o].filled \in Nat
  BY DEF TypeOK, Order

\* What booking a cumulative quantity of a tracked order does, if the exchange
\* has filled as much.
BooksUpTo(o, cum) ==
    /\ booked' \in [Coids -> Nat] /\ pos' \in Int
    /\ \A p \in Coids : p # o => booked'[p] = booked[p]
    /\ booked'[o] <= ord[o].filled /\ booked'[o] >= booked[o] /\ booked'[o] >= cum
    /\ Sign(pos') \in {0, IF ord[o].kind = "open" THEN ord[o].dir ELSE -ord[o].dir}
    /\ restarts = 0 /\ ord[o].kind = "close" /\ cum < ord[o].size =>
          pos' # 0 /\ ord[o].size - booked'[o] <= Abs(pos')
    /\ \/ pos' = pos + ord[o].dir * (booked'[o] - booked[o])
       \/ restarts # 0 /\ pos' = pos

LEMMA BookIs ==
    ASSUME TypeOK, OneFittingOrder, NEW o \in pending, OrderSound(o),
           NEW cum \in Nat, cum <= ord[o].filled,
           ~BookingRaises(o, cum), Book(o, cum)
    PROVE  BooksUpTo(o, cum)
<1> DEFINE b == booked[o]
           sz == ord[o].size
           d == ord[o].dir
<1>1. /\ o \in Coids /\ pos \in Int /\ booked \in [Coids -> Nat]
      /\ b \in Nat /\ sz \in Nat /\ d \in {-1, 1} /\ ord[o].filled \in Nat
      /\ ord[o].kind \in {"open", "close"}
  BY OrderFields DEF TypeOK, Dirs
<1>2. cum <= sz /\ b <= ord[o].filled /\ ord[o].filled <= sz
  BY <1>1 DEF OrderSound
<1>3. Delta(o, cum) = cum - b
  BY <1>1, <1>2 DEF Delta, Smaller
<1>4. /\ Sign(pos) \in {0, IF ord[o].kind = "open" THEN d ELSE -d}
      /\ restarts = 0 /\ ord[o].kind = "close" => pos # 0 /\ sz - b <= Abs(pos)
  BY DEF OneFittingOrder
<1> HIDE DEF b, sz, d
<1>5. CASE cum - b <= 0
  <2>1. booked' = booked /\ pos' = pos
    BY <1>1, <1>3, <1>5 DEF Book
  <2>2. b >= cum /\ d * (b - b) = 0
    BY <1>1, <1>5
  <2> QED
    BY <2>1, <2>2, <1>1, <1>2, <1>4 DEF BooksUpTo, b, sz, d
<1>6. CASE cum - b > 0
  <2>1. /\ booked' = [booked EXCEPT ![o] = @ + Delta(o, cum)]
        /\ pos' = IF ~Moves(o) THEN pos
                  ELSE IF ord[o].kind = "open" THEN pos + d * (cum - b)
                  ELSE pos - Sign(pos) * (cum - b)
    BY <1>3, <1>6 DEF Book, d
  <2>2. booked'[o] = cum /\ booked' \in [Coids -> Nat] /\ \A p \in Coids : p # o => booked'[p] = booked[p]
    BY <2>1, <1>1, <1>3 DEF b
  <2>3. CASE ord[o].kind = "open"
    <3>1. pos' = pos + d * (cum - b)
      BY <2>1, <2>3, <1>4 DEF Moves, d
    <3>2. Sign(pos) \in {0, d}
      BY <1>4, <2>3
    <3>3. pos' \in Int /\ Sign(pos') = d
      <4>1. CASE d = 1
        BY <4>1, <3>1, <3>2, <1>1, <1>6 DEF Sign
      <4>2. CASE d = -1
        BY <4>2, <3>1, <3>2, <1>1, <1>6 DEF Sign
      <4> QED
        BY <4>1, <4>2, <1>1
    <3> QED
      BY <2>2, <2>3, <3>1, <3>3, <1>1, <1>2, <1>6 DEF BooksUpTo, b, sz, d
  <2>4. CASE ord[o].kind = "close" /\ pos = 0
    <3>1. pos' = pos /\ restarts # 0
      BY <2>1, <2>4, <1>4 DEF Moves
    <3>2. Sign(pos') = 0
      BY <3>1, <2>4 DEF Sign
    <3> QED
      BY <2>2, <2>4, <3>1, <3>2, <1>1, <1>2, <1>6 DEF BooksUpTo, b, sz, d
  <2>5. CASE ord[o].kind = "close" /\ pos # 0
    <3>1. pos' = pos - Sign(pos) * (cum - b) /\ Sign(pos) = -d
      BY <2>1, <2>5, <1>1, <1>4 DEF Moves, Sign
    <3>2. cum - b <= Abs(pos)
      BY <2>5, <1>3, <1>6, <1>1, SignIs DEF BookingRaises
    <3>3. /\ pos' \in Int /\ Sign(pos') \in {0, -d} /\ Abs(pos') = Abs(pos) - (cum - b)
          /\ pos' = pos + d * (cum - b)
      <4>1. CASE d = 1
        <5>1. pos < 0 /\ Abs(pos) = -pos
          BY <4>1, <3>1, <1>1, SignIs
        <5>2. pos' = pos + (cum - b) /\ pos' <= 0 /\ pos' \in Int
          BY <5>1, <4>1, <3>1, <3>2, <1>1
        <5> QED
          BY <5>1, <5>2, <4>1, <1>1, SignIs
      <4>2. CASE d = -1
        <5>1. pos > 0 /\ Abs(pos) = pos
          BY <4>2, <3>1, <1>1, SignIs
        <5>2. pos' = pos - (cum - b) /\ pos' >= 0 /\ pos' \in Int
          BY <5>1, <4>2, <3>1, <3>2, <1>1
        <5> QED
          BY <5>1, <5>2, <4>2, <1>1, SignIs
      <4> QED
        BY <4>1, <4>2, <1>1
    <3>4. restarts = 0 /\ cum < sz => pos' # 0 /\ sz - cum <= Abs(pos')
      <4> SUFFICES ASSUME restarts = 0, cum < sz
                   PROVE  pos' # 0 /\ sz - cum <= Abs(pos')
        OBVIOUS
      <4>1. sz - b <= Abs(pos) /\ Abs(pos) \in Nat
        BY <1>1, <1>4, <2>5, SignIs
      <4>2. sz - cum <= Abs(pos')
        BY <4>1, <3>3, <1>1
      <4>3. Abs(0) = 0
        BY SignIs
      <4> QED
        BY <4>2, <4>3, <1>1
    <3> QED
      BY <2>2, <2>5, <3>3, <3>4, <1>1, <1>2, <1>6 DEF BooksUpTo, b, sz, d
  <2> QED
    BY <2>3, <2>4, <2>5, <1>1
<1> QED
  BY <1>1, <1>5, <1>6

\* Orders of which some are not open any more.
Weaker(book) ==
    /\ book \in [Coids -> Order]
    /\ \A o \in Coids : book[o] = ord[o] \/ (ord[o].st = "open" /\ book[o] = [ord[o] EXCEPT !.st = "canceled"])

LEMMA CancelledIs ==
    ASSUME TypeOK, NEW o \in Coids, NEW book \in Cancelled(o)
    PROVE  Weaker(book)
  BY DEF Cancelled, Weaker, TypeOK, Order

LEMMA WeakerIs ==
    ASSUME TypeOK, NEW book, Weaker(book), NEW o \in Coids
    PROVE  /\ book[o] \in Order
           /\ book[o].dir = ord[o].dir /\ book[o].kind = ord[o].kind /\ book[o].size = ord[o].size
           /\ book[o].bar = ord[o].bar /\ book[o].filled = ord[o].filled
           /\ book[o].st = ord[o].st \/ (ord[o].st = "open" /\ book[o].st = "canceled")
  BY DEF Weaker, TypeOK, Order

-----------------------------------------------------------------------------
(* Steps of the trader that change its own record only *)

\* A trader that is not waiting for an answer, and whose report is sound.
CalmTrader(t) ==
    /\ t \in TraderState
    /\ t.pc # "answer"
    /\ t.pc = "apply" => /\ t.o \in Coids
                         /\ t.got.filled <= ord[t.o].filled
                         /\ t.got.st = "closed" => ord[t.o].filled = ord[t.o].size

LEMMA RestingIs == CalmTrader(Resting) /\ Resting.pc = "idle"
  BY DEF Resting, NoReport, CalmTrader, TraderState, Call

LEMMA QuietStep ==
    ASSUME IInv, CalmTrader(tr'), tripped' \in BOOLEAN,
           UNCHANGED <<exchange, told, journal, intents, nextCoid, bar, restarts>>
    PROVE  IInv'
<1> USE DEF exchange, journal
<1>1. TypeOK'
  BY DEF IInv, TypeOK, CalmTrader
<1>2. \A o \in Coids : OrderSound(o)'
  BY DEF IInv, OrderSound
<1>3. \A i \in intents' : IntentSound(i)'
  BY DEF IInv, IntentSound
<1>4. ReportSound' /\ AnswerSound'
  BY DEF CalmTrader, ReportSound, AnswerSound
<1>5. LostSound'
  BY DEF IInv, LostSound, Whole
<1>6. OneFittingOrder'
  BY DEF IInv, OneFittingOrder
<1> QED
  BY <1>1, <1>2, <1>3, <1>4, <1>5, <1>6 DEF IInv

LEMMA TraderFields ==
    ASSUME TypeOK
    PROVE  /\ tr \in TraderState /\ tr.todo \subseteq Coids /\ tr.o \in {0} \cup Coids
           /\ tr.plan \in Seq(Call)
           /\ tr.got \in [st : {"none", "open", "closed", "canceled"}, filled : Nat]
           /\ tr.got.filled \in Nat
  BY DEF TypeOK, TraderState

LEMMA StartCycleKeeps == ASSUME IInv, StartCycle PROVE IInv'
<1>1. TypeOK /\ pending \subseteq Coids
  BY DEF IInv, TypeOK
<1>2. CalmTrader(tr')
  BY <1>1, TraderFields DEF StartCycle, CalmTrader, TraderState
<1> QED
  BY <1>1, <1>2, QuietStep DEF StartCycle, TypeOK

LEMMA PollFetchKeeps == ASSUME IInv, NEW o \in Coids, PollFetch(o) PROVE IInv'
<1>1. TypeOK /\ OrderSound(o)
  BY DEF IInv
<1>2. /\ tr'.pc = "apply" /\ tr'.o = o
      /\ tr'.got = [st |-> ord[o].st, filled |-> ord[o].filled]
      /\ tr' \in TraderState
  BY <1>1, TraderFields, OrderFields DEF PollFetch, TraderState
<1>3. CalmTrader(tr')
  BY <1>1, <1>2, OrderFields DEF CalmTrader, OrderSound
<1> QED
  BY <1>1, <1>3, QuietStep DEF PollFetch, TypeOK

LEMMA PollFetchFailsKeeps == ASSUME IInv, NEW o \in Coids, PollFetchFails(o) PROVE IInv'
<1>1. TypeOK
  BY DEF IInv
<1>2. CalmTrader([tr EXCEPT !.todo = @ \ {o}])
  BY <1>1, TraderFields DEF PollFetchFails, CalmTrader, TraderState
<1>3. CalmTrader(tr')
  BY <1>2, RestingIs DEF PollFetchFails
<1> QED
  BY <1>1, <1>3, QuietStep DEF PollFetchFails, TypeOK

LEMMA PositionsKeep == ASSUME IInv, FetchPositions \/ FetchPositionsFails \/ Compare PROVE IInv'
<1>1. TypeOK /\ exPos \in Int
  BY DEF IInv, TypeOK
<1>2. CASE FetchPositions
  <2>1. CalmTrader(tr')
    BY <1>1, <1>2, TraderFields DEF FetchPositions, CalmTrader, TraderState
  <2> QED
    BY <1>1, <1>2, <2>1, QuietStep DEF FetchPositions, TypeOK
<1>3. CASE FetchPositionsFails
  BY <1>1, <1>3, RestingIs, QuietStep DEF FetchPositionsFails, TypeOK
<1>4. CASE Compare
  <2>0. ASSUME NEW n \in Int
        PROVE  /\ [tr EXCEPT !.pc = "decide", !.seen = n] \in TraderState
               /\ [tr EXCEPT !.pc = "halted", !.seen = n] \in TraderState
    BY <1>1, TraderFields DEF TraderState
  <2>1. CASE Matches(tr.seen)
    <3>1. tr' = [tr EXCEPT !.pc = "decide", !.seen = 0]
      BY <1>4, <2>1 DEF Compare
    <3>2. tr' \in TraderState
      <4>1. 0 \in Int
        OBVIOUS
      <4> QED
        BY <2>0, <3>1, <4>1, Zenon
    <3>3. tr'.pc \in {"decide", "halted"}
      BY <1>1, <3>1, TraderFields DEF TraderState
    <3> QED
      BY <1>1, <1>4, <3>2, <3>3, QuietStep DEF Compare, TypeOK, CalmTrader
  <2>2. CASE ~Matches(tr.seen)
    <3>1. tr' = [tr EXCEPT !.pc = "halted", !.seen = 0]
      BY <1>4, <2>2 DEF Compare
    <3>2. tr' \in TraderState
      <4>1. 0 \in Int
        OBVIOUS
      <4> QED
        BY <2>0, <3>1, <4>1, Zenon
    <3>3. tr'.pc \in {"decide", "halted"}
      BY <1>1, <3>1, TraderFields DEF TraderState
    <3> QED
      BY <1>1, <1>4, <3>2, <3>3, QuietStep DEF Compare, TypeOK, CalmTrader
  <2> QED
    BY <2>1, <2>2
<1> QED
  BY <1>2, <1>3, <1>4

LEMMA PlansIs ==
    ASSUME TypeOK, NEW want \in {-1, 0, 1}, NEW broken \in BOOLEAN, NEW plan \in Plans(want, broken)
    PROVE  plan \in Seq(Call)
<1>1. Close \in Call /\ Hold \in Call /\ (want # 0 => Open(want) \in Call)
  BY DEF Close, Hold, Open, Call, Dirs
<1>2. /\ <<Close>> \in Seq(Call) /\ <<Hold>> \in Seq(Call) /\ << >> \in Seq(Call)
      /\ want # 0 => <<Open(want)>> \in Seq(Call)
  BY <1>1
<1>3. \A x \in Exits : x \in Seq(Call)
  BY <1>2 DEF Exits
<1>4. want # 0 => \A e \in Entries(want) : e \in Seq(Call)
  BY <1>2 DEF Entries
<1>5. want # 0 => \A x \in Exits : \A e \in Entries(want) : x \o e \in Seq(Call)
  BY <1>3, <1>4
<1>6. CASE broken
  BY <1>3, <1>6 DEF Plans
<1>7. CASE ~broken /\ (want = 0 \/ want = Sign(pos))
  <2>1. plan \in Exits \/ plan = <<Hold>>
    BY <1>7 DEF Plans
  <2> QED
    BY <1>2, <1>3, <2>1
<1>8. CASE ~broken /\ want # 0 /\ want # Sign(pos)
  <2>1. PICK x \in Exits, e \in Entries(want) : plan = x \o e
    BY <1>8 DEF Plans
  <2> QED
    BY <1>5, <1>8, <2>1
<1> QED
  BY <1>6, <1>7, <1>8

LEMMA DecideKeeps == ASSUME IInv, Decide PROVE IInv'
<1>1. TypeOK
  BY DEF IInv
<1>2. tripped' \in BOOLEAN
  BY <1>1, LiveBounds DEF Decide, TypeOK
<1>3. PICK want \in {-1, 0, 1} : \E plan \in Plans(want, tripped') :
        tr' = [tr EXCEPT !.pc = "execute", !.plan = plan]
  BY DEF Decide
<1>4. PICK plan \in Plans(want, tripped') : tr' = [tr EXCEPT !.pc = "execute", !.plan = plan]
  BY <1>3
<1>5. plan \in Seq(Call)
  BY <1>1, <1>2, PlansIs
<1>6. CalmTrader(tr')
  BY <1>1, <1>4, <1>5, TraderFields DEF CalmTrader, TraderState
<1> QED
  BY <1>2, <1>6, QuietStep DEF Decide

LEMMA EndOfCycleKeeps == ASSUME IInv, NoDecision \/ NothingToExecute PROVE IInv'
<1>1. tripped' \in BOOLEAN /\ tr' = Resting
  BY DEF IInv, TypeOK, NoDecision, NothingToExecute
<1> QED
  BY <1>1, RestingIs, QuietStep DEF NoDecision, NothingToExecute

-----------------------------------------------------------------------------
(* The exchange, time, and the stream's losses *)

LEMMA FillKeeps == ASSUME IInv, NEW o \in Coids, Fill(o) PROVE IInv'
<1> USE DEF journal
<1>1. TypeOK /\ OrderSound(o) /\ ord[o].st = "open" /\ ord[o].filled < ord[o].size
  BY DEF IInv, Fill, OrderSound
<1> DEFINE st == IF ord[o].filled + 1 = ord[o].size THEN "closed" ELSE "open"
           w == [ord[o] EXCEPT !.filled = @ + 1, !.st = st]
<1>2. /\ w \in Order /\ w.filled = ord[o].filled + 1 /\ w.st = st
      /\ w.dir = ord[o].dir /\ w.kind = ord[o].kind /\ w.size = ord[o].size /\ w.bar = ord[o].bar
  <2>1. ord[o] \in Order /\ st \in {"open", "closed"} /\ ord[o].filled + 1 \in Nat
    BY <1>1, OrderFields
  <2> HIDE DEF st
  <2> QED
    BY <2>1 DEF Order
<1>3. ord' = [ord EXCEPT ![o] = w]
  BY DEF Fill
<1>4. st \in {"open", "closed"}
  OBVIOUS
<1> HIDE DEF w
<1>5. /\ ord' \in [Coids -> Order] /\ ord'[o] = w
      /\ \A p \in Coids : p # o => ord'[p] = ord[p]
  BY <1>1, <1>2, <1>3 DEF TypeOK
<1>6. \A p \in Coids : /\ ord'[p].dir = ord[p].dir /\ ord'[p].kind = ord[p].kind
                       /\ ord'[p].size = ord[p].size /\ ord'[p].bar = ord[p].bar
                       /\ ord'[p].filled >= ord[p].filled
                       /\ ord'[p].st = "none" <=> ord[p].st = "none"
  BY <1>1, <1>2, <1>4, <1>5, OrderFields
<1> HIDE DEF st
<1>7. TypeOK'
  <2>1. exPos' \in Int
    BY <1>1, OrderFields DEF TypeOK, Fill, Dirs
  <2>2. pending' \subseteq {p \in Coids : ord'[p].st # "none"}
    BY <1>1, <1>6 DEF TypeOK, Fill
  <2> QED
    BY <1>1, <1>5, <2>1, <2>2 DEF TypeOK, Fill
<1>8. ASSUME NEW p \in Coids PROVE OrderSound(p)'
  <2>1. OrderSound(p)
    BY DEF IInv
  <2>2. CASE p # o
    BY <1>5, <2>1, <2>2 DEF OrderSound, Fill
  <2>3. CASE p = o
    BY <1>1, <1>2, <1>5, <2>1, <2>3, OrderFields DEF OrderSound, Fill, st
  <2> QED
    BY <2>2, <2>3
<1>9. ASSUME NEW i \in intents PROVE IntentSound(i)' /\ i.o \in Coids
  BY <1>1, <1>6 DEF IInv, IntentSound, Fill, TypeOK, Intent
<1>10. ReportSound'
  <2> SUFFICES ASSUME tr.pc = "apply"
               PROVE  /\ tr.got.filled <= ord'[tr.o].filled
                      /\ tr.got.st = "closed" => ord'[tr.o].filled = ord'[tr.o].size
    BY DEF Fill, ReportSound
  <2>1. tr.o \in Coids /\ tr.got.filled \in Nat
    BY <1>1, TraderFields DEF TypeOK
  <2>2. tr.got.filled <= ord[tr.o].filled /\ (tr.got.st = "closed" => ord[tr.o].filled = ord[tr.o].size)
    BY DEF IInv, ReportSound
  <2>3. tr.got.st = "closed" => tr.o # o
    BY <2>2, <1>1, OrderFields
  <2> QED
    BY <1>1, <1>5, <1>6, <2>1, <2>2, <2>3, OrderFields, <1>2
<1>11. AnswerSound'
  BY <1>1, <1>6 DEF IInv, AnswerSound, Fill, TypeOK, OnSide, Whole
<1>12. LostSound'
  <2> SUFFICES ASSUME restarts = 0, NEW i \in intents, i.kind = "close", i.bar = bar,
                      ord'[i.o].st # "none"
               PROVE  pending = {} /\ Whole(i.o)'
    BY DEF LostSound, Fill
  <2>1. i.o \in Coids /\ pending = {} /\ Whole(i.o)
    BY <1>6, <1>9 DEF IInv, LostSound
  <2> QED
    BY <1>6, <2>1 DEF Whole, Fill
<1>13. OneFittingOrder'
  BY <1>1, <1>6 DEF IInv, OneFittingOrder, Fill, TypeOK
<1> QED
  BY <1>7, <1>8, <1>9, <1>10, <1>11, <1>12, <1>13 DEF IInv, Fill

-----------------------------------------------------------------------------
(* Steps that drop orders from the journal, and steps that book one *)

\* What such a step leaves alone, and the record it leaves the trader with.
Aside ==
    /\ Weaker(ord')
    /\ told' \in [Coids -> Nat]
    /\ tripped' \in BOOLEAN
    /\ tr' = tr \/ CalmTrader(tr')
    /\ UNCHANGED <<exPos, intents, nextCoid, bar, restarts>>

LEMMA WeakerOrders ==
    ASSUME IInv, Aside, NEW o \in Coids
    PROVE  /\ ord' \in [Coids -> Order]
           /\ ord'[o].dir = ord[o].dir /\ ord'[o].kind = ord[o].kind /\ ord'[o].size = ord[o].size
           /\ ord'[o].bar = ord[o].bar /\ ord'[o].filled = ord[o].filled
           /\ ord'[o].st = "none" <=> ord[o].st = "none"
           /\ ord'[o].st = ord[o].st \/ (ord[o].st = "open" /\ ord'[o].st = "canceled")
<1>1. TypeOK /\ Weaker(ord')
  BY DEF IInv, Aside
<1>2. ord' \in [Coids -> Order]
  BY <1>1 DEF Weaker
<1>3. ord'[o].st = ord[o].st \/ (ord[o].st = "open" /\ ord'[o].st = "canceled")
  BY <1>1, WeakerIs
<1>4. ord'[o].st = "none" <=> ord[o].st = "none"
  BY <1>3
<1> QED
  BY <1>1, <1>2, <1>3, <1>4, WeakerIs

LEMMA AsideKeeps ==
    ASSUME IInv, Aside, NEW o \in Coids, booked'[o] \in Nat, booked'[o] <= ord[o].filled
    PROVE  OrderSound(o)'
<1>1. TypeOK /\ OrderSound(o)
  BY DEF IInv
<1> QED
  BY <1>1, WeakerOrders, OrderFields DEF OrderSound, Aside

LEMMA AsideIntents ==
    ASSUME IInv, Aside
    PROVE  /\ \A i \in intents' : IntentSound(i)' /\ i.o \in Coids
           /\ ReportSound'
<1>1. TypeOK
  BY DEF IInv
<1>2. \A i \in intents : i.o \in Coids
  BY <1>1 DEF TypeOK, Intent
<1>3. ASSUME NEW i \in intents PROVE IntentSound(i)'
  BY <1>2, WeakerOrders DEF IInv, IntentSound, Aside
<1>4. ReportSound'
  <2>1. CASE tr' = tr
    <3> SUFFICES ASSUME tr.pc = "apply"
                 PROVE  /\ tr.got.filled <= ord'[tr.o].filled
                        /\ tr.got.st = "closed" => ord'[tr.o].filled = ord'[tr.o].size
      BY <2>1 DEF ReportSound
    <3>1. tr.o \in Coids
      BY <1>1 DEF TypeOK
    <3> QED
      BY <3>1, WeakerOrders DEF IInv, ReportSound
  <2>2. CASE CalmTrader(tr')
    BY <2>2, WeakerOrders DEF ReportSound, CalmTrader
  <2> QED
    BY <2>1, <2>2 DEF Aside
<1> QED
  BY <1>2, <1>3, <1>4 DEF Aside

LEMMA AsideTypes ==
    ASSUME IInv, Aside, pending' \subseteq pending, booked' \in [Coids -> Nat], pos' \in Int
    PROVE  TypeOK'
<1>1. TypeOK /\ ord' \in [Coids -> Order]
  BY DEF IInv, Aside, Weaker
<1>2. pending' \subseteq {o \in Coids : ord'[o].st # "none"}
  BY <1>1, WeakerOrders DEF TypeOK
<1>3. tr' \in TraderState /\ (tr'.pc \in {"apply", "answer"} => tr'.o \in Coids)
  BY <1>1 DEF Aside, CalmTrader, TypeOK
<1> QED
  BY <1>1, <1>2, <1>3 DEF TypeOK, Aside

LEMMA DropStep ==
    ASSUME IInv, Aside, pending' \subseteq pending, UNCHANGED <<booked, pos>>
    PROVE  IInv'
<1>1. TypeOK /\ booked \in [Coids -> Nat] /\ pos \in Int /\ pending \subseteq Coids
  BY DEF IInv, TypeOK
<1>2. TypeOK'
  BY <1>1, AsideTypes
<1>3. ASSUME NEW o \in Coids PROVE OrderSound(o)'
  <2>1. booked[o] \in Nat /\ booked[o] <= ord[o].filled
    BY <1>1 DEF IInv, OrderSound
  <2> QED
    BY <2>1, AsideKeeps
<1>4. AnswerSound'
  <2>1. CASE CalmTrader(tr')
    BY <2>1 DEF CalmTrader, AnswerSound
  <2>2. CASE tr' = tr
    <3> SUFFICES ASSUME tr.pc = "answer"
                 PROVE  /\ tr.plan # <<>> /\ ord'[tr.o].st # "none" /\ pending' = {}
                        /\ ord'[tr.o].kind = "open" => pos' = 0
                        /\ OnSide(tr.o)'
                        /\ \A i \in intents : i.bar <= ord'[tr.o].bar
                        /\ restarts = 0 /\ ord'[tr.o].kind = "close" => Whole(tr.o)'
      BY <2>2 DEF AnswerSound, Aside
    <3>1. tr.o \in Coids
      BY <1>1 DEF TypeOK
    <3>2. AnswerSound
      BY DEF IInv
    <3> QED
      BY <2>2, <3>1, <3>2, WeakerOrders DEF AnswerSound, OnSide, Whole
  <2> QED
    BY <2>1, <2>2 DEF Aside
<1>5. LostSound'
  <2> SUFFICES ASSUME restarts = 0, NEW i \in intents, i.kind = "close", i.bar = bar,
                      ord'[i.o].st # "none"
               PROVE  pending' = {} /\ Whole(i.o)'
    BY DEF LostSound, Aside
  <2>1. i.o \in Coids
    BY AsideIntents DEF Aside
  <2>2. pending = {} /\ Whole(i.o)
    BY <2>1, WeakerOrders DEF IInv, LostSound
  <2> QED
    BY <2>1, <2>2, WeakerOrders DEF Whole
<1>6. OneFittingOrder'
  BY <1>1, WeakerOrders DEF IInv, OneFittingOrder, Aside
<1> QED
  BY <1>2, <1>3, <1>4, <1>5, <1>6, AsideIntents DEF IInv

LEMMA BookStep ==
    ASSUME IInv, Aside, NEW o \in pending, NEW cum \in Nat, BooksUpTo(o, cum),
           pending' \in {pending, pending \ {o}},
           cum < ord[o].size \/ pending' = pending \ {o}
    PROVE  IInv'
<1>1. TypeOK /\ o \in Coids /\ pending = {o}
  BY DEF IInv, TypeOK, OneFittingOrder
<1>2. TypeOK'
  BY <1>1, AsideTypes DEF BooksUpTo
<1>3. ASSUME NEW p \in Coids PROVE OrderSound(p)'
  <2>1. booked'[p] \in Nat /\ booked'[p] <= ord[p].filled
    BY <1>1 DEF IInv, OrderSound, BooksUpTo
  <2> QED
    BY <2>1, AsideKeeps
<1>4. AnswerSound'
  BY <1>1 DEF IInv, AnswerSound, Aside, CalmTrader
<1>5. LostSound'
  <2> SUFFICES ASSUME restarts = 0, NEW i \in intents, i.kind = "close", i.bar = bar,
                      ord'[i.o].st # "none"
               PROVE  FALSE
    BY DEF LostSound, Aside
  <2>1. i.o \in Coids
    BY AsideIntents DEF Aside
  <2>2. pending = {}
    BY <2>1, WeakerOrders DEF IInv, LostSound
  <2> QED
    BY <1>1, <2>2
<1>6. OneFittingOrder'
  <2>1. CASE pending' = {}
    BY <2>1 DEF OneFittingOrder
  <2>2. CASE pending' = {o} /\ cum < ord[o].size
    BY <1>1, <2>2, WeakerOrders DEF OneFittingOrder, BooksUpTo, Aside
  <2> QED
    BY <1>1, <2>1, <2>2
<1> QED
  BY <1>2, <1>3, <1>4, <1>5, <1>6, AsideIntents DEF IInv

\* The two kinds of step by which the stream and the poll change the journal.
Drops == Aside /\ pending' \subseteq pending /\ UNCHANGED <<booked, pos>>
Books(o, cum) ==
    /\ Aside /\ BooksUpTo(o, cum)
    /\ pending' \in {pending, pending \ {o}}
    /\ cum < ord[o].size \/ pending' = pending \ {o}
JournalStep == Drops \/ \E o \in pending, cum \in Nat : Books(o, cum)

LEMMA JournalStepKeeps == ASSUME IInv, JournalStep PROVE IInv'
  BY DropStep, BookStep DEF JournalStep, Drops, Books

LEMMA SameIsWeaker == ASSUME TypeOK, ord' = ord PROVE Weaker(ord')
  BY DEF TypeOK, Weaker

LEMMA ExpireKeeps == ASSUME IInv, NEW o \in Coids, Expire(o) PROVE IInv'
<1>1. TypeOK /\ ord[o].st = "open" /\ ord' = [ord EXCEPT ![o].st = "canceled"]
  BY DEF IInv, Expire
<1>2. Weaker(ord')
  <2>1. [ord[o] EXCEPT !.st = "canceled"] \in Order
    BY <1>1, OrderFields DEF Order
  <2> QED
    BY <1>1, <2>1 DEF Weaker, TypeOK
<1>3. Aside
  BY <1>1, <1>2 DEF Aside, Expire, TypeOK
<1> QED
  BY <1>3, DropStep DEF Expire, journal

LEMMA StreamLossKeeps == ASSUME IInv, NEW o \in Coids, StreamLoss(o) PROVE IInv'
<1>1. TypeOK /\ told[o] \in Nat /\ ord' = ord
  BY OrderFields DEF IInv, StreamLoss, exchange
<1>2. Aside
  BY <1>1, SameIsWeaker DEF Aside, StreamLoss, TypeOK, exchange
<1> QED
  BY <1>2, DropStep DEF StreamLoss, journal

LEMMA StreamEventIs == ASSUME IInv, NEW o \in Coids, StreamEvent(o) PROVE JournalStep
<1> DEFINE n == told[o] + 1
<1>1. TypeOK /\ OneFittingOrder /\ OrderSound(o) /\ n \in Nat /\ ord' = ord
  BY OrderFields DEF IInv, StreamEvent, exchange
<1>2. Aside
  BY <1>1, SameIsWeaker DEF Aside, StreamEvent, TypeOK, exchange
<1>3. CASE o \notin pending
  BY <1>2, <1>3 DEF JournalStep, Drops, StreamEvent, journal
<1>4. CASE o \in pending /\ n > ord[o].filled
  BY <1>2, <1>4 DEF JournalStep, Drops, StreamEvent, journal
<1>5. CASE o \in pending /\ n <= ord[o].filled /\ BookingRaises(o, n)
  <2>1. UNCHANGED journal
    BY <1>1, <1>5, OrderFields DEF StreamEvent
  <2> QED
    BY <1>2, <2>1 DEF JournalStep, Drops, journal
<1>6. CASE o \in pending /\ n <= ord[o].filled /\ ~BookingRaises(o, n)
  <2>1. Book(o, n) /\ pending' = (IF n = ord[o].size THEN pending \ {o} ELSE pending)
    BY <1>1, <1>6, OrderFields DEF StreamEvent
  <2>2. BooksUpTo(o, n)
    BY <1>1, <1>6, <2>1, BookIs
  <2>3. n <= ord[o].size
    BY <1>1, <1>6, OrderFields DEF OrderSound
  <2>4. n < ord[o].size \/ pending' = pending \ {o}
    BY <1>1, <2>1, <2>3, OrderFields
  <2> QED
    BY <1>1, <1>2, <1>6, <2>1, <2>2, <2>4 DEF JournalStep, Books
<1> QED
  BY <1>1, <1>3, <1>4, <1>5, <1>6, OrderFields

LEMMA PollingIs ==
    ASSUME TypeOK, NextInPoll
    PROVE  CalmTrader(tr')
  BY TraderFields DEF NextInPoll, NoReport, CalmTrader, TraderState

LEMMA PollApplyIs == ASSUME IInv, PollApply PROVE JournalStep
<1> DEFINE o == tr.o
           cum == IF tr.got.st = "closed" THEN ord[o].size ELSE tr.got.filled
<1>1. TypeOK /\ OneFittingOrder /\ o \in Coids /\ OrderSound(o)
  BY DEF IInv, PollApply, TypeOK
<1>2. /\ tr.got.filled \in Nat /\ tr.got.filled <= ord[o].filled
      /\ tr.got.st = "closed" => ord[o].filled = ord[o].size
  BY <1>1, TraderFields DEF IInv, ReportSound, PollApply
<1>3. ASSUME Weaker(ord'), CalmTrader(tr') PROVE Aside
  BY <1>1, <1>3 DEF PollApply, Aside, TypeOK
<1>4. CASE o \notin pending
  BY <1>1, <1>3, <1>4, SameIsWeaker, PollingIs DEF JournalStep, Drops, PollApply, journal
<1>5. CASE o \in pending /\ BookingRaises(o, cum)
  <2>1. tr' = Resting /\ UNCHANGED <<journal, ord>>
    BY <1>5 DEF PollApply
  <2> QED
    BY <1>1, <1>3, <2>1, SameIsWeaker, RestingIs DEF JournalStep, Drops, journal
<1>6. CASE o \in pending /\ ~BookingRaises(o, cum)
  <2>1. /\ NextInPoll
        /\ ApplyFilled(o) \/ \E late \in Late(o) : ApplyPartial(o, late) \/ ApplyUnfilled(o, late)
    BY <1>6 DEF PollApply
  <2>2. CalmTrader(tr')
    BY <1>1, <2>1, PollingIs
  <2>3. CASE ApplyFilled(o)
    <3>1. ord[o].size \in Nat /\ ord[o].size <= ord[o].filled /\ cum = ord[o].size
      BY <1>1, <1>2, <2>3, OrderFields DEF ApplyFilled, OrderSound
    <3>2. BooksUpTo(o, ord[o].size)
      BY <1>1, <1>6, <2>3, <3>1, BookIs DEF ApplyFilled
    <3>3. Aside
      BY <1>1, <1>3, <2>2, <2>3, SameIsWeaker DEF ApplyFilled
    <3> QED
      BY <1>6, <2>3, <3>1, <3>2, <3>3 DEF JournalStep, Books, ApplyFilled, Drop
  <2>4. ASSUME NEW late \in Late(o), ApplyPartial(o, late) PROVE JournalStep
    <3>1. cum = tr.got.filled /\ cum < ord[o].size /\ cum \in Nat /\ cum <= ord[o].filled
      BY <1>1, <1>2, <2>4, OrderFields DEF ApplyPartial
    <3>2. BooksUpTo(o, tr.got.filled)
      BY <1>1, <1>6, <2>4, <3>1, BookIs DEF ApplyPartial
    <3>3. Weaker(ord') /\ pending' \in {pending, pending \ {o}}
      BY <1>1, <2>4, SameIsWeaker, CancelledIs DEF ApplyPartial, Drop
    <3> QED
      BY <1>3, <1>6, <2>2, <3>1, <3>2, <3>3 DEF JournalStep, Books
  <2>5. ASSUME NEW late \in Late(o), ApplyUnfilled(o, late) PROVE JournalStep
    <3>1. Weaker(ord') /\ pending' \subseteq pending /\ UNCHANGED <<booked, pos>>
      <4>1. CASE tr.got.st = "canceled"
        BY <1>1, <2>5, <4>1, SameIsWeaker DEF ApplyUnfilled, Drop
      <4>2. CASE tr.got.st # "canceled" /\ late
        BY <1>1, <2>5, <4>2, CancelledIs DEF ApplyUnfilled, Drop
      <4>3. CASE tr.got.st # "canceled" /\ ~late
        BY <1>1, <2>5, <4>3, SameIsWeaker DEF ApplyUnfilled
      <4> QED
        BY <4>1, <4>2, <4>3
    <3> QED
      BY <1>3, <2>2, <3>1 DEF JournalStep, Drops
  <2> QED
    BY <2>1, <2>3, <2>4, <2>5
<1> QED
  BY <1>4, <1>5, <1>6

LEMMA RestartKeeps == ASSUME IInv, Restart PROVE IInv'
<1> USE DEF exchange
<1>1. TypeOK /\ restarts' = restarts + 1 /\ restarts' # 0 /\ tr' = Resting /\ pending' = {}
  BY DEF IInv, Restart, TypeOK
<1>2. TypeOK'
  <2>1. restarts' \in 0..MaxRestarts
    BY <1>1, LiveBounds DEF Restart, TypeOK
  <2>2. Resting \in TraderState /\ Resting.pc = "idle"
    BY RestingIs DEF CalmTrader
  <2>3. booked' \in [Coids -> Nat]
    <3>1. 0 \in Nat
      OBVIOUS
    <3>2. booked' = [o \in Coids |-> 0]
      BY DEF Restart
    <3> QED
      BY <3>1, <3>2
  <2>4. pos' \in Int /\ tripped' \in BOOLEAN
    <3>1. 0 \in Int /\ FALSE \in BOOLEAN
      OBVIOUS
    <3> QED
      BY <3>1, Zenon DEF Restart
  <2> QED
    BY <1>1, <2>1, <2>2, <2>3, <2>4 DEF Restart, TypeOK
<1>3. ASSUME NEW o \in Coids PROVE OrderSound(o)'
  BY <1>1, OrderFields DEF IInv, OrderSound, Restart
<1>4. \A i \in intents' : IntentSound(i)'
  BY DEF IInv, IntentSound, Restart
<1>5. ReportSound' /\ AnswerSound' /\ LostSound' /\ OneFittingOrder'
  BY <1>1, RestingIs DEF ReportSound, AnswerSound, LostSound, OneFittingOrder
<1> QED
  BY <1>2, <1>3, <1>4, <1>5 DEF IInv

LEMMA NewBarKeeps == ASSUME IInv, NewBar PROVE IInv'
<1> USE DEF exchange, journal
<1>1. TypeOK /\ bar \in 1..MaxBars /\ bar' = bar + 1 /\ bar' \in Bars
  BY LiveBounds DEF IInv, NewBar, TypeOK, Bars
<1>2. TypeOK'
  BY <1>1 DEF NewBar, TypeOK
<1>3. ASSUME NEW o \in Coids PROVE OrderSound(o)'
  BY <1>1, OrderFields DEF IInv, OrderSound, NewBar
<1>4. ASSUME NEW i \in intents PROVE IntentSound(i)' /\ i.bar # bar'
  <2>1. i.bar \in Nat /\ i.bar <= bar
    BY <1>1 DEF IInv, IntentSound, TypeOK, Intent, Bars
  <2> QED
    BY <1>1, <2>1 DEF IInv, IntentSound, NewBar
<1>5. ReportSound' /\ AnswerSound' /\ OneFittingOrder'
  BY DEF IInv, NewBar, ReportSound, AnswerSound, OnSide, Whole, OneFittingOrder
<1>6. LostSound'
  BY <1>4 DEF LostSound, NewBar
<1> QED
  BY <1>2, <1>3, <1>4, <1>5, <1>6 DEF IInv, NewBar

-----------------------------------------------------------------------------
(* Sending an order, and its answer *)

LEMMA ExecutedIs ==
    ASSUME TypeOK, tr.plan # <<>>, Executed
    PROVE  CalmTrader(tr')
<1>1. tr.plan \in Seq(Call) /\ Tail(tr.plan) \in Seq(Call)
  BY TraderFields
<1>2. CASE Len(tr.plan) = 1
  BY <1>2, RestingIs DEF Executed
<1>3. CASE Len(tr.plan) # 1
  <2>1. tr' = [tr EXCEPT !.pc = "execute", !.o = 0, !.plan = Tail(tr.plan)]
    BY <1>3 DEF Executed
  <2> QED
    BY <1>1, <2>1, TraderFields DEF CalmTrader, TraderState
<1> QED
  BY <1>2, <1>3

\* What execute has made sure of when it sends n lots: nothing is tracked any
\* more, an opening order meets no position, a closing one all of it.
Sends(book, rest, dir, kind, n) ==
    /\ Weaker(book) /\ rest = {} /\ dir \in Dirs
    /\ \/ kind = "open" /\ pos = 0 /\ n = Size
       \/ kind = "close" /\ pos # 0 /\ dir = -Sign(pos) /\ n = Abs(pos)

\* What a step of execute leaves alone.
Executing ==
    /\ tr.plan # <<>>
    /\ UNCHANGED <<exPos, told, booked, pos, bar, tripped, restarts>>

LEMMA TakeCoidIs ==
    ASSUME IInv, NEW o \in Coids, NEW dir \in Dirs, NEW kind \in {"open", "close"},
           TakeCoid(dir, kind, o)
    PROVE  /\ nextCoid' \in 1..(MaxOrders + 1) /\ nextCoid' >= nextCoid /\ o < nextCoid'
           /\ \A i \in intents : i.o = o => i.dir = dir /\ i.kind = kind /\ i.bar = bar
           /\ ord[o].st # "none" =>
                 \E i \in intents : i.o = o /\ i.dir = dir /\ i.kind = kind /\ i.bar = bar
<1>1. /\ TypeOK /\ nextCoid \in 1..(MaxOrders + 1) /\ MaxOrders \in Nat
      /\ o \in 1..MaxOrders /\ OrderSound(o)
  BY LiveBounds DEF IInv, TypeOK, Coids
<1>2. \A i \in intents : i \in Intent /\ IntentSound(i) /\ i.o \in 1..MaxOrders
  BY DEF IInv, TypeOK, Intent, Coids
<1>3. CASE Kept(dir, kind, bar) # {}
  <2>1. nextCoid' = nextCoid
    BY <1>3 DEF TakeCoid
  <2>2. PICK i \in intents : i.dir = dir /\ i.kind = kind /\ i.bar = bar /\ i.o = o
    BY <1>3 DEF TakeCoid, Kept
  <2>3. o < nextCoid
    BY <1>2, <2>2 DEF IntentSound
  <2>4. \A j \in intents : j.o = o => j = i
    BY <1>2, <2>2 DEF IntentSound
  <2> QED
    BY <1>1, <2>1, <2>2, <2>3, <2>4
<1>4. CASE Kept(dir, kind, bar) = {}
  <2>1. o = nextCoid /\ nextCoid' = nextCoid + 1
    BY <1>4 DEF TakeCoid
  <2>2. \A i \in intents : i.o # o
    BY <1>1, <1>2, <2>1 DEF IntentSound
  <2>3. ord[o].st = "none"
    BY <1>1, <2>1 DEF OrderSound
  <2> QED
    BY <1>1, <2>1, <2>2, <2>3
<1> QED
  BY <1>3, <1>4

LEMMA NotSentKeeps ==
    ASSUME IInv, Executing, NEW book, NEW rest, Weaker(book), rest \subseteq pending,
           ord' = book, pending' = rest, Executed, UNCHANGED <<intents, nextCoid>>
    PROVE  IInv'
<1>1. TypeOK /\ CalmTrader(tr')
  BY ExecutedIs DEF IInv, Executing
<1>2. Aside
  BY <1>1 DEF Aside, Executing, TypeOK
<1> QED
  BY <1>2, DropStep DEF Executing

\* An order with the client order id of an intent is the intent's.
LEMMA IntentIs ==
    ASSUME NEW i \in Intent, NEW j \in Intent,
           i.dir = j.dir, i.kind = j.kind, i.bar = j.bar, i.o = j.o
    PROVE  i = j
  BY DEF Intent

LEMMA AcceptKeeps ==
    ASSUME IInv, Executing, NEW book, NEW rest, NEW dir, NEW kind, NEW n,
           Sends(book, rest, dir, kind, n), Accept(book, rest, dir, kind, n)
    PROVE  IInv'
<1>1. /\ TypeOK /\ Weaker(book) /\ rest = {} /\ dir \in Dirs /\ kind \in {"open", "close"}
      /\ pos \in Int /\ bar \in 1..MaxBars /\ MaxBars \in Nat
  BY LiveBounds DEF IInv, Sends, TypeOK, Bars
<1>2. n \in Nat /\ n > 0
  BY <1>1, LiveBounds, SignIs DEF Sends
<1>3. PICK o \in Coids :
        /\ TakeCoid(dir, kind, o) /\ book[o].st = "none"
        /\ ord' = [book EXCEPT ![o] = [st |-> "open", dir |-> dir, kind |-> kind,
                                       size |-> n, bar |-> bar, filled |-> 0]]
        /\ pending' = rest
        /\ tr' = [tr EXCEPT !.pc = "answer", !.o = o]
        /\ UNCHANGED intents
  BY DEF Accept
<1> DEFINE w == [st |-> "open", dir |-> dir, kind |-> kind, size |-> n, bar |-> bar, filled |-> 0]
<1>4. /\ w \in Order /\ w.st = "open" /\ w.dir = dir /\ w.kind = kind /\ w.size = n
      /\ w.bar = bar /\ w.filled = 0
  BY <1>1, <1>2 DEF Order
<1>5. ord' = [book EXCEPT ![o] = w]
  BY <1>3
<1> HIDE DEF w
<1>6. /\ ord' \in [Coids -> Order] /\ ord'[o] = w
      /\ \A p \in Coids : p # o => ord'[p] = book[p]
  BY <1>1, <1>4, <1>5 DEF Weaker
<1>7. booked[o] = 0 /\ ord[o].st = "none"
  <2>1. ord[o].st = "none"
    BY <1>1, <1>3, WeakerIs
  <2> QED
    BY <1>1, <2>1, OrderFields DEF IInv, OrderSound
<1>8. /\ tr' \in TraderState /\ tr'.pc = "answer" /\ tr'.o = o /\ tr'.plan # <<>>
  BY <1>1, <1>3, TraderFields DEF TraderState, Executing
<1>9. /\ nextCoid' \in 1..(MaxOrders + 1) /\ nextCoid' >= nextCoid /\ o < nextCoid'
      /\ \A i \in intents : i.o = o => i.dir = dir /\ i.kind = kind /\ i.bar = bar
  BY <1>1, <1>3, TakeCoidIs
<1>10. TypeOK'
  BY <1>1, <1>3, <1>6, <1>8, <1>9 DEF TypeOK, Executing
<1>11. ASSUME NEW p \in Coids PROVE OrderSound(p)'
  <2>1. OrderSound(p)
    BY DEF IInv
  <2>2. CASE p = o
    BY <1>1, <1>2, <1>4, <1>6, <1>7, <1>9, <2>2 DEF OrderSound, Executing
  <2>3. CASE p # o
    <3>1. ord'[p] = book[p] /\ nextCoid \in Nat /\ nextCoid' \in Nat /\ p \in Nat
      BY <1>1, <1>6, <1>9, <2>3 DEF TypeOK, Coids
    <3> QED
      BY <1>1, <1>9, <2>1, <3>1, WeakerIs, OrderFields DEF OrderSound, Executing
  <2> QED
    BY <2>2, <2>3
<1>12. ASSUME NEW i \in intents
       PROVE  IntentSound(i)' /\ i.o \in Coids
  <2>1. IntentSound(i) /\ i.o \in Coids /\ i.o \in Nat /\ nextCoid \in Nat /\ nextCoid' \in Nat
    BY <1>1, <1>9 DEF IInv, TypeOK, Intent, Coids
  <2>2. i.o < nextCoid'
    BY <1>9, <2>1 DEF IntentSound
  <2>3. CASE i.o = o
    BY <1>3, <1>4, <1>6, <1>9, <2>1, <2>2, <2>3 DEF IntentSound, Executing
  <2>4. CASE i.o # o
    BY <1>1, <1>3, <1>6, <2>1, <2>2, <2>4, WeakerIs DEF IntentSound, Executing
  <2> QED
    BY <2>3, <2>4
<1>13. ReportSound'
  BY <1>8 DEF ReportSound
<1>14. kind = "close" => Whole(o)'
  BY <1>1, <1>4, <1>6, <1>7, SignIs DEF Whole, Sends, Executing
<1>15. AnswerSound'
  <2>1. OnSide(o)' /\ (kind = "open" => pos = 0)
    BY <1>1, <1>4, <1>6, SignIs DEF OnSide, Sends, Executing, Dirs
  <2>2. \A i \in intents : i.bar <= bar
    BY DEF IInv, IntentSound
  <2> QED
    BY <1>1, <1>3, <1>4, <1>6, <1>8, <1>14, <2>1, <2>2 DEF AnswerSound, Executing
<1>16. LostSound'
  <2> SUFFICES ASSUME restarts = 0, NEW i \in intents, i.kind = "close", i.bar = bar,
                      ord'[i.o].st # "none"
               PROVE  pending' = {} /\ Whole(i.o)'
    BY <1>3 DEF LostSound, Executing
  <2>1. CASE i.o = o
    BY <1>1, <1>3, <1>9, <1>14, <2>1
  <2>2. CASE i.o # o
    <3>1. /\ i.o \in Coids /\ ord'[i.o] = book[i.o]
      BY <1>6, <1>12, <2>2
    <3>2. Whole(i.o)
      BY <1>1, <3>1, WeakerIs DEF IInv, LostSound
    <3> QED
      BY <1>1, <1>3, <3>1, <3>2, WeakerIs DEF Whole, Executing
  <2> QED
    BY <2>1, <2>2
<1>17. OneFittingOrder'
  BY <1>1, <1>3 DEF OneFittingOrder
<1> QED
  BY <1>3, <1>10, <1>11, <1>12, <1>13, <1>15, <1>16, <1>17 DEF IInv

LEMMA RejectKeeps ==
    ASSUME IInv, Executing, NEW book, NEW rest, NEW dir, NEW kind, NEW n,
           Sends(book, rest, dir, kind, n), Reject(book, rest, dir, kind)
    PROVE  IInv'
<1>1. /\ TypeOK /\ Weaker(book) /\ rest = {} /\ dir \in Dirs /\ kind \in {"open", "close"}
      /\ bar \in Bars
  BY DEF IInv, Sends, TypeOK
<1>2. PICK o \in Coids :
        /\ TakeCoid(dir, kind, o) /\ book[o].st = "none" /\ Keep(dir, kind, bar, o)
  BY DEF Reject
<1>3. ord' = book /\ pending' = {} /\ CalmTrader(tr')
  BY <1>1, ExecutedIs DEF Reject, Executing
<1> DEFINE new == [dir |-> dir, kind |-> kind, bar |-> bar, o |-> o]
<1>4. /\ new \in Intent /\ new.dir = dir /\ new.kind = kind /\ new.bar = bar /\ new.o = o
      /\ intents' = intents \cup {new}
  BY <1>1, <1>2 DEF Intent, Keep
<1> HIDE DEF new
<1>5. /\ nextCoid' \in 1..(MaxOrders + 1) /\ nextCoid' >= nextCoid /\ o < nextCoid'
      /\ \A i \in intents : i.o = o => i.dir = dir /\ i.kind = kind /\ i.bar = bar
  BY <1>1, <1>2, TakeCoidIs
<1>6. \A i \in intents : i \in Intent /\ i.o \in Coids /\ IntentSound(i)
  BY <1>1 DEF IInv, TypeOK, Intent
<1>7. \A i \in intents : i.o = o => i = new
  BY <1>4, <1>5, <1>6, IntentIs
<1>8. TypeOK'
  <2>1. tr' \in TraderState /\ (tr'.pc \in {"apply", "answer"} => tr'.o \in Coids)
    BY <1>3 DEF CalmTrader
  <2>2. ord' \in [Coids -> Order] /\ intents' \subseteq Intent
    BY <1>1, <1>3, <1>4, <1>6 DEF Weaker
  <2> QED
    BY <1>1, <1>3, <1>5, <2>1, <2>2 DEF TypeOK, Executing
<1>9. ASSUME NEW p \in Coids PROVE OrderSound(p)'
  <2>1. OrderSound(p) /\ nextCoid \in Nat /\ nextCoid' \in Nat /\ p \in Nat
    BY <1>1, <1>5 DEF IInv, TypeOK, Coids
  <2> QED
    BY <1>1, <1>3, <1>5, <2>1, WeakerIs, OrderFields DEF OrderSound, Executing
<1>10. ASSUME NEW i \in intents' PROVE IntentSound(i)' /\ i.o \in Coids
  <2>1. nextCoid \in Nat /\ nextCoid' \in Nat /\ bar \in Nat
    BY <1>1, <1>5, LiveBounds DEF TypeOK, Bars
  <2>2. CASE i = new
    BY <1>1, <1>2, <1>3, <1>4, <1>5, <1>7, <2>1, <2>2 DEF IntentSound, Executing
  <2>3. CASE i \in intents
    <3>1. i.o < nextCoid' /\ i.bar <= bar
      BY <1>5, <1>6, <2>1, <2>3 DEF IntentSound, Coids
    <3>2. \A j \in intents' : i.o = j.o => i = j
      BY <1>4, <1>6, <1>7, <2>3 DEF IntentSound
    <3> QED
      BY <1>1, <1>3, <1>6, <2>3, <3>1, <3>2, WeakerIs DEF IntentSound, Executing
  <2> QED
    BY <1>4, <2>2, <2>3
<1>11. ReportSound'
  BY <1>1, <1>3, WeakerIs DEF ReportSound, CalmTrader
<1>12. AnswerSound'
  BY <1>3 DEF AnswerSound, CalmTrader
<1>13. LostSound'
  <2> SUFFICES ASSUME restarts = 0, NEW i \in intents', i.kind = "close", i.bar = bar,
                      ord'[i.o].st # "none"
               PROVE  pending' = {} /\ Whole(i.o)'
    BY DEF LostSound, Executing
  <2>1. i # new
    BY <1>2, <1>3, <1>4
  <2>2. i \in intents /\ i.o \in Coids
    BY <1>4, <1>10, <2>1
  <2>3. Whole(i.o)
    BY <1>1, <1>3, <2>2, WeakerIs DEF IInv, LostSound
  <2> QED
    BY <1>1, <1>3, <2>2, <2>3, WeakerIs DEF Whole, Executing
<1>14. OneFittingOrder'
  BY <1>3 DEF OneFittingOrder
<1> QED
  BY <1>8, <1>9, <1>10, <1>11, <1>12, <1>13, <1>14 DEF IInv

\* An order in the journal after a step that registers it, alone, on its side.
LEMMA RegisterKeeps ==
    ASSUME IInv, CalmTrader(tr'), NEW o \in Coids, ord[o].st # "none",
           Weaker(ord'), pending' = {o}, intents' \subseteq intents,
           UNCHANGED <<exPos, told, booked, pos, nextCoid, bar, tripped, restarts>>,
           OnSide(o),
           restarts = 0 /\ ord[o].kind = "close" => Whole(o),
           restarts = 0 => \A i \in intents' : i.kind = "close" /\ i.bar = bar => ord[i.o].st = "none"
    PROVE  IInv'
<1>1. /\ TypeOK /\ tripped' \in BOOLEAN /\ tr' \in TraderState
      /\ tr'.pc \in {"apply", "answer"} => tr'.o \in Coids
  BY DEF IInv, TypeOK, CalmTrader
<1>2. ord' \in [Coids -> Order] /\ ord'[o].st # "none"
  BY <1>1, WeakerIs DEF Weaker
<1>3. TypeOK'
  BY <1>1, <1>2 DEF TypeOK
<1>4. ASSUME NEW p \in Coids PROVE OrderSound(p)'
  BY <1>1, WeakerIs, OrderFields DEF IInv, OrderSound
<1>5. ASSUME NEW i \in intents' PROVE IntentSound(i)' /\ i.o \in Coids
  <2>1. IntentSound(i) /\ i \in intents /\ i.o \in Coids
    BY <1>1 DEF IInv, TypeOK, Intent
  <2> QED
    BY <1>1, <2>1, WeakerIs DEF IntentSound
<1>6. ReportSound' /\ AnswerSound'
  BY <1>1, WeakerIs DEF ReportSound, AnswerSound, CalmTrader
<1>7. LostSound'
  BY <1>1, <1>5, WeakerIs DEF LostSound
<1>8. OneFittingOrder'
  <2>1. restarts = 0 /\ ord[o].kind = "close" => pos # 0 /\ ord[o].size - booked[o] <= Abs(pos)
    <3> SUFFICES ASSUME restarts = 0, ord[o].kind = "close"
                 PROVE  pos # 0 /\ ord[o].size - booked[o] <= Abs(pos)
      OBVIOUS
    <3>1. /\ Sign(pos) = -ord[o].dir /\ ord[o].dir \in {-1, 1} /\ ord[o].size = Abs(pos)
          /\ booked[o] = 0 /\ pos \in Int /\ ord[o].size \in Nat
      BY <1>1, OrderFields DEF Whole, Dirs, TypeOK
    <3> QED
      BY <3>1, SignIs
  <2> QED
    BY <1>1, <2>1, WeakerIs DEF OneFittingOrder, OnSide
<1> QED
  BY <1>3, <1>4, <1>5, <1>6, <1>7, <1>8 DEF IInv

LEMMA DuplicateKeeps ==
    ASSUME IInv, Executing, NEW book, NEW rest, NEW dir, NEW kind, NEW n,
           Sends(book, rest, dir, kind, n), Duplicate(book, rest, dir, kind)
    PROVE  IInv'
<1>1. /\ TypeOK /\ Weaker(book) /\ rest = {} /\ dir \in Dirs /\ kind \in {"open", "close"}
      /\ ord' = book /\ CalmTrader(tr') /\ UNCHANGED nextCoid
  <2>1. PICK o \in Coids : TakeCoid(dir, kind, o) /\ book[o].st # "none"
    BY DEF Duplicate
  <2>2. TypeOK /\ Weaker(book) /\ dir \in Dirs /\ kind \in {"open", "close"}
    BY DEF IInv, Sends
  <2>3. ord[o].st # "none"
    BY <2>1, <2>2, WeakerIs
  <2>4. UNCHANGED nextCoid
    BY <2>1, <2>2, <2>3, TakeCoidIs DEF TakeCoid, Kept
  <2> QED
    BY <2>2, <2>4, ExecutedIs DEF Sends, Duplicate, Executing
<1>2. PICK o \in Coids :
        /\ TakeCoid(dir, kind, o) /\ book[o].st # "none"
        /\ \/ book[o].st = "open" /\ pending' = {o} /\ intents' = intents \ Kept(dir, kind, bar)
           \/ pending' = {} /\ UNCHANGED intents
  BY <1>1 DEF Duplicate
<1>3. CASE pending' = {} /\ UNCHANGED intents
  <2>1. Aside
    BY <1>1, <1>3 DEF Aside, Executing, TypeOK
  <2> QED
    BY <1>3, <2>1, DropStep DEF Executing
<1>4. CASE pending' = {o} /\ intents' = intents \ Kept(dir, kind, bar)
  <2>1. ord[o].st # "none"
    BY <1>1, <1>2, WeakerIs
  <2>2. PICK i \in intents : i.o = o /\ i.dir = dir /\ i.kind = kind /\ i.bar = bar
    BY <1>1, <1>2, <2>1, TakeCoidIs
  <2>3. ord[o].dir = dir /\ ord[o].kind = kind
    BY <2>1, <2>2 DEF IInv, IntentSound
  <2>4. OnSide(o)
    BY <1>1, <2>3, SignIs DEF OnSide, Sends, TypeOK, Dirs
  <2>5. restarts = 0 /\ kind = "close" => Whole(o)
    BY <2>1, <2>2 DEF IInv, LostSound
  <2>6. ASSUME restarts = 0, NEW j \in intents', j.kind = "close", j.bar = bar, ord[j.o].st # "none"
        PROVE  FALSE
    <3>1. j \in intents /\ j.dir \in Dirs /\ j \notin Kept(dir, kind, bar)
      BY <1>1, <1>4, <2>6 DEF TypeOK, Intent
    <3>2. Sign(pos) = -j.dir
      BY <2>6, <3>1 DEF IInv, LostSound, Whole, IntentSound
    <3>3. kind = "close" /\ dir = j.dir
      <4>1. pos # 0 /\ pos \in Int
        BY <1>1, <3>1, <3>2, SignIs DEF Dirs, TypeOK
      <4>2. kind = "close" /\ dir = -Sign(pos)
        BY <4>1 DEF Sends
      <4> QED
        BY <3>1, <3>2, <4>2 DEF Dirs
    <3> QED
      BY <2>6, <3>1, <3>3 DEF Kept
  <2> QED
    BY <1>1, <1>4, <2>1, <2>3, <2>4, <2>5, <2>6, RegisterKeeps DEF Executing
<1> QED
  BY <1>2, <1>3, <1>4

LEMMA SubmitKeeps ==
    ASSUME IInv, Executing, NEW book, NEW rest, NEW dir, NEW kind, NEW n,
           Sends(book, rest, dir, kind, n), Submit(book, rest, dir, kind, n)
    PROVE  IInv'
<1>1. CASE NotSent(book, rest)
  BY <1>1, NotSentKeeps DEF NotSent, Sends
<1>2. CASE Accept(book, rest, dir, kind, n)
  BY <1>2, AcceptKeeps
<1>3. CASE Reject(book, rest, dir, kind)
  BY <1>3, RejectKeeps
<1>4. CASE Duplicate(book, rest, dir, kind)
  BY <1>4, DuplicateKeeps
<1> QED
  BY <1>1, <1>2, <1>3, <1>4 DEF Submit

LEMMA ExecuteKeeps == ASSUME IInv, Execute PROVE IInv'
<1>1. /\ TypeOK /\ Executing /\ pos \in Int /\ pending \subseteq Coids
      /\ \A o \in pending : pending \ {o} = {}
  BY DEF IInv, TypeOK, OneFittingOrder, Execute, Executing
<1>2. Weaker(ord)
  BY <1>1 DEF Weaker, TypeOK
<1>3. ASSUME Leave PROVE IInv'
  BY <1>1, <1>2, <1>3, NotSentKeeps DEF Leave
<1>4. ASSUME NEW o \in pending, CancelPending(o) PROVE IInv'
  <2>1. PICK book \in Cancelled(o) : ord' = book
    BY <1>4 DEF CancelPending
  <2>2. Weaker(book)
    BY <1>1, <1>4, CancelledIs
  <2> QED
    BY <1>1, <1>4, <2>1, <2>2, NotSentKeeps DEF CancelPending
<1>5. CASE ExecuteHold
  BY <1>3, <1>4, <1>5 DEF ExecuteHold
<1>6. CASE ExecuteClose
  <2>1. CASE pending = {} /\ pos # 0 /\ Submit(ord, pending, -Sign(pos), "close", Abs(pos))
    <3>1. -Sign(pos) \in Dirs
      BY <1>1, <2>1, SignIs DEF Dirs
    <3> QED
      BY <1>1, <1>2, <2>1, <3>1, SubmitKeeps DEF Sends
  <2> QED
    BY <1>3, <1>4, <1>6, <2>1 DEF ExecuteClose
<1>7. ASSUME NEW d \in Dirs, ExecuteOpen(d) PROVE IInv'
  <2>1. CASE pos = 0 /\ pending = {} /\ Submit(ord, pending, d, "open", Size)
    BY <1>1, <1>2, <1>7, <2>1, SubmitKeeps DEF Sends
  <2>2. ASSUME pos = 0, NEW o \in pending, NEW book \in Cancelled(o),
               Submit(book, pending \ {o}, d, "open", Size)
        PROVE  IInv'
    <3>1. Weaker(book)
      BY <1>1, <2>2, CancelledIs
    <3> QED
      BY <1>1, <1>7, <2>2, <3>1, SubmitKeeps DEF Sends
  <2> QED
    BY <1>3, <1>7, <2>1, <2>2 DEF ExecuteOpen
<1>8. Head(tr.plan) \in Call
  BY <1>1, TraderFields DEF Execute
<1>9. Head(tr.plan).act = "open" => Head(tr.plan).dir \in Dirs
  BY <1>8 DEF Call
<1> QED
  BY <1>5, <1>6, <1>7, <1>9 DEF Execute

LEMMA AnswerKeeps == ASSUME IInv, Answer PROVE IInv'
<1> DEFINE o == tr.o
           dir == ord[o].dir
           kind == ord[o].kind
<1> USE DEF exchange
<1>1. /\ TypeOK /\ o \in Coids /\ ord[o].st # "none" /\ tr.plan # <<>> /\ pending = {}
      /\ OnSide(o) /\ (kind = "open" => pos = 0)
      /\ \A i \in intents : i.bar <= ord[o].bar
      /\ restarts = 0 /\ kind = "close" => Whole(o)
  BY DEF IInv, AnswerSound, Answer, TypeOK
<1>2. /\ dir \in Dirs /\ kind \in {"open", "close"} /\ pos \in Int /\ bar \in 1..MaxBars
      /\ ord[o].bar \in 1..bar /\ o < nextCoid
  BY <1>1, OrderFields DEF TypeOK, Bars, IInv, OrderSound
<1>3. CalmTrader(tr') /\ Weaker(ord') /\ ord' = ord
  BY <1>1, ExecutedIs, SameIsWeaker DEF Answer
<1>4. CASE pending' = pending \cup {o} /\ intents' = intents \ Kept(dir, kind, ord[o].bar)
  <2>1. ASSUME restarts = 0, NEW j \in intents', j.kind = "close", j.bar = bar, ord[j.o].st # "none"
        PROVE  FALSE
    <3>1. j \in intents /\ j.dir \in Dirs /\ j \notin Kept(dir, kind, ord[o].bar)
      BY <1>1, <1>4, <2>1 DEF TypeOK, Intent
    <3>2. Sign(pos) = -j.dir
      BY <2>1, <3>1 DEF IInv, LostSound, Whole, IntentSound
    <3>3. ord[o].bar = bar
      BY <1>1, <1>2, <2>1, <3>1
    <3>4. kind = "close" /\ dir = j.dir
      <4>1. pos # 0
        BY <1>2, <3>1, <3>2, SignIs DEF Dirs
      <4>2. kind = "close" /\ Sign(pos) = -dir
        BY <1>1, <1>2, <2>1, <4>1 DEF Whole
      <4> QED
        BY <1>2, <3>1, <3>2, <4>2 DEF Dirs
    <3> QED
      BY <2>1, <3>1, <3>3, <3>4 DEF Kept
  <2> QED
    BY <1>1, <1>3, <1>4, <2>1, RegisterKeeps DEF Answer
<1>5. CASE UNCHANGED pending /\ Keep(dir, kind, ord[o].bar, o)
  <2> DEFINE new == [dir |-> dir, kind |-> kind, bar |-> ord[o].bar, o |-> o]
  <2>1. /\ new \in Intent /\ new.dir = dir /\ new.kind = kind /\ new.bar = ord[o].bar /\ new.o = o
        /\ intents' = intents \cup {new}
    <3>1. ord[o].bar \in Bars
      BY <1>2, LiveBounds DEF Bars
    <3> QED
      BY <1>1, <1>2, <1>5, <3>1 DEF Intent, Keep
  <2> HIDE DEF new
  <2>2. \A i \in intents : i \in Intent /\ IntentSound(i)
    BY <1>1 DEF IInv, TypeOK
  <2>3. \A i \in intents : i.o = o => i = new
    BY <1>1, <2>1, <2>2, IntentIs DEF IntentSound
  <2>4. TypeOK'
    <3>1. tr' \in TraderState /\ (tr'.pc \in {"apply", "answer"} => tr'.o \in Coids)
      BY <1>3 DEF CalmTrader
    <3> QED
      BY <1>1, <1>5, <2>1, <3>1 DEF TypeOK, Answer
  <2>5. ASSUME NEW p \in Coids PROVE OrderSound(p)'
    BY DEF IInv, OrderSound, Answer
  <2>6. ASSUME NEW i \in intents' PROVE IntentSound(i)'
    <3>1. i.o < nextCoid /\ i.bar <= bar
      BY <1>2, <2>1, <2>2 DEF IntentSound
    <3>2. \A j \in intents' : i.o = j.o => i = j
      BY <2>1, <2>2, <2>3 DEF IntentSound
    <3> QED
      BY <1>1, <2>1, <2>2, <3>1, <3>2 DEF IntentSound, Answer
  <2>7. ReportSound' /\ AnswerSound'
    BY <1>3 DEF ReportSound, AnswerSound, CalmTrader
  <2>8. LostSound'
    <3> SUFFICES ASSUME restarts = 0, NEW i \in intents', i.kind = "close", i.bar = bar,
                        ord[i.o].st # "none"
                 PROVE  Whole(i.o)
      BY <1>1, <1>5 DEF LostSound, Answer, Whole
    <3>1. CASE i = new
      BY <1>1, <2>1, <3>1
    <3>2. CASE i \in intents
      BY <3>2 DEF IInv, LostSound
    <3> QED
      BY <2>1, <3>1, <3>2
  <2>9. OneFittingOrder'
    BY <1>1, <1>5 DEF OneFittingOrder
  <2> QED
    BY <2>4, <2>5, <2>6, <2>7, <2>8, <2>9 DEF IInv
<1> QED
  BY <1>4, <1>5 DEF Answer

LEMMA StutterKeeps == ASSUME IInv, UNCHANGED vars PROVE IInv'
  BY DEF vars, exchange, journal, IInv, TypeOK, OrderSound, IntentSound, ReportSound,
         AnswerSound, OnSide, Whole, LostSound, OneFittingOrder

-----------------------------------------------------------------------------
(* The invariant *)

LEMMA InitIInv == ASSUME Init PROVE IInv
<1>1. TypeOK
  <2>1. ord \in [Coids -> Order]
    <3>1. NoOrder \in Order
      BY DEF NoOrder, Order, Dirs
    <3> QED
      BY <3>1 DEF Init
  <2>2. told \in [Coids -> Nat] /\ booked \in [Coids -> Nat]
    <3>1. 0 \in Nat
      OBVIOUS
    <3> QED
      BY <3>1 DEF Init
  <2>3. tr \in TraderState /\ tr.pc = "idle"
    BY RestingIs DEF Init, CalmTrader
  <2>4. exPos \in Int /\ pos \in Int /\ pending = {} /\ intents = {}
    BY DEF Init
  <2>5. nextCoid \in 1..(MaxOrders + 1) /\ bar \in Bars /\ restarts \in 0..MaxRestarts
    BY LiveBounds DEF Init, Bars
  <2> QED
    BY <2>1, <2>2, <2>3, <2>4, <2>5 DEF TypeOK, Init
<1>2. ASSUME NEW o \in Coids PROVE OrderSound(o)
  BY DEF Init, OrderSound, NoOrder
<1>3. ReportSound /\ AnswerSound /\ LostSound /\ OneFittingOrder /\ intents = {}
  BY DEF Init, Resting, ReportSound, AnswerSound, LostSound, OneFittingOrder
<1> QED
  BY <1>1, <1>2, <1>3 DEF IInv

LEMMA NextIInv == ASSUME IInv, [Next]_vars PROVE IInv'
<1>1. CASE Trader
  BY <1>1, StartCycleKeeps, PositionsKeep, PollFetchKeeps, PollFetchFailsKeeps, PollApplyIs, JournalStepKeeps,
     DecideKeeps, EndOfCycleKeeps, ExecuteKeeps, AnswerKeeps DEF Trader
<1>2. CASE Stream
  BY <1>2, StreamEventIs, JournalStepKeeps, StreamLossKeeps DEF Stream
<1>3. CASE Environment
  BY <1>3, FillKeeps, ExpireKeeps, RestartKeeps, NewBarKeeps DEF Environment
<1> QED
  BY <1>1, <1>2, <1>3, StutterKeeps DEF Next

(* Every behaviour of the trader, the exchange and the stream keeps the
   invariant: the orders, the intents, the report that the trader has read and
   the order it waits for agree with each other. *)
THEOREM Sound == Spec => []IInv
<1>1. Init => IInv
  BY InitIInv
<1>2. IInv /\ [Next]_vars => IInv'
  BY NextIInv
<1> QED
  BY <1>1, <1>2, PTL DEF Spec

(* The types: an order in the journal is one that the exchange has accepted,
   and a trader that applies a report or waits for an answer names the order. *)
THEOREM TypeCorrect == Spec => []TypeOK
<1>1. IInv => TypeOK
  BY DEF IInv
<1> QED
  BY <1>1, Sound, PTL

(* For every bound, policy and fault: the journal never tracks two orders, its
   order is on the right side of the position, and until the process starts
   again a tracked closing order fits the position, so that close_position
   never raises under the lock of the poll or of the stream. *)
THEOREM OneFittingOrderAlways == Spec => []OneFittingOrder
<1>1. IInv => OneFittingOrder
  BY DEF IInv
<1> QED
  BY <1>1, Sound, PTL

-----------------------------------------------------------------------------
(* The ledger: every step is one of FillLedger's, or none *)

Filled == [o \in Coids |-> ord[o].dir * ord[o].filled]
Booked == [o \in Coids |-> ord[o].dir * booked[o]]

\* Steps that the ledger does not see: the orders keep their side and what is
\* filled of them, or nothing is.
Unseen ==
    /\ UNCHANGED <<booked, pos, restarts>>
    /\ \A o \in Coids : \/ ord'[o].dir = ord[o].dir /\ ord'[o].filled = ord[o].filled
                        \/ ord[o].filled = 0 /\ ord'[o].filled = 0

LEMMA UnseenIs ==
    ASSUME IInv, IInv', Unseen
    PROVE  UNCHANGED <<Filled, Booked, pos, restarts > 0>>
<1>1. /\ TypeOK /\ TypeOK' /\ booked' = booked
      /\ \A o \in Coids : booked[o] <= ord[o].filled
  BY DEF IInv, OrderSound, Unseen
<1>2. ASSUME NEW o \in Coids
      PROVE  /\ ord'[o].dir * ord'[o].filled = ord[o].dir * ord[o].filled
             /\ ord'[o].dir * booked[o] = ord[o].dir * booked[o]
  <2>1. /\ booked[o] \in Nat /\ ord[o].dir \in Int /\ ord'[o].dir \in Int
        /\ ord[o].filled \in Nat /\ ord'[o].filled \in Nat
    BY <1>1 DEF TypeOK, Order, Dirs
  <2>2. CASE ord'[o].dir = ord[o].dir /\ ord'[o].filled = ord[o].filled
    BY <2>2
  <2>3. CASE ord[o].filled = 0 /\ ord'[o].filled = 0
    <3>1. booked[o] = 0
      BY <1>1, <2>1, <2>3
    <3> QED
      BY <2>1, <2>3, <3>1
  <2> QED
    BY <2>2, <2>3 DEF Unseen
<1>3. Filled' = Filled /\ Booked' = Booked
  BY <1>1, <1>2 DEF Filled, Booked
<1> QED
  BY <1>3 DEF Unseen

LEMMA WeakerUnseen ==
    ASSUME TypeOK, Weaker(ord'), UNCHANGED <<booked, pos, restarts>>
    PROVE  Unseen
  BY WeakerIs DEF Unseen

LEMMA SubmitUnseen ==
    ASSUME IInv, NEW book, Weaker(book), NEW rest, NEW dir, NEW kind, NEW n,
           Submit(book, rest, dir, kind, n), UNCHANGED <<booked, pos, restarts>>
    PROVE  Unseen
<1>1. TypeOK
  BY DEF IInv
<1>2. CASE ord' = book
  BY <1>1, <1>2, WeakerUnseen
<1>3. CASE Accept(book, rest, dir, kind, n)
  <2>1. PICK o \in Coids :
          /\ book[o].st = "none"
          /\ ord' = [book EXCEPT ![o] = [st |-> "open", dir |-> dir, kind |-> kind,
                                         size |-> n, bar |-> bar, filled |-> 0]]
    BY <1>3 DEF Accept
  <2>2. ord'[o].filled = 0 /\ \A p \in Coids : p # o => ord'[p] = book[p]
    BY <2>1 DEF Weaker
  <2>3. ord[o].filled = 0
    BY <1>1, <2>1, WeakerIs DEF IInv, OrderSound
  <2> QED
    BY <1>1, <2>2, <2>3, WeakerIs DEF Unseen
<1> QED
  BY <1>2, <1>3 DEF Submit, NotSent, Reject, Duplicate

LEMMA ExecuteUnseen == ASSUME IInv, Execute PROVE Unseen
<1>1. TypeOK /\ Weaker(ord) /\ pending \subseteq Coids /\ UNCHANGED <<booked, pos, restarts>>
  BY DEF IInv, TypeOK, Weaker, Execute
<1>2. \A o \in pending : \A book \in Cancelled(o) : Weaker(book)
  BY <1>1, CancelledIs
<1>3. ASSUME Leave PROVE Unseen
  BY <1>1, <1>3, WeakerUnseen DEF Leave
<1>4. ASSUME NEW o \in pending, CancelPending(o) PROVE Unseen
  BY <1>1, <1>2, <1>4, WeakerUnseen DEF CancelPending
<1>5. CASE ExecuteHold
  BY <1>3, <1>4, <1>5 DEF ExecuteHold
<1>6. CASE ExecuteClose
  BY <1>1, <1>3, <1>4, <1>6, SubmitUnseen DEF ExecuteClose
<1>7. ASSUME NEW d, ExecuteOpen(d) PROVE Unseen
  BY <1>1, <1>2, <1>3, <1>7, SubmitUnseen DEF ExecuteOpen
<1> QED
  BY <1>5, <1>6, <1>7 DEF Execute

LEMMA QuietUnseen ==
    ASSUME TypeOK, UNCHANGED <<ord, booked, pos, restarts>>
    PROVE  Unseen
  BY DEF Unseen

\* A fill is a fill of the ledger ...
LEMMA LedgerFill == ASSUME IInv, NEW o \in Coids, Fill(o) PROVE Ledger!Fill(o)
<1>1. /\ TypeOK /\ ord[o].dir \in {-1, 1} /\ ord[o].filled \in Nat
      /\ UNCHANGED <<booked, pos, restarts>>
  BY OrderFields DEF IInv, Fill, journal, Dirs
<1>2. /\ \A p \in Coids : ord'[p].dir = ord[p].dir
      /\ \A p \in Coids : p # o => ord'[p].filled = ord[p].filled
      /\ ord'[o].filled = ord[o].filled + 1
  BY <1>1 DEF Fill, TypeOK, Order
<1>3. Filled' = [Filled EXCEPT ![o] = @ + ord[o].dir]
  <2>1. ord'[o].dir * ord'[o].filled = ord[o].dir * ord[o].filled + ord[o].dir
    BY <1>1, <1>2
  <2> QED
    BY <1>2, <2>1 DEF Filled
<1>4. Filled[o] * ord[o].dir >= 0
  <2>1. Filled[o] = ord[o].dir * ord[o].filled
    BY DEF Filled
  <2> QED
    BY <1>1, <2>1
<1>5. UNCHANGED <<Booked, pos, restarts > 0>>
  BY <1>1, <1>2 DEF Booked
<1> QED
  BY <1>1, <1>3, <1>4, <1>5 DEF Ledger!Fill, Filled, Booked

\* ... a booking one of its bookings, or nothing new ...
LEMMA LedgerBook ==
    ASSUME IInv, NEW o \in pending, NEW cum \in Nat, Books(o, cum)
    PROVE  Ledger!Book(o) \/ Unseen
<1>1. /\ TypeOK /\ o \in Coids /\ OrderSound(o) /\ Aside /\ BooksUpTo(o, cum)
      /\ restarts' = restarts /\ pos \in Int /\ restarts \in Nat
  BY LiveBounds DEF IInv, TypeOK, Books, Aside
<1> DEFINE d == ord[o].dir
           b == booked[o]
           n == booked'[o]
           f == ord[o].filled
<1>2. /\ d \in {-1, 1} /\ b \in Nat /\ n \in Nat /\ f \in Nat /\ b <= n /\ n <= f
      /\ pos' = pos + d * (n - b) \/ (restarts # 0 /\ pos' = pos)
  BY <1>1, OrderFields DEF BooksUpTo, Dirs
<1>3. /\ \A p \in Coids : ord'[p].dir = ord[p].dir /\ ord'[p].filled = ord[p].filled
      /\ \A p \in Coids : p # o => booked'[p] = booked[p]
  BY <1>1, WeakerOrders DEF BooksUpTo
<1>4. CASE n = b
  <2>1. pos' = pos
    <3>1. d * (n - b) = 0
      BY <1>2, <1>4
    <3> HIDE DEF d, b, n
    <3> QED
      BY <1>1, <1>2, <3>1
  <2>2. booked' = booked
    BY <1>1, <1>3, <1>4 DEF BooksUpTo, TypeOK
  <2> QED
    BY <1>1, <1>3, <2>1, <2>2 DEF Unseen
<1>5. CASE n # b
  <2>1. Filled' = Filled
    BY <1>3 DEF Filled
  <2>2. Booked' = [Booked EXCEPT ![o] = d * n]
    BY <1>1, <1>3 DEF Booked
  <2>3. Booked[o] = d * b /\ Filled[o] = d * f
    BY <1>1 DEF Booked, Filled
  <2> HIDE DEF d, b, n, f
  <2>4. d * n \in ((d * b + 1)..(d * f)) \cup ((d * f)..(d * b - 1))
    BY <1>2, <1>5
  <2>5. pos' = pos + d * n - d * b \/ ((restarts > 0) /\ pos' = pos)
    BY <1>1, <1>2
  <2>6. UNCHANGED <<Filled, restarts > 0>>
    BY <1>1, <2>1
  <2> DEFINE m == d * n
  <2>7. /\ m \in ((Booked[o] + 1)..Filled[o]) \cup (Filled[o]..(Booked[o] - 1))
        /\ Booked' = [Booked EXCEPT ![o] = m]
        /\ pos' = pos + m - Booked[o] \/ ((restarts > 0) /\ pos' = pos)
    BY <2>2, <2>3, <2>4, <2>5
  <2> HIDE DEF m
  <2> QED
    BY <2>6, <2>7 DEF Ledger!Book, Filled, Booked
<1> QED
  BY <1>4, <1>5

\* ... and a restart starts the ledger again.
LEMMA LedgerStart == ASSUME IInv, Restart PROVE Ledger!StartAgain
<1>1. /\ TypeOK /\ ord' = ord /\ booked' = [o \in Coids |-> 0] /\ pos' = 0
      /\ restarts' = restarts + 1 /\ restarts \in Nat
  BY LiveBounds DEF IInv, TypeOK, Restart, exchange
<1>2. restarts' > 0
  BY <1>1
<1>3. Filled' = Filled
  BY <1>1 DEF Filled
<1>4. Booked' = [o \in Coids |-> 0]
  <2>1. \A o \in Coids : ord[o].dir * 0 = 0
    BY <1>1, OrderFields DEF Dirs
  <2> QED
    BY <1>1, <2>1 DEF Booked
<1> QED
  BY <1>1, <1>2, <1>3, <1>4 DEF Ledger!StartAgain, Filled, Booked

LEMMA LedgerInit == ASSUME Init PROVE Ledger!Init
<1>1. ord = [o \in Coids |-> NoOrder] /\ booked = [o \in Coids |-> 0] /\ pos = 0 /\ restarts = 0
  BY DEF Init
<1>2. NoOrder.dir * NoOrder.filled = 0 /\ NoOrder.dir * 0 = 0
  BY DEF NoOrder
<1>3. Filled = [o \in Coids |-> 0] /\ Booked = [o \in Coids |-> 0]
  BY <1>1, <1>2 DEF Filled, Booked
<1> QED
  BY <1>1, <1>3 DEF Ledger!Init, Filled, Booked

LEMMA LedgerStep ==
    ASSUME IInv, IInv', [Next]_vars
    PROVE  \/ Ledger!Next
           \/ UNCHANGED <<Filled, Booked, pos, restarts > 0>>
<1>1. TypeOK /\ pending \subseteq Coids
  BY DEF IInv, TypeOK
<1>2. ASSUME JournalStep PROVE Ledger!Next \/ Unseen
  <2>1. CASE Drops
    BY <1>1, <2>1, WeakerUnseen DEF Drops, Aside
  <2>2. CASE \E o \in pending, cum \in Nat : Books(o, cum)
    BY <1>1, <2>2, LedgerBook DEF Ledger!Next
  <2> QED
    BY <1>2, <2>1, <2>2 DEF JournalStep
<1>3. CASE Trader
  <2>1. CASE PollApply
    BY <1>2, <2>1, PollApplyIs, UnseenIs
  <2>2. CASE Execute
    BY <2>2, ExecuteUnseen, UnseenIs
  <2>3. CASE ~PollApply /\ ~Execute
    <3>1. UNCHANGED <<ord, booked, pos, restarts>>
      BY <1>3, <2>3 DEF Trader, StartCycle, FetchPositions, FetchPositionsFails, Compare,
         PollFetch, PollFetchFails, Decide, NoDecision, NothingToExecute, Answer, exchange, journal
    <3> QED
      BY <1>1, <3>1, QuietUnseen, UnseenIs
  <2> QED
    BY <2>1, <2>2, <2>3
<1>4. CASE Stream
  <2>1. PICK o \in Coids : StreamEvent(o) \/ StreamLoss(o)
    BY <1>4 DEF Stream
  <2>2. CASE StreamEvent(o)
    BY <1>2, <2>2, StreamEventIs, UnseenIs
  <2>3. CASE StreamLoss(o)
    BY <1>1, <2>3, QuietUnseen, UnseenIs DEF StreamLoss, exchange, journal
  <2> QED
    BY <2>1, <2>2, <2>3
<1>5. CASE Environment
  <2>1. ASSUME NEW o \in Coids, Fill(o) PROVE Ledger!Next
    BY <2>1, LedgerFill DEF Ledger!Next
  <2>2. ASSUME NEW o \in Coids, Expire(o) PROVE Unseen
    BY <1>1, <2>2, OrderFields DEF Unseen, Expire, journal, TypeOK, Order
  <2>3. CASE Restart
    BY <2>3, LedgerStart DEF Ledger!Next
  <2>4. CASE NewBar
    BY <1>1, <2>4, QuietUnseen, UnseenIs DEF NewBar, exchange, journal
  <2> QED
    BY <1>5, <2>1, <2>2, <2>3, <2>4, UnseenIs DEF Environment
<1>6. CASE UNCHANGED vars
  BY <1>1, <1>6, QuietUnseen, UnseenIs DEF vars, exchange, journal
<1> QED
  BY <1>3, <1>4, <1>5, <1>6 DEF Next

(* For every bound, policy and fault the order life cycle implements the
   ledger: a lot is booked at most once and never before the exchange has
   filled it, and moves the position once, in its own direction; only a trader
   that has started again may book one that does not move it. *)
THEOREM LedgerImplemented == Spec => ImplementsLedger
<1>1. Init => Ledger!Init
  BY LedgerInit
<1>2. IInv /\ IInv' /\ [Next]_vars =>
        [Ledger!Next]_<<[o \in Coids |-> ord[o].dir * ord[o].filled],
                        [o \in Coids |-> ord[o].dir * booked[o]], pos, restarts > 0>>
  BY LedgerStep DEF Filled, Booked
<1> QED
  BY <1>1, <1>2, Sound, PTL DEF Spec, ImplementsLedger, Ledger!LedgerSpec

-----------------------------------------------------------------------------
(* Exposure at the exchange, while cancels, submissions and the stream do not
   fail and the process is not killed.  Then every order that is open at the
   exchange is tracked, and what the exchange's position may be follows from
   the local one, the tracked order and the place of the trader's cycle. *)

Tracked == pending \cup (IF tr.pc = "answer" THEN {tr.o} ELSE {})

Undisturbed == Faults \subseteq {"fetch"} /\ MaxRestarts = 0

\* The position came from the tracked opening order only; at the exchange an
\* earlier order may have left lots on the other side, within two orders' size.
OpenSound(o) ==
    /\ ord[o].size = Size /\ pos = ord[o].dir * booked[o]
    /\ ord[o].dir * exPos \in (ord[o].filled - 2 * Size)..ord[o].filled

\* The exchange has no more to close than the trader knows of, and what the
\* order has filled it has closed.
CloseSound(o) ==
    /\ ord[o].dir * (exPos - pos) >= ord[o].filled - booked[o]
    /\ ord[o].filled > 0 => ord[o].dir * exPos <= 0

TrackSound(o) ==
    /\ told[o] <= booked[o]
    /\ ord[o].kind = "open" => OpenSound(o)
    /\ ord[o].kind = "close" => CloseSound(o)

\* The exchange's position lies between zero and the local one, or beyond zero.
NoExcess == (pos >= 0 => exPos <= pos) /\ (pos <= 0 => exPos >= pos)

\* The lots on the other side are made up for, unless something is booked.
MadeUp == \A o \in pending : ord[o].kind = "open" /\ pos = 0 => ord[o].dir * exPos >= 0

Clear == (pending = {} => NoExcess) /\ MadeUp
MayClose == Clear /\ \A o \in pending : ord[o].kind = "open" => pos # 0
MayOpen == (pending = {} /\ pos = 0 => exPos = 0) /\ MadeUp

Shaped(plan) ==
    Len(plan) <= 1 \/ (Len(plan) = 2 /\ plan[1].act = "close" /\ plan[2].act = "open")

Cleared(plan) ==
    /\ plan # <<>> /\ Head(plan).act = "close" => MayClose
    /\ plan # <<>> /\ Head(plan).act = "open" => MayOpen

Steady ==
    /\ tr.pc = "apply" /\ tr.got.st = "canceled" => ord[tr.o].st = "canceled"
    /\ tr.pc = "compare" /\ tr.seen = pos => Clear
    /\ tr.pc = "decide" => Clear
    /\ tr.pc = "execute" => Cleared(tr.plan)
    /\ tr.pc \in {"execute", "answer"} => Shaped(tr.plan)
    /\ tr.pc = "answer" => Head(tr.plan).act = ord[tr.o].kind

OpenTracked == \A o \in Coids : ord[o].st = "open" => o \in Tracked

Exposed ==
    /\ intents = {} /\ restarts = 0
    /\ OpenTracked
    /\ \A o \in Coids : ord[o].st = "none" => told[o] = 0
    /\ \A o \in Tracked : TrackSound(o)
    /\ Steady

\* A product with a side, and its absolute value.
LEMMA SideIs ==
    ASSUME NEW d \in Dirs, NEW n \in Int
    PROVE  /\ d * n \in Int /\ (d = 1 => d * n = n) /\ (d = -1 => d * n = -n)
           /\ d \in {-1, 1} /\ d \in Int
  BY DEF Dirs

LEMMA TrackedIs ==
    ASSUME IInv
    PROVE  /\ Tracked \subseteq Coids /\ pending \subseteq Tracked
           /\ \A o, p \in Tracked : o = p
           /\ \A o \in Tracked : ord[o].st # "none"
           /\ tr.pc # "answer" => Tracked = pending
           /\ tr.pc = "answer" => Tracked = {tr.o} /\ pending = {}
<1>1. /\ pending \subseteq Coids /\ \A o, p \in pending : o = p
      /\ \A o \in pending : ord[o].st # "none"
  BY DEF IInv, TypeOK, OneFittingOrder
<1>2. tr.pc = "answer" => pending = {} /\ ord[tr.o].st # "none" /\ tr.o \in Coids
  BY DEF IInv, AnswerSound, TypeOK
<1> QED
  BY <1>1, <1>2 DEF Tracked

\* The numbers of a tracked order, without products.
LEMMA TrackNumbers ==
    ASSUME IInv, NEW o \in Coids
    PROVE  /\ ord[o].dir \in {-1, 1} /\ ord[o].dir \in Dirs /\ ord[o].kind \in {"open", "close"}
           /\ ord[o].size \in Nat /\ ord[o].filled \in Nat /\ booked[o] \in Nat /\ told[o] \in Nat
           /\ booked[o] <= ord[o].filled /\ ord[o].filled <= ord[o].size
           /\ pos \in Int /\ exPos \in Int /\ Size \in Nat /\ Size > 0 /\ o \in Nat
  BY OrderFields, LiveBounds DEF IInv, TypeOK, OrderSound, Dirs, Coids

-----------------------------------------------------------------------------
(* The trader on its own *)

LEMMA QuietExposed ==
    ASSUME IInv, Exposed, tr.pc # "answer", tr'.pc # "answer", Steady',
           UNCHANGED <<ord, exPos, told, pending, booked, pos, intents, restarts>>
    PROVE  Exposed'
<1>1. Tracked' = Tracked
  BY DEF Tracked
<1> QED
  BY <1>1 DEF Exposed, OpenTracked, TrackSound, OpenSound, CloseSound

LEMMA JoinIs ==
    ASSUME NEW c, NEW d
    PROVE  /\ <<>> \o <<>> = <<>> /\ <<>> \o <<d>> = <<d>>
           /\ <<c>> \o <<>> = <<c>>
           /\ LET s == <<c>> \o <<d>>
              IN  Len(s) = 2 /\ s[1] = c /\ s[2] = d /\ Head(s) = c
<1>1. \A s \in Seq({c, d}) : s \o <<>> = s /\ <<>> \o s = s
  OBVIOUS
<1>2. <<>> \in Seq({c, d}) /\ <<c>> \in Seq({c, d}) /\ <<d>> \in Seq({c, d})
  OBVIOUS
<1>3. /\ <<c>> \o <<d>> \in Seq({c, d}) /\ Len(<<c>> \o <<d>>) = 2
      /\ (<<c>> \o <<d>>)[1] = c /\ (<<c>> \o <<d>>)[2] = d
  OBVIOUS
<1>4. \A s \in Seq({c, d}) : Head(s) = s[1]
  OBVIOUS
<1> QED
  BY <1>1, <1>2, <1>3, <1>4

LEMMA PlansShaped ==
    ASSUME TypeOK, NEW want \in {-1, 0, 1}, NEW broken \in BOOLEAN, NEW plan \in Plans(want, broken)
    PROVE  Shaped(plan) /\ (plan # <<>> /\ Head(plan).act = "close" => pos # 0)
<1>1. /\ Shaped(<<>>) /\ Shaped(<<Hold>>) /\ Shaped(<<Close>>)
      /\ Head(<<Hold>>).act = "hold" /\ Head(<<Close>>).act = "close"
  BY DEF Shaped, Hold, Close
<1>2. CASE plan \in Exits \/ plan = <<Hold>>
  BY <1>1, <1>2 DEF Exits
<1>3. CASE want # 0 /\ \E x \in Exits, e \in Entries(want) : plan = x \o e
  <2>1. PICK x \in Exits, e \in Entries(want) : plan = x \o e
    BY <1>3
  <2>2. Open(want).act = "open" /\ Close.act = "close"
    BY DEF Open, Close
  <2>3. (x = <<>> \/ (pos # 0 /\ x = <<Close>>)) /\ e \in {<<Open(want)>>, <<>>}
    BY <2>1 DEF Exits, Entries
  <2> DEFINE c == Close
             d == Open(want)
  <2> HIDE DEF c, d
  <2>4. Len(<<d>>) = 1 /\ Head(<<d>>) = d /\ Len(<<c>>) = 1
    OBVIOUS
  <2>5. /\ <<>> \o <<>> = <<>> /\ <<>> \o <<d>> = <<d>> /\ <<c>> \o <<>> = <<c>>
        /\ LET s == <<c>> \o <<d>>
           IN  Len(s) = 2 /\ s[1] = c /\ s[2] = d /\ Head(s) = c
    BY JoinIs
  <2>6. \/ plan = <<>> \/ plan = <<d>> \/ (pos # 0 /\ plan = <<c>>)
        \/ (pos # 0 /\ plan = <<c>> \o <<d>>)
    BY <2>1, <2>3, <2>5 DEF c, d
  <2>7. c.act = "close" /\ d.act = "open"
    BY <2>2 DEF c, d
  <2> QED
    BY <1>1, <2>4, <2>5, <2>6, <2>7 DEF Shaped
<1>4. CASE broken
  BY <1>2, <1>4 DEF Plans
<1>5. CASE ~broken
  BY <1>2, <1>3, <1>5 DEF Plans
<1> QED
  BY <1>4, <1>5

LEMMA TraderExposed ==
    ASSUME IInv, Exposed, NEW o,
           \/ StartCycle \/ FetchPositions \/ FetchPositionsFails \/ Compare
           \/ PollFetch(o) \/ PollFetchFails(o) \/ Decide \/ NoDecision \/ NothingToExecute
    PROVE  Exposed'
<1> USE DEF exchange, journal
<1>1. /\ TypeOK /\ Steady /\ tr \in TraderState /\ pos \in Int /\ exPos \in Int
      /\ tr.pc # "answer"
      /\ UNCHANGED <<ord, exPos, told, pending, booked, pos, intents, restarts>>
  BY TraderFields DEF IInv, Exposed, TypeOK, StartCycle, FetchPositions, FetchPositionsFails, Compare,
     PollFetch, PollFetchFails, Decide, NoDecision, NothingToExecute
<1>2. CASE tr'.pc \in {"idle", "poll", "halted"}
  <2>1. Steady'
    BY <1>2 DEF Steady
  <2> QED
    BY <1>1, <1>2, <2>1, QuietExposed
<1>r. Resting.pc = "idle"
  BY RestingIs
<1>3. CASE StartCycle \/ FetchPositionsFails \/ PollFetchFails(o) \/ NoDecision \/ NothingToExecute
  <2>1. tr'.pc \in {"idle", "poll", "halted"}
    BY <1>1, <1>3, <1>r DEF StartCycle, FetchPositionsFails, PollFetchFails, NoDecision,
       NothingToExecute, TraderState
  <2> QED
    BY <1>2, <2>1
<1>4. CASE PollFetch(o)
  <2>1. /\ tr'.pc = "apply" /\ tr'.o = o
        /\ tr'.got = [st |-> ord[o].st, filled |-> ord[o].filled]
    BY <1>1, <1>4 DEF PollFetch, TraderState
  <2>2. Steady'
    BY <1>1, <2>1 DEF Steady
  <2> QED
    BY <1>1, <2>1, <2>2, QuietExposed
<1>5. CASE FetchPositions
  <2>1. tr'.pc = "compare" /\ tr'.seen = exPos
    BY <1>1, <1>5 DEF FetchPositions, TraderState
  <2>2. exPos = pos => Clear
    <3>1. \A p \in pending : ord[p].dir * 0 = 0
      BY TrackedIs, TrackNumbers
    <3> QED
      BY <1>1, <3>1 DEF Clear, NoExcess, MadeUp
  <2>3. exPos = pos => Clear'
    BY <1>1, <2>2 DEF Clear, NoExcess, MadeUp
  <2>4. Steady'
    BY <1>1, <2>1, <2>3 DEF Steady
  <2> QED
    BY <1>1, <2>1, <2>4, QuietExposed
<1>6. CASE Compare
  <2>1. CASE tr.seen = pos
    <3>1. tr.pc = "compare" /\ tr' = [tr EXCEPT !.pc = "decide", !.seen = 0]
      BY <1>6, <2>1 DEF Compare, Matches
    <3>2. tr'.pc = "decide"
      BY <1>1, <3>1 DEF TraderState
    <3>3. Clear'
      BY <1>1, <2>1, <3>1 DEF Steady, Clear, NoExcess, MadeUp
    <3>4. Steady'
      BY <3>2, <3>3 DEF Steady
    <3> QED
      BY <1>1, <3>2, <3>4, QuietExposed
  <2>2. CASE tr.seen # pos
    <3>1. tr' = [tr EXCEPT !.pc = "halted", !.seen = 0]
      BY <1>6, <2>2 DEF Compare, Matches
    <3>2. tr'.pc = "halted"
      BY <1>1, <3>1 DEF TraderState
    <3> QED
      BY <1>2, <3>2
  <2> QED
    BY <2>1, <2>2
<1>7. CASE Decide
  <2>1. tripped' \in BOOLEAN /\ tr.pc = "decide"
    BY <1>1, <1>7, LiveBounds DEF Decide, TypeOK
  <2>2. PICK want \in {-1, 0, 1} : \E plan \in Plans(want, tripped') :
          tr' = [tr EXCEPT !.pc = "execute", !.plan = plan]
    BY <1>7 DEF Decide
  <2>3. PICK plan \in Plans(want, tripped') : tr' = [tr EXCEPT !.pc = "execute", !.plan = plan]
    BY <2>2
  <2>4. tr'.pc = "execute" /\ tr'.plan = plan
    BY <1>1, <2>3 DEF TraderState
  <2>5. Shaped(plan) /\ (plan # <<>> /\ Head(plan).act = "close" => pos # 0)
    BY <1>1, <2>1, PlansShaped
  <2>6. Clear
    BY <1>1, <2>1 DEF Steady
  <2>7. Cleared(plan)
    BY <1>1, <2>5, <2>6 DEF Cleared, MayClose, MayOpen, Clear, NoExcess
  <2>8. Cleared(tr.plan)'
    BY <1>1, <2>4, <2>7 DEF Cleared, MayClose, MayOpen, Clear, NoExcess, MadeUp
  <2>9. Steady'
    BY <2>4, <2>5, <2>8 DEF Steady
  <2> QED
    BY <1>1, <2>4, <2>9, QuietExposed
<1> QED
  BY <1>3, <1>4, <1>5, <1>6, <1>7 DEF StartCycle

-----------------------------------------------------------------------------
(* The exchange and the stream *)

LEMMA FillExposed == ASSUME IInv, Exposed, NEW o \in Coids, Fill(o) PROVE Exposed'
<1> DEFINE d == ord[o].dir
<1> USE DEF journal
<1>1. /\ TypeOK /\ ord[o].st = "open" /\ (ord[o].kind = "close" => d * exPos < 0)
      /\ exPos' = exPos + d /\ tr' = tr /\ pending' = pending
      /\ UNCHANGED <<told, booked, pos, intents, restarts>>
      /\ ord' = [ord EXCEPT ![o].filled = @ + 1,
                            ![o].st = IF ord[o].filled + 1 = ord[o].size THEN "closed" ELSE "open"]
  BY DEF IInv, Fill
<1>2. /\ ord'[o].dir = d /\ ord'[o].kind = ord[o].kind /\ ord'[o].size = ord[o].size
      /\ ord'[o].filled = ord[o].filled + 1 /\ ord'[o].st # "none"
      /\ \A p \in Coids : p # o => ord'[p] = ord[p]
  BY <1>1, OrderFields DEF TypeOK, Order
<1>3. /\ o \in Tracked /\ TrackSound(o) /\ \A p \in Tracked : p = o
      /\ Tracked' = Tracked /\ (tr.pc # "answer" => pending = {o})
  BY <1>1, TrackedIs DEF Exposed, OpenTracked, Tracked
<1>4. /\ d * exPos' = d * exPos + 1 /\ d * (exPos' - pos) = d * (exPos - pos) + 1
      /\ d * exPos \in Int /\ d * (exPos - pos) \in Int /\ exPos' \in Int
  BY <1>1, TrackNumbers, SideIs
<1>n. /\ ord[o].filled \in Nat /\ booked[o] \in Nat /\ told[o] \in Nat /\ Size \in Nat
  BY TrackNumbers
<1> DEFINE x == d * exPos
           y == d * (exPos - pos)
<1>c. /\ ord'[o].dir * exPos' = x + 1 /\ ord'[o].dir * (exPos' - pos') = y + 1
      /\ ord[o].dir * exPos = x /\ ord[o].dir * (exPos - pos) = y /\ x \in Int /\ y \in Int
  BY <1>1, <1>2, <1>4
<1> HIDE DEF x, y
<1>5. TrackSound(o)'
  <2>1. told'[o] <= booked'[o]
    BY <1>1, <1>3 DEF TrackSound
  <2>2. ord[o].kind = "open" => OpenSound(o)'
    <3>1. SUFFICES ASSUME OpenSound(o) PROVE OpenSound(o)'
      BY <1>3 DEF TrackSound
    <3>2. x \in (ord[o].filled - 2 * Size)..ord[o].filled
      BY <1>c, <3>1 DEF OpenSound
    <3>3. x + 1 \in (ord[o].filled + 1 - 2 * Size)..(ord[o].filled + 1)
      BY <3>2, <1>n
    <3>4. ord'[o].dir * exPos' \in (ord'[o].filled - 2 * Size)..ord'[o].filled
      <4> DEFINE e == ord'[o].dir * exPos'
                 f == ord'[o].filled
      <4>1. e = x + 1 /\ f = ord[o].filled + 1
        BY <1>2, <1>c, Zenon
      <4> HIDE DEF e, f
      <4>2. e \in (f - 2 * Size)..f
        BY <3>3, <4>1, <1>n, <1>c
      <4> QED
        BY <4>2 DEF e, f
    <3>5. ord'[o].size = Size /\ pos' = ord'[o].dir * booked'[o]
      BY <1>1, <1>2, <3>1, Zenon DEF OpenSound
    <3> QED
      BY <3>4, <3>5, Zenon DEF OpenSound
  <2>3. ord[o].kind = "close" => CloseSound(o)'
    <3>1. SUFFICES ASSUME CloseSound(o), ord[o].kind = "close" PROVE CloseSound(o)'
      BY <1>3 DEF TrackSound
    <3>2. y >= ord[o].filled - booked[o] /\ x < 0 /\ x \in Int /\ y \in Int
      BY <1>1, <1>c, <3>1 DEF CloseSound
    <3>3. y + 1 >= ord[o].filled + 1 - booked[o] /\ x + 1 <= 0
      BY <3>2, <1>n
    <3>4. /\ ord'[o].dir * (exPos' - pos') >= ord'[o].filled - booked'[o]
          /\ ord'[o].dir * exPos' <= 0
      <4> DEFINE e == ord'[o].dir * exPos'
                 g == ord'[o].dir * (exPos' - pos')
                 f == ord'[o].filled
                 b == booked'[o]
      <4>1. e = x + 1 /\ g = y + 1
        BY <1>c, Zenon
      <4>2. f = ord[o].filled + 1 /\ b = booked[o]
        BY <1>1, <1>2, Zenon
      <4> HIDE DEF e, f, g, b
      <4>3. g >= f - b /\ e <= 0
        BY <3>2, <3>3, <4>1, <4>2, <1>n
      <4> QED
        BY <4>3 DEF e, f, g, b
    <3> QED
      BY <3>4, Zenon DEF CloseSound
  <2> QED
    BY <1>2, <2>1, <2>2, <2>3 DEF TrackSound
<1>6. MadeUp /\ tr.pc # "answer" => MadeUp' /\ pending' # {}
  <2>1. SUFFICES ASSUME MadeUp, tr.pc # "answer" PROVE MadeUp' /\ pending' # {}
    OBVIOUS
  <2>2. pending' = {o}
    BY <1>1, <1>3, <2>1
  <2>3. ord[o].kind = "open" /\ pos = 0 => x + 1 >= 0
    BY <1>1, <1>3, <1>c, <2>1, <2>2 DEF MadeUp
  <2> QED
    BY <1>1, <1>2, <1>c, <2>2, <2>3 DEF MadeUp
<1>7. Steady'
  <2>1. tr.pc = "apply" /\ tr.got.st = "canceled" => ord'[tr.o].st = "canceled"
    <3>1. SUFFICES ASSUME tr.pc = "apply", tr.got.st = "canceled" PROVE ord'[tr.o].st = "canceled"
      OBVIOUS
    <3>2. tr.o \in Coids /\ ord[tr.o].st = "canceled"
      BY <1>1, <3>1 DEF Exposed, Steady, TypeOK
    <3> QED
      BY <1>1, <1>2, <3>2
  <2>2. tr.pc \in {"compare", "decide", "execute"} /\ Clear => Clear'
    BY <1>6 DEF Clear
  <2>3. tr.pc = "execute" /\ MayClose => MayClose'
    BY <1>1, <1>2, <1>3, <2>2 DEF MayClose
  <2>4. tr.pc = "execute" /\ MayOpen => MayOpen'
    BY <1>6 DEF MayOpen
  <2>5. tr.pc = "answer" => ord'[tr.o].kind = ord[tr.o].kind
    BY <1>2, <1>3 DEF Tracked
  <2> QED
    BY <1>1, <2>1, <2>2, <2>3, <2>4, <2>5 DEF Exposed, Steady, Cleared
<1>8. OpenTracked'
  BY <1>2, <1>3 DEF Exposed, OpenTracked
<1>9. \A p \in Coids : ord'[p].st = "none" => told'[p] = 0
  BY <1>1, <1>2 DEF Exposed
<1>10. \A p \in Tracked' : TrackSound(p)'
  BY <1>3, <1>5
<1> QED
  BY <1>1, <1>7, <1>8, <1>9, <1>10 DEF Exposed

LEMMA ExpireExposed == ASSUME IInv, Exposed, NEW o \in Coids, Expire(o) PROVE Exposed'
<1> USE DEF journal
<1>1. /\ TypeOK /\ ord' = [ord EXCEPT ![o].st = "canceled"] /\ tr' = tr
      /\ UNCHANGED <<exPos, told, pending, booked, pos, intents, restarts>>
      /\ ord[o].st = "open"
  BY DEF IInv, Expire
<1>2. \A p \in Coids : /\ ord'[p].dir = ord[p].dir /\ ord'[p].kind = ord[p].kind
                       /\ ord'[p].size = ord[p].size /\ ord'[p].filled = ord[p].filled
                       /\ ord'[p].st = IF p = o THEN "canceled" ELSE ord[p].st
  BY <1>1, OrderFields DEF TypeOK, Order
<1>3. Tracked' = Tracked /\ Tracked \subseteq Coids /\ pending \subseteq Coids
  BY <1>1, TrackedIs DEF Tracked
<1>4. \A p \in Tracked : TrackSound(p)'
  BY <1>1, <1>2, <1>3 DEF Exposed, TrackSound, OpenSound, CloseSound
<1>5. (MadeUp => MadeUp') /\ (NoExcess => NoExcess')
  BY <1>1, <1>2, <1>3 DEF MadeUp, NoExcess
<1>6. (Clear => Clear') /\ (MayClose => MayClose') /\ (MayOpen => MayOpen')
  BY <1>1, <1>2, <1>3, <1>5 DEF Clear, MayClose, MayOpen
<1>7. Steady'
  <2>1. tr.pc \in {"apply", "answer"} => tr.o \in Coids
    BY <1>1 DEF TypeOK
  <2> QED
    BY <1>1, <1>2, <1>6, <2>1 DEF Exposed, Steady, Cleared
<1>8. OpenTracked' /\ \A p \in Coids : ord'[p].st = "none" => told'[p] = 0
  BY <1>1, <1>2, <1>3 DEF Exposed, OpenTracked
<1> QED
  BY <1>1, <1>3, <1>4, <1>7, <1>8 DEF Exposed

\* While the process has not been started again, no booking raises.
LEMMA NeverRaises ==
    ASSUME IInv, restarts = 0, NEW o \in pending, NEW cum \in Nat, cum <= ord[o].filled
    PROVE  ~BookingRaises(o, cum)
<1>1. o \in Coids /\ OneFittingOrder
  BY DEF IInv, TypeOK
<1>2. Delta(o, cum) = cum - booked[o]
  BY <1>1, TrackNumbers DEF Delta, Smaller
<1>3. ord[o].kind = "close" => ord[o].size - booked[o] <= Abs(pos)
  BY <1>1 DEF OneFittingOrder
<1> QED
  BY <1>1, <1>2, <1>3, TrackNumbers, SignIs DEF BookingRaises

\* What booking a tracked order that stays tracked, or is gone, keeps.
Settles(o, n) ==
    /\ booked' \in [Coids -> Nat] /\ pos' \in Int
    /\ booked'[o] >= booked[o] /\ booked'[o] >= n /\ booked'[o] <= ord[o].filled
    /\ pos' = pos + ord[o].dir * (booked'[o] - booked[o])
    /\ Sign(pos') \in {0, IF ord[o].kind = "open" THEN ord[o].dir ELSE -ord[o].dir}

LEMMA BookedSound ==
    ASSUME IInv, Exposed, NEW o \in pending, NEW n \in Nat, Settles(o, n), UNCHANGED exPos,
           ord'[o].dir = ord[o].dir, ord'[o].kind = ord[o].kind, ord'[o].size = ord[o].size,
           ord'[o].filled = ord[o].filled
    PROVE  /\ ord[o].kind = "open" => OpenSound(o)' /\ (n > 0 => pos' # 0)
           /\ ord[o].kind = "close" => CloseSound(o)'
<1> DEFINE d == ord[o].dir
           b == booked[o]
           c == booked'[o]
<1>1. o \in Coids /\ TrackSound(o)
  BY TrackedIs DEF Exposed
<1>2. /\ d \in {-1, 1} /\ b \in Nat /\ c \in Nat /\ pos \in Int /\ exPos \in Int /\ Size \in Nat
      /\ ord[o].filled \in Nat /\ pos' = pos + d * (c - b) /\ c >= n /\ c >= b
  BY <1>1, TrackNumbers DEF Settles
<1>3. CASE ord[o].kind = "open"
  <2>1. OpenSound(o)
    BY <1>1, <1>3 DEF TrackSound
  <2>2. pos = d * b /\ pos' = d * c
    <3>1. pos = d * b
      BY <2>1 DEF OpenSound
    <3> QED
      BY <1>2, <3>1
  <2>3. n > 0 => pos' # 0
    BY <1>2, <2>2
  <2> QED
    BY <1>3, <2>1, <2>2, <2>3 DEF OpenSound
<1>4. CASE ord[o].kind = "close"
  <2>1. d * (exPos - pos) >= ord[o].filled - b /\ (ord[o].filled > 0 => d * exPos <= 0)
    BY <1>1, <1>4 DEF TrackSound, CloseSound
  <2>2. d * (exPos - pos') = d * (exPos - pos) - (c - b)
    BY <1>2
  <2>3. d * (exPos - pos') >= ord[o].filled - c
    BY <1>2, <2>1, <2>2
  <2> QED
    BY <1>4, <2>1, <2>3 DEF CloseSound
<1> QED
  BY <1>1, <1>3, <1>4, TrackNumbers

\* Everything that the order filled is booked, and the order is gone.
LEMMA SettledIsLevel ==
    ASSUME IInv, Exposed, NEW o \in pending, NEW n \in Nat, Settles(o, n), UNCHANGED exPos,
           booked'[o] = ord[o].filled,
           ord[o].kind = "open" /\ pos' = 0 => ord[o].dir * exPos >= 0,
           ord[o].kind = "close" /\ pos' = 0 => ord[o].filled > 0
    PROVE  NoExcess'
<1> DEFINE d == ord[o].dir
           b == booked[o]
           c == booked'[o]
<1>1. o \in Coids /\ TrackSound(o)
  BY TrackedIs DEF Exposed
<1>2. /\ d \in {-1, 1} /\ b \in Nat /\ c \in Nat /\ pos \in Int /\ pos' \in Int /\ exPos \in Int
      /\ Size \in Nat /\ c = ord[o].filled /\ pos' = pos + d * (c - b)
  BY <1>1, TrackNumbers DEF Settles
<1>3. CASE ord[o].kind = "open"
  <2>1. pos = d * b /\ d * exPos <= c
    BY <1>1, <1>2, <1>3, SideIs DEF TrackSound, OpenSound, Dirs
  <2>2. pos' = d * c
    BY <1>2, <2>1
  <2>3. CASE c = 0
    <3>1. pos' = 0 /\ d * exPos >= 0
      BY <1>2, <1>3, <2>2, <2>3
    <3>2. exPos = 0
      BY <1>2, <2>1, <2>3, <3>1
    <3> QED
      BY <3>1, <3>2 DEF NoExcess
  <2>4. CASE c > 0
    BY <1>2, <2>1, <2>2, <2>4 DEF NoExcess
  <2> QED
    BY <1>2, <2>3, <2>4
<1>4. CASE ord[o].kind = "close"
  <2>1. d * (exPos - pos) >= c - b /\ (c > 0 => d * exPos <= 0)
    BY <1>1, <1>2, <1>4 DEF TrackSound, CloseSound
  <2>2. d * (exPos - pos') >= 0
    BY <1>2, <2>1
  <2>3. Sign(pos') \in {0, -d}
    BY <1>4 DEF Settles
  <2>4. pos' = 0 => d * exPos <= 0
    BY <1>2, <1>4, <2>1
  <2>5. (pos' > 0 => d = -1) /\ (pos' < 0 => d = 1)
    BY <1>2, <2>3, SignIs
  <2> QED
    BY <1>2, <2>2, <2>4, <2>5 DEF NoExcess
<1> QED
  BY <1>1, <1>3, <1>4, TrackNumbers

\* With nothing tracked and no excess, the trader may do what it decides.
LEMMA NothingTracked ==
    ASSUME TypeOK', pending' = {}, NoExcess'
    PROVE  Clear' /\ MayClose' /\ MayOpen'
<1>1. pos' \in Int /\ exPos' \in Int
  BY DEF TypeOK
<1>2. MadeUp' /\ Clear'
  BY DEF MadeUp, Clear
<1> QED
  BY <1>1, <1>2 DEF MayClose, MayOpen, NoExcess

LEMMA StreamEventExposed ==
    ASSUME IInv, IInv', Exposed, NEW o \in Coids, StreamEvent(o)
    PROVE  Exposed'
<1> DEFINE n == told[o] + 1
<1> USE DEF exchange
<1>1. /\ TypeOK /\ TypeOK' /\ OneFittingOrder /\ OrderSound(o) /\ restarts = 0 /\ tr.pc # "answer"
      /\ UNCHANGED <<ord, exPos, intents, tr, restarts>>
      /\ told' = [told EXCEPT ![o] = @ + 1] /\ told[o] < Events(o)
  BY DEF IInv, Exposed, StreamEvent
<1>2. /\ told[o] \in Nat /\ n \in Nat /\ n > 0 /\ told'[o] = n
      /\ \A p \in Coids : p # o => told'[p] = told[p]
      /\ ord[o].filled \in Nat /\ ord[o].size \in Nat /\ booked[o] \in Nat
      /\ booked[o] <= ord[o].filled /\ ord[o].filled <= ord[o].size
  BY <1>1, TrackNumbers DEF TypeOK
<1>e. n <= Events(o)
  BY <1>1, <1>2 DEF Events
<1>3. ord[o].st # "none" /\ (n > ord[o].filled => ord[o].st = "canceled" /\ told[o] = ord[o].filled)
  BY <1>1, <1>2, <1>e DEF Events, OrderSound
<1>4. Tracked = pending /\ Tracked' = pending'
  BY <1>1 DEF Tracked
<1>5. \A p \in Coids : ord'[p].st = "none" => told'[p] = 0
  BY <1>1, <1>2, <1>3 DEF Exposed
<1>6. CASE o \notin pending
  <2>1. UNCHANGED <<pending, booked, pos>>
    BY <1>6 DEF StreamEvent, journal
  <2>2. pending \subseteq Coids
    BY <1>1 DEF TypeOK
  <2>3. \A p \in pending : TrackSound(p)'
    BY <1>1, <1>2, <1>4, <1>6, <2>1, <2>2 DEF Exposed, TrackSound, OpenSound, CloseSound
  <2>4. Steady'
    BY <1>1, <2>1 DEF Exposed, Steady, Cleared, MayClose, MayOpen, Clear, MadeUp, NoExcess
  <2> QED
    BY <1>1, <1>4, <1>5, <2>1, <2>3, <2>4 DEF Exposed, OpenTracked
<1>7. CASE o \in pending
  <2>1. pending = {o} /\ TrackSound(o) /\ told[o] <= booked[o]
    BY <1>1, <1>4, <1>7 DEF OneFittingOrder, Exposed, TrackSound
  <2>3. CASE n > ord[o].filled
    <3>1. pending' = {} /\ UNCHANGED <<booked, pos>>
      BY <1>2, <1>7, <2>1, <2>3 DEF StreamEvent
    <3>2. booked[o] = ord[o].filled /\ ord[o].st = "canceled"
      BY <1>2, <1>3, <2>1, <2>3
    <3>3. Settles(o, 0)
      <4>1. ord[o].dir * (booked[o] - booked[o]) = 0
        BY <1>2, TrackNumbers
      <4> QED
        BY <1>1, <1>2, <1>7, <3>1, <4>1 DEF Settles, OneFittingOrder, TypeOK
    <3>4. ASSUME MadeUp PROVE Clear' /\ MayClose' /\ MayOpen'
      <4>1. ord[o].kind = "open" /\ pos' = 0 => ord[o].dir * exPos >= 0
        BY <1>7, <3>1, <3>4 DEF MadeUp
      <4>2. ord[o].kind = "close" => pos' # 0
        BY <1>1, <1>7, <3>1 DEF OneFittingOrder
      <4>3. NoExcess'
        BY <1>1, <1>7, <3>1, <3>2, <3>3, <4>1, <4>2, SettledIsLevel
      <4> QED
        BY <1>1, <3>1, <4>3, NothingTracked
    <3>5. Steady'
      BY <1>1, <3>1, <3>4 DEF Exposed, Steady, Cleared, MayClose, MayOpen, Clear
    <3>6. OpenTracked'
      BY <1>1, <1>4, <2>1, <3>1, <3>2 DEF Exposed, OpenTracked
    <3> QED
      BY <1>1, <1>4, <1>5, <3>1, <3>5, <3>6 DEF Exposed
  <2>4. CASE n <= ord[o].filled
    <3>1. ~BookingRaises(o, n)
      BY <1>1, <1>2, <1>7, <2>4, NeverRaises
    <3>2. Book(o, n) /\ pending' = (IF n = ord[o].size THEN pending \ {o} ELSE pending)
      BY <1>2, <1>7, <2>4, <3>1 DEF StreamEvent
    <3>3. BooksUpTo(o, n)
      BY <1>1, <1>2, <1>7, <2>4, <3>1, <3>2, BookIs
    <3>4. Settles(o, n)
      BY <1>1, <3>3 DEF Settles, BooksUpTo
    <3>5. /\ ord[o].kind = "open" => OpenSound(o)' /\ (n > 0 => pos' # 0)
          /\ ord[o].kind = "close" => CloseSound(o)'
      BY <1>1, <1>2, <1>7, <3>4, BookedSound
    <3>6. TrackSound(o)'
      BY <1>1, <1>2, <3>4, <3>5 DEF TrackSound, Settles
    <3>7. CASE n = ord[o].size
      <4>1. pending' = {} /\ booked'[o] = ord[o].filled /\ ord[o].filled = ord[o].size
        BY <1>2, <2>1, <2>4, <3>2, <3>4, <3>7 DEF Settles, TypeOK
      <4>2. NoExcess'
        BY <1>1, <1>2, <1>7, <2>4, <3>4, <3>5, <4>1, SettledIsLevel
      <4>3. Clear' /\ MayClose' /\ MayOpen'
        BY <1>1, <4>1, <4>2, NothingTracked
      <4>4. Steady'
        BY <1>1, <4>3 DEF Exposed, Steady, Cleared
      <4>5. OpenTracked'
        <5>1. ord[o].st # "open"
          BY <1>1, <1>2, <4>1 DEF OrderSound
        <5> QED
          BY <1>1, <1>4, <2>1, <4>1, <5>1 DEF Exposed, OpenTracked
      <4> QED
        BY <1>1, <1>4, <1>5, <4>1, <4>4, <4>5 DEF Exposed
    <3>8. CASE n # ord[o].size
      <4>1. pending' = {o}
        BY <2>1, <3>2, <3>8
      <4>2. MadeUp' /\ Clear' /\ MayClose' /\ MayOpen'
        BY <1>1, <1>2, <3>5, <4>1 DEF MadeUp, Clear, MayClose, MayOpen
      <4>3. Steady'
        BY <1>1, <4>2 DEF Exposed, Steady, Cleared
      <4> QED
        BY <1>1, <1>4, <1>5, <2>1, <3>6, <4>1, <4>3 DEF Exposed, OpenTracked
    <3> QED
      BY <3>7, <3>8
  <2> QED
    BY <1>2, <2>3, <2>4
<1> QED
  BY <1>6, <1>7

-----------------------------------------------------------------------------
(* The poll and the calls of execute *)

\* A tracked order that is not open any more leaves the journal.
LEMMA DroppedExposed ==
    ASSUME IInv, Exposed, NEW o \in pending, Weaker(ord'), ord'[o].st # "open", pending' = {},
           tr.pc # "answer", tr'.pc # "answer", Steady', UNCHANGED <<told, intents, restarts>>
    PROVE  Exposed'
<1>1. TypeOK /\ Tracked = {o} /\ Tracked' = {}
  BY TrackedIs DEF IInv, Tracked
<1>2. \A p \in Coids : ord'[p].st = ord[p].st \/ (ord[p].st = "open" /\ ord'[p].st = "canceled")
  BY <1>1, WeakerIs
<1>3. OpenTracked'
  BY <1>1, <1>2 DEF Exposed, OpenTracked
<1>4. \A p \in Coids : ord'[p].st = "none" => told'[p] = 0
  BY <1>2 DEF Exposed
<1> QED
  BY <1>1, <1>3, <1>4 DEF Exposed

LEMMA CancelWorks ==
    ASSUME Undisturbed, TypeOK, NEW o \in Coids, NEW book \in Cancelled(o)
    PROVE  /\ Weaker(book) /\ book[o].st # "open"
           /\ \A p \in Coids : p # o => book[p] = ord[p]
<1>1. "cancel" \notin Faults
  BY DEF Undisturbed
<1>2. book[o].st # "open" /\ \A p \in Coids : p # o => book[p] = ord[p]
  BY <1>1 DEF Cancelled, TypeOK, Order
<1> QED
  BY <1>2, CancelledIs

LEMMA PollApplyExposed == ASSUME Undisturbed, IInv, Exposed, PollApply PROVE Exposed'
<1>0. PICK o \in Coids : o = tr.o
  BY DEF IInv, PollApply, TypeOK
<1> DEFINE cum == IF tr.got.st = "closed" THEN ord[o].size ELSE tr.got.filled
<1>1. /\ TypeOK /\ OneFittingOrder /\ o \in Coids /\ OrderSound(o) /\ restarts = 0
      /\ tr.pc = "apply" /\ UNCHANGED <<exPos, told, intents, restarts>>
  BY DEF IInv, Exposed, PollApply, TypeOK
<1>2. /\ tr.got.filled \in Nat /\ tr.got.filled <= ord[o].filled
      /\ tr.got.st = "closed" => ord[o].filled = ord[o].size
      /\ tr.got.st = "canceled" => ord[o].st = "canceled"
  BY <1>0, <1>1, TraderFields DEF IInv, ReportSound, Exposed, Steady
<1>3. ASSUME tr' = Resting \/ NextInPoll PROVE tr'.pc # "answer" /\ Steady'
  <2>1. tr'.pc \in {"idle", "poll"}
    BY <1>1, <1>3, RestingIs, TraderFields DEF NextInPoll, TraderState
  <2> QED
    BY <2>1 DEF Steady
<1>4. ASSUME UNCHANGED <<pending, booked, pos, ord>>, NextInPoll PROVE Exposed'
  BY <1>1, <1>3, <1>4, QuietExposed
<1>5. CASE o \notin pending
  BY <1>0, <1>4, <1>5 DEF PollApply, journal
<1>6. CASE o \in pending
  <2>1. cum \in Nat /\ cum <= ord[o].filled /\ pending = {o}
    BY <1>1, <1>2, <1>6, OrderFields DEF OneFittingOrder
  <2>2. ~BookingRaises(o, cum)
    BY <1>1, <1>6, <2>1, NeverRaises
  <2>3. /\ NextInPoll
        /\ ApplyFilled(o) \/ \E late \in Late(o) : ApplyPartial(o, late) \/ ApplyUnfilled(o, late)
    BY <1>0, <1>6, <2>2 DEF PollApply
  <2>4. ASSUME Drop(o), Weaker(ord'), ord'[o].st # "open" PROVE Exposed'
    BY <1>1, <1>3, <1>6, <2>1, <2>3, <2>4, DroppedExposed DEF Drop
  <2>5. Weaker(ord) /\ \A book \in Cancelled(o) : Weaker(book) /\ book[o].st # "open"
    BY <1>1, CancelWorks DEF Weaker, TypeOK
  <2>6. CASE ApplyFilled(o)
    <3>1. ord[o].size <= ord[o].filled
      BY <1>1, <1>2, <2>6, OrderFields DEF ApplyFilled
    <3>2. ord[o].st # "open"
      BY <1>1, <3>1, OrderFields DEF OrderSound
    <3> QED
      BY <2>4, <2>5, <2>6, <3>2 DEF ApplyFilled
  <2>7. ASSUME NEW late \in Late(o), ApplyPartial(o, late) PROVE Exposed'
    <3>1. CASE Drop(o) /\ ord' \in Cancelled(o)
      BY <2>4, <2>5, <3>1
    <3>2. CASE UNCHANGED <<pending, ord>>
      <4>1. cum = tr.got.filled /\ Book(o, cum)
        BY <2>7 DEF ApplyPartial
      <4>2. BooksUpTo(o, cum)
        BY <1>1, <1>6, <2>1, <2>2, <4>1, BookIs
      <4>3. Settles(o, cum)
        BY <1>1, <4>2 DEF Settles, BooksUpTo
      <4>4. TrackSound(o)'
        <5>1. /\ ord[o].kind = "open" => OpenSound(o)'
              /\ ord[o].kind = "close" => CloseSound(o)'
          BY <1>1, <1>6, <2>1, <3>2, <4>3, BookedSound
        <5>2. told[o] <= booked[o] /\ told[o] \in Nat /\ booked[o] \in Nat /\ booked'[o] \in Nat
          BY <1>1, <1>6, TrackNumbers, TrackedIs, <4>3 DEF Exposed, TrackSound, Settles
        <5> QED
          BY <1>1, <3>2, <4>3, <5>1, <5>2 DEF TrackSound, Settles
      <4>5. Tracked' = {o} /\ Tracked = {o}
        BY <1>1, <1>3, <2>1, <2>3, <3>2 DEF Tracked
      <4> QED
        BY <1>1, <1>3, <2>3, <3>2, <4>4, <4>5 DEF Exposed, OpenTracked
    <3> QED
      BY <2>7, <3>1, <3>2 DEF ApplyPartial
  <2>8. ASSUME NEW late \in Late(o), ApplyUnfilled(o, late) PROVE Exposed'
    <3>1. CASE tr.got.st = "canceled"
      BY <1>2, <2>4, <2>5, <2>8, <3>1 DEF ApplyUnfilled
    <3>2. CASE tr.got.st # "canceled" /\ late
      BY <2>4, <2>5, <2>8, <3>2 DEF ApplyUnfilled
    <3>3. CASE tr.got.st # "canceled" /\ ~late
      BY <1>4, <2>3, <2>8, <3>3 DEF ApplyUnfilled
    <3> QED
      BY <3>1, <3>2, <3>3
  <2> QED
    BY <2>3, <2>6, <2>7, <2>8
<1> QED
  BY <1>5, <1>6

\* After a call the cycle is over, or its plan goes on with an opening.
LEMMA ExecutedSteady ==
    ASSUME TypeOK, tr.plan # <<>>, Shaped(tr.plan), Executed, Head(tr.plan).act = "close" => MayOpen'
    PROVE  tr'.pc # "answer" /\ Steady'
<1>1. tr.plan \in Seq(Call) /\ tr \in TraderState
  BY TraderFields
<1>2. CASE Len(tr.plan) = 1
  <2>1. tr'.pc = "idle"
    BY <1>2, RestingIs DEF Executed
  <2> QED
    BY <2>1 DEF Steady
<1>3. CASE Len(tr.plan) # 1
  <2>0. Len(tr.plan) \in Nat /\ Len(tr.plan) > 0
    BY <1>1
  <2>1. Len(tr.plan) = 2 /\ tr.plan[1].act = "close" /\ tr.plan[2].act = "open"
    <3>1. ~(Len(tr.plan) <= 1)
      <4> DEFINE m == Len(tr.plan)
      <4>1. m \in Nat /\ m > 0 /\ m # 1
        BY <1>3, <2>0
      <4> HIDE DEF m
      <4>2. ~(m <= 1)
        BY <4>1
      <4> QED
        BY <4>2, Zenon DEF m
    <3> QED
      BY <3>1, Zenon DEF Shaped
  <2>2. Head(tr.plan).act = "close" /\ Len(Tail(tr.plan)) = 1 /\ Head(Tail(tr.plan)).act = "open"
    BY <1>1, <2>1
  <2>3. tr'.pc = "execute" /\ tr'.plan = Tail(tr.plan)
    BY <1>1, <1>3 DEF Executed, TraderState
  <2>4. Shaped(tr'.plan)
    <3> DEFINE m == Len(tr'.plan)
    <3>1. m = 1
      BY <2>2, <2>3, Zenon
    <3> HIDE DEF m
    <3>2. m <= 1
      BY <3>1
    <3> QED
      BY <3>2, Zenon DEF Shaped, m
  <2>5. Cleared(tr.plan)'
    BY <2>2, <2>3 DEF Cleared
  <2> QED
    BY <2>3, <2>4, <2>5 DEF Steady, Shaped
<1> QED
  BY <1>2, <1>3

\* What a step of execute that sends an order knows of the position.
Ready(dir, kind) ==
    /\ kind = "open" => dir * exPos \in (-2 * Size)..0
    /\ kind = "close" => dir * (exPos - pos) >= 0

LEMMA AcceptExposed ==
    ASSUME IInv, Exposed, Executing, NEW book, NEW rest, NEW dir, NEW kind, NEW n,
           Sends(book, rest, dir, kind, n), Accept(book, rest, dir, kind, n),
           \A p \in Coids : book[p].st # "open",
           Ready(dir, kind), Shaped(tr.plan), Head(tr.plan).act = kind
    PROVE  Exposed'
<1>1. /\ TypeOK /\ Weaker(book) /\ rest = {} /\ dir \in Dirs /\ kind \in {"open", "close"}
      /\ pos \in Int /\ exPos \in Int /\ intents = {} /\ restarts = 0
      /\ UNCHANGED <<exPos, told, booked, pos, restarts>>
  BY DEF IInv, Exposed, Sends, TypeOK, Executing
<1>3. PICK o \in Coids :
        /\ book[o].st = "none"
        /\ ord' = [book EXCEPT ![o] = [st |-> "open", dir |-> dir, kind |-> kind,
                                       size |-> n, bar |-> bar, filled |-> 0]]
        /\ pending' = rest
        /\ tr' = [tr EXCEPT !.pc = "answer", !.o = o]
        /\ UNCHANGED intents
  BY DEF Accept
<1>4. /\ ord'[o].st = "open" /\ ord'[o].dir = dir /\ ord'[o].kind = kind
      /\ ord'[o].size = n /\ ord'[o].filled = 0
      /\ \A p \in Coids : p # o => ord'[p] = book[p]
  BY <1>1, <1>3 DEF Weaker
<1>5. /\ ord[o].st = "none" /\ booked[o] = 0 /\ told[o] = 0
      /\ \A p \in Coids : book[p].st = "none" => ord[p].st = "none"
  <2>1. \A p \in Coids : book[p].st = "none" => ord[p].st = "none"
    BY <1>1, WeakerIs
  <2>2. ord[o].st = "none" /\ OrderSound(o)
    BY <1>3, <2>1 DEF IInv
  <2> QED
    BY <1>1, <2>1, <2>2, OrderFields DEF Exposed, OrderSound
<1>6. /\ tr'.pc = "answer" /\ tr'.o = o /\ tr'.plan = tr.plan
  BY <1>1, <1>3, TraderFields DEF TraderState
<1>7. Tracked' = {o}
  BY <1>1, <1>3, <1>6 DEF Tracked
<1>8. TrackSound(o)'
  <2>1. CASE kind = "open"
    <3>1. pos = 0 /\ n = Size /\ dir * exPos \in (-2 * Size)..0 /\ dir * 0 = 0 /\ Size \in Nat
      BY <1>1, <2>1, LiveBounds DEF Sends, Ready, Dirs
    <3>2. dir * exPos \in (0 - 2 * Size)..0
      BY <3>1
    <3> QED
      BY <1>1, <1>4, <1>5, <2>1, <3>1, <3>2 DEF TrackSound, OpenSound
  <2>2. CASE kind = "close"
    <3>1. dir * (exPos - pos) >= 0 - 0
      BY <2>2 DEF Ready
    <3> QED
      BY <1>1, <1>4, <1>5, <2>2, <3>1 DEF TrackSound, CloseSound
  <2> QED
    BY <1>1, <2>1, <2>2
<1>9. OpenTracked'
  BY <1>4, <1>7 DEF OpenTracked
<1>10. \A p \in Coids : ord'[p].st = "none" => told'[p] = 0
  BY <1>1, <1>4, <1>5 DEF Exposed
<1>11. Steady'
  BY <1>4, <1>6 DEF Steady, Shaped
<1> QED
  BY <1>1, <1>3, <1>7, <1>8, <1>9, <1>10, <1>11 DEF Exposed

\* No intent is kept while nothing fails, so that no client order id meets a
\* duplicate.
LEMMA SubmitIs ==
    ASSUME Undisturbed, IInv, Exposed, NEW book, NEW rest, NEW dir, NEW kind, NEW n,
           Sends(book, rest, dir, kind, n), Submit(book, rest, dir, kind, n)
    PROVE  NotSent(book, rest) \/ Accept(book, rest, dir, kind, n)
<1>1. /\ TypeOK /\ Weaker(book) /\ dir \in Dirs /\ kind \in {"open", "close"} /\ intents = {}
      /\ "submit" \notin Faults
  BY DEF IInv, Exposed, Sends, Undisturbed
<1>2. ~Reject(book, rest, dir, kind)
  BY <1>1 DEF Reject
<1>3. ~Duplicate(book, rest, dir, kind)
  <2> SUFFICES ASSUME NEW o \in Coids, TakeCoid(dir, kind, o), book[o].st # "none" PROVE FALSE
    BY DEF Duplicate
  <2> QED
    BY <1>1, TakeCoidIs, WeakerIs
<1> QED
  BY <1>2, <1>3 DEF Submit

\* A call that sends nothing, with nothing tracked before it.
LEMMA LeftAlone ==
    ASSUME IInv, Exposed, Executing, UNCHANGED <<ord, pending, intents>>, tr.pc # "answer",
           Shaped(tr.plan), Executed, Head(tr.plan).act = "close" => MayOpen'
    PROVE  Exposed'
<1>1. TypeOK /\ UNCHANGED <<exPos, told, booked, pos, restarts>> /\ tr.plan # <<>>
  BY DEF IInv, Executing
<1>2. tr'.pc # "answer" /\ Steady'
  BY <1>1, ExecutedSteady
<1> QED
  BY <1>1, <1>2, QuietExposed

LEMMA CancelExposed ==
    ASSUME Undisturbed, IInv, Exposed, Executing, NEW o \in pending, ord' \in Cancelled(o), pending' = {},
           UNCHANGED intents, tr.pc # "answer",
           Shaped(tr.plan), Executed, Head(tr.plan).act = "close" => pos # 0
    PROVE  Exposed'
<1>1. /\ TypeOK /\ UNCHANGED <<exPos, told, booked, pos, restarts>> /\ o \in Coids /\ tr.plan # <<>>
  BY DEF IInv, TypeOK, Executing
<1>2. Weaker(ord') /\ ord'[o].st # "open"
  BY <1>1, CancelWorks
<1>3. Head(tr.plan).act = "close" => MayOpen'
  BY <1>1 DEF MayOpen, MadeUp
<1>4. tr'.pc # "answer" /\ Steady'
  BY <1>1, <1>3, ExecutedSteady
<1> QED
  BY <1>1, <1>2, <1>4, DroppedExposed

LEMMA ExecuteExposed == ASSUME Undisturbed, IInv, Exposed, Execute PROVE Exposed'
<1>1. /\ TypeOK /\ OneFittingOrder /\ Executing /\ tr.pc = "execute" /\ tr.plan # <<>>
      /\ Shaped(tr.plan) /\ Cleared(tr.plan) /\ restarts = 0
      /\ pos \in Int /\ exPos \in Int /\ Size \in Nat /\ Size > 0 /\ pending \subseteq Coids
      /\ Tracked = pending
      /\ UNCHANGED <<exPos, told, booked, pos, restarts>>
  BY LiveBounds DEF IInv, Exposed, Steady, Execute, Executing, TypeOK, Tracked
<1>2. \A o \in pending : pending = {o} /\ pending \ {o} = {}
  BY <1>1 DEF OneFittingOrder
<1>3. ASSUME Leave, Head(tr.plan).act = "close" => MayOpen PROVE Exposed'
  <2>1. UNCHANGED <<ord, pending, intents>> /\ Executed
    BY <1>3 DEF Leave
  <2>2. Head(tr.plan).act = "close" => MayOpen'
    BY <1>1, <1>3, <2>1 DEF MayOpen, MadeUp
  <2> QED
    BY <1>1, <2>1, <2>2, LeftAlone
<1>4. ASSUME NEW o \in pending, CancelPending(o), Head(tr.plan).act = "close" => pos # 0
      PROVE  Exposed'
  BY <1>1, <1>2, <1>4, CancelExposed DEF CancelPending
<1>5. CASE Head(tr.plan).act = "hold" /\ ExecuteHold
  BY <1>3, <1>4, <1>5 DEF ExecuteHold
<1>6. CASE Head(tr.plan).act = "close" /\ ExecuteClose
  <2>1. MayClose
    BY <1>1, <1>6 DEF Cleared
  <2>2. ASSUME NEW o \in pending PROVE (ord[o].kind = "open" => pos # 0) /\ (ord[o].kind # "open" => MayOpen)
    BY <1>2, <2>1 DEF MayClose, Clear, MayOpen
  <2>3. pending = {} /\ pos = 0 => MayOpen
    BY <1>1, <2>1 DEF MayClose, Clear, MayOpen, NoExcess
  <2>4. CASE pending = {} /\ pos # 0 /\ Submit(ord, pending, -Sign(pos), "close", Abs(pos))
    <3>1. Sends(ord, pending, -Sign(pos), "close", Abs(pos))
      <4>1. -Sign(pos) \in Dirs
        BY <1>1, <2>4, SignIs DEF Dirs
      <4> QED
        BY <1>1, <2>4, <4>1 DEF Sends, Weaker, TypeOK
    <3>2. CASE NotSent(ord, pending)
      <4>1. UNCHANGED <<ord, pending, intents>> /\ Executed
        BY <3>2 DEF NotSent
      <4>2. MayOpen'
        BY <1>1, <2>1, <2>4, <4>1 DEF MayOpen, MayClose, Clear, MadeUp
      <4> QED
        BY <1>1, <4>1, <4>2, LeftAlone
    <3>3. CASE Accept(ord, pending, -Sign(pos), "close", Abs(pos))
      <4>1. \A p \in Coids : ord[p].st # "open"
        BY <1>1, <2>4 DEF Exposed, OpenTracked
      <4>2. NoExcess
        BY <2>1, <2>4 DEF MayClose, Clear
      <4>3. Ready(-Sign(pos), "close")
        BY <1>1, <2>4, <4>2, SignIs DEF Ready, NoExcess
      <4> QED
        BY <1>1, <1>6, <3>1, <3>3, <4>1, <4>3, AcceptExposed
    <3> QED
      BY <2>4, <3>1, <3>2, <3>3, SubmitIs
  <2> QED
    BY <1>3, <1>4, <1>6, <2>2, <2>3, <2>4 DEF ExecuteClose
<1>7. ASSUME NEW d \in Dirs, Head(tr.plan).act = "open", ExecuteOpen(d) PROVE Exposed'
  <2>1. MayOpen /\ Head(tr.plan).act # "close" /\ d \in {-1, 1}
    BY <1>1, <1>7 DEF Cleared, Dirs
  <2>2. CASE pos = 0 /\ pending = {} /\ Submit(ord, pending, d, "open", Size)
    <3>1. Sends(ord, pending, d, "open", Size)
      BY <1>1, <1>7, <2>2 DEF Sends, Weaker, TypeOK
    <3>2. CASE NotSent(ord, pending)
      BY <1>1, <2>1, <3>2, LeftAlone DEF NotSent
    <3>3. CASE Accept(ord, pending, d, "open", Size)
      <4>1. \A p \in Coids : ord[p].st # "open"
        BY <1>1, <2>2 DEF Exposed, OpenTracked
      <4>2. exPos = 0
        BY <2>1, <2>2 DEF MayOpen
      <4>3. Ready(d, "open")
        BY <1>1, <2>1, <4>2 DEF Ready
      <4> QED
        BY <1>1, <1>7, <3>1, <3>3, <4>1, <4>3, AcceptExposed
    <3> QED
      BY <2>2, <3>1, <3>2, <3>3, SubmitIs
  <2>3. ASSUME pos = 0, NEW o \in pending, ord[o].kind # "close", ord[o].dir # d,
               NEW book \in Cancelled(o), Submit(book, pending \ {o}, d, "open", Size)
        PROVE  Exposed'
    <3>1. /\ o \in Coids /\ Weaker(book) /\ book[o].st # "open" /\ pending \ {o} = {}
          /\ \A p \in Coids : p # o => book[p] = ord[p]
      BY <1>1, <1>2, <2>3, CancelWorks
    <3>2. Sends(book, pending \ {o}, d, "open", Size)
      BY <1>7, <2>3, <3>1 DEF Sends
    <3>3. CASE NotSent(book, pending \ {o})
      BY <1>1, <2>1, <2>3, <3>1, <3>3, CancelExposed DEF NotSent
    <3>4. CASE Accept(book, pending \ {o}, d, "open", Size)
      <4>1. \A p \in Coids : book[p].st # "open"
        BY <1>1, <1>2, <3>1 DEF Exposed, OpenTracked
      <4>2. /\ ord[o].kind = "open" /\ ord[o].dir \in {-1, 1} /\ ord[o].filled \in Nat
            /\ ord[o].filled <= ord[o].size /\ ord[o].size \in Nat
        BY <2>3, <3>1, TrackNumbers
      <4>3. TrackSound(o) /\ OpenSound(o)
        BY <1>1, <4>2 DEF Exposed, TrackSound
      <4>4. ord[o].dir * exPos >= 0 /\ ord[o].dir * exPos <= Size
        <5>1. ord[o].dir * exPos >= 0
          BY <2>1, <2>3, <4>2 DEF MayOpen, MadeUp
        <5>2. ord[o].size = Size /\ ord[o].dir * exPos \in (ord[o].filled - 2 * Size)..ord[o].filled
          BY <4>3 DEF OpenSound
        <5> DEFINE x == ord[o].dir * exPos
        <5> HIDE DEF x
        <5>3. x \in (ord[o].filled - 2 * Size)..ord[o].filled
          BY <5>2 DEF x
        <5>4. x <= Size
          BY <1>1, <4>2, <5>2, <5>3
        <5> QED
          BY <5>1, <5>4 DEF x
      <4>5. Ready(d, "open")
        <5>1. CASE d = 1
          BY <1>1, <2>3, <4>2, <4>4, <5>1 DEF Ready
        <5>2. CASE d = -1
          BY <1>1, <2>3, <4>2, <4>4, <5>2 DEF Ready
        <5> QED
          BY <2>1, <5>1, <5>2
      <4> QED
        BY <1>1, <1>7, <3>1, <3>2, <3>4, <4>1, <4>5, AcceptExposed
    <3> QED
      BY <2>3, <3>2, <3>3, <3>4, SubmitIs
  <2> QED
    BY <1>3, <1>7, <2>1, <2>2, <2>3 DEF ExecuteOpen
<1>8. ASSUME Head(tr.plan).act = "open" PROVE Head(tr.plan).dir \in Dirs
  <2>1. Head(tr.plan) \in Call
    BY <1>1, TraderFields
  <2> QED
    BY <1>8, <2>1 DEF Call
<1> QED
  BY <1>5, <1>6, <1>7, <1>8 DEF Execute

LEMMA AnswerExposed == ASSUME Undisturbed, IInv, Exposed, Answer PROVE Exposed'
<1> USE DEF exchange
<1>0. PICK o \in Coids : o = tr.o
  BY DEF IInv, Answer, TypeOK
<1>1. /\ TypeOK /\ tr.pc = "answer" /\ pending = {} /\ tr.plan # <<>> /\ Shaped(tr.plan)
      /\ Head(tr.plan).act = ord[o].kind /\ "submit" \notin Faults /\ intents = {}
  BY <1>0 DEF IInv, AnswerSound, Exposed, Steady, Answer, Undisturbed
<1>2. /\ pending' = {o} /\ intents' = {} /\ Executed
      /\ UNCHANGED <<ord, exPos, told, booked, pos, restarts>>
  BY <1>0, <1>1 DEF Answer
<1>3. Head(tr.plan).act = "close" => MayOpen'
  BY <1>1, <1>2 DEF MayOpen, MadeUp
<1>4. tr'.pc # "answer" /\ Steady'
  BY <1>1, <1>2, <1>3, ExecutedSteady
<1>5. Tracked = {o} /\ Tracked' = {o}
  BY <1>0, <1>1, <1>2, <1>4 DEF Tracked
<1>6. TrackSound(o)'
  BY <1>2, <1>5 DEF Exposed, TrackSound, OpenSound, CloseSound
<1> QED
  BY <1>1, <1>2, <1>4, <1>5, <1>6 DEF Exposed, OpenTracked

\* A step that leaves all but the time alone.
LEMMA SameExposed ==
    ASSUME Exposed, UNCHANGED <<ord, exPos, told, pending, booked, pos, intents, tr, restarts>>
    PROVE  Exposed'
  BY DEF Exposed, OpenTracked, Tracked, TrackSound, OpenSound, CloseSound,
         Steady, Cleared, MayClose, MayOpen, Clear, MadeUp, NoExcess

LEMMA InitExposed == ASSUME Init PROVE Exposed
<1>1. Tracked = {} /\ Steady
  BY DEF Init, Resting, Tracked, Steady
<1> QED
  BY <1>1 DEF Init, Exposed, OpenTracked, NoOrder

LEMMA NextExposed ==
    ASSUME Undisturbed, IInv, IInv', Exposed, [Next]_vars
    PROVE  Exposed'
<1>0. "stream" \notin Faults /\ MaxRestarts = 0 /\ restarts \in 0..MaxRestarts
  BY DEF Undisturbed, IInv, TypeOK
<1>1. CASE Trader
  <2>1. ASSUME StartCycle \/ FetchPositions \/ FetchPositionsFails \/ Compare
                \/ Decide \/ NoDecision \/ NothingToExecute
        PROVE  Exposed'
    BY <2>1, TraderExposed
  <2>2. ASSUME NEW o \in Coids, PollFetch(o) \/ PollFetchFails(o) PROVE Exposed'
    BY <2>2, TraderExposed
  <2> QED
    BY <1>1, <2>1, <2>2, PollApplyExposed, ExecuteExposed, AnswerExposed DEF Trader
<1>2. CASE Stream
  BY <1>0, <1>2, StreamEventExposed DEF Stream, StreamLoss
<1>3. CASE Environment
  <2>1. ~Restart
    BY <1>0 DEF Restart
  <2>2. CASE NewBar
    BY <2>2, SameExposed DEF NewBar, exchange, journal
  <2> QED
    BY <1>3, <2>1, <2>2, FillExposed, ExpireExposed DEF Environment
<1>4. CASE UNCHANGED vars
  BY <1>4, SameExposed DEF vars, exchange, journal
<1> QED
  BY <1>1, <1>2, <1>3, <1>4 DEF Next

LEMMA ExposedBounds == ASSUME IInv, Exposed PROVE ExposureBounded
<1> SUFFICES ASSUME NEW o \in Coids, ord[o].st = "open", ord[o].kind = "open"
             PROVE  /\ \A p \in Coids : ord[p].st = "open" /\ ord[p].kind = "open" => p = o
                    /\ Abs(exPos + ord[o].dir * (ord[o].size - ord[o].filled)) <= Size
  BY DEF ExposureBounded
<1>1. o \in Tracked /\ \A p \in Coids : ord[p].st = "open" => p = o
  BY TrackedIs DEF Exposed, OpenTracked
<1>2. OpenSound(o)
  BY <1>1 DEF Exposed, TrackSound
<1> DEFINE d == ord[o].dir
           f == ord[o].filled
           x == d * exPos
           e == exPos + d * (Size - f)
<1>3. /\ d \in {-1, 1} /\ f \in Nat /\ f <= Size /\ Size \in Nat /\ exPos \in Int
      /\ x \in (f - 2 * Size)..f /\ ord[o].size = Size
  BY <1>2, TrackNumbers DEF OpenSound
<1>4. d = 1 => x = exPos /\ e = exPos + (Size - f)
  BY <1>3
<1>5. d = -1 => x = -exPos /\ e = exPos - (Size - f)
  BY <1>3
<1>6. e \in Int
  BY <1>3
<1> HIDE DEF d, f, x, e
<1>7. e \in (-Size)..Size
  BY <1>3, <1>4, <1>5
<1>8. Abs(e) <= Size
  BY <1>3, <1>6, <1>7, SignIs
<1> QED
  BY <1>1, <1>3, <1>8 DEF d, f, e

(* While cancels, submissions and the stream do not fail and the process is
   not started again, whatever the sizes, the policy and the number of orders
   and bars are: the exchange never holds two opening orders of a trader, and
   what it has of the position and of the open order stays within one order's
   size.  Failing fetches, expiries and late cycles are allowed. *)
THEOREM ExposureAlwaysBounded ==
    ASSUME Undisturbed
    PROVE  Spec => []ExposureBounded
<1>1. Init => Exposed
  BY InitExposed
<1>2. Exposed /\ IInv /\ IInv' /\ [Next]_vars => Exposed'
  BY NextExposed
<1>3. IInv /\ Exposed => ExposureBounded
  BY ExposedBounds
<1> QED
  BY <1>1, <1>2, <1>3, Sound, PTL DEF Spec
=============================================================================
