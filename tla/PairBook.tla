------------------------------ MODULE PairBook ------------------------------
(***************************************************************************)
(* What the engine of a live pair promises about its book, the two legs of *)
(* the account and the belief "have" that the pair is open.  A pair is     *)
(* opened as a whole, out of an empty book, with legs of the same size on  *)
(* opposite sides, and closed as a whole; a leg that is lost takes the     *)
(* belief with it.  Other positions come from the exchange, and only into  *)
(* an empty book, or from the snapshot that was saved.                     *)
(***************************************************************************)
EXTENDS Integers

CONSTANT Size       \* lots of each leg of an entry

VARIABLES
    held,       \* held[l]: the exchange's position in leg l
    book,       \* the legs and the belief: -1, 0 or 1
    saved       \* the book of the snapshot

Legs == {1, 2}
Empty == [pos |-> [l \in Legs |-> 0], have |-> 0]
Pair(w) == [pos |-> [l \in Legs |-> IF l = 1 THEN -w * Size ELSE w * Size], have |-> w]
BothLegs == \A l \in Legs : book.pos[l] # 0

Init == held = Empty.pos /\ book = Empty /\ saved = Empty

Open(w) == book = Empty /\ book' = Pair(w)

\* Only a pair that is believed in is closed, and it has both of its legs.
Close == book.have # 0 /\ BothLegs /\ book' = Empty

\* One leg is closed, because the other one could not be opened or closed.
LoseLeg(l) ==
    /\ book.pos[l] # 0
    /\ book' = [pos |-> [book.pos EXCEPT ![l] = 0], have |-> 0]

\* The belief in a pair that misses a leg is given up.
Disbelieve == book.have # 0 /\ ~BothLegs /\ book' = [book EXCEPT !.have = 0]

\* Booking an entry beside a leg that is not believed in stops half way.
Strand ==
    /\ book.have = 0 /\ book.pos[1] = 0 /\ book.pos[2] # 0
    /\ \E n \in {-Size, Size} : book' = [book EXCEPT !.pos[1] = n]

\* The belief has the sign of the second leg, as told by the first one.
Side(p) == IF p[1] > 0 THEN -1 ELSE IF p[1] < 0 THEN 1 ELSE 0

Adopt ==
    /\ book = Empty
    /\ book' = [pos |-> held, have |-> Side(held)]
    /\ held' = held

Change ==
    \/ \E w \in {-1, 1} : Open(w)
    \/ Close \/ Disbelieve \/ Strand \/ Adopt
    \/ \E l \in Legs : LoseLeg(l)

Save == saved' = book /\ UNCHANGED <<held, book>>

Restore == book' = saved /\ UNCHANGED <<held, saved>>

\* The exchange moves by itself, or with the order that a step sends.
Trade == held' \in [Legs -> Int]

Next ==
    \/ Change /\ Trade /\ UNCHANGED saved
    \/ Save \/ Restore
    \/ Trade /\ UNCHANGED <<book, saved>>

BookSpec == Init /\ [][Next]_<<held, book, saved>>
=============================================================================
