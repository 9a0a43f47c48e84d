--------------------------- MODULE PairsLiveProofs ---------------------------
(***************************************************************************)
(* What a live pair keeps, whatever the bounds, the signals, the operator  *)
(* and the failing calls are: the types, a pair that is "have" holds its   *)
(* first leg, and a pair is booked as open only when both legs filled.     *)
(***************************************************************************)
EXTENDS PairsLive, TLAPS

Places == {"start", "cancelall", "idle", "reconcile", "poll1", "poll2", "resolve", "quote",
           "place1", "place2", "persist", "stopping", "down"}
RunnerState == [pc : Places, noNew : BOOLEAN, flatten : BOOLEAN, seen : SUBSET Legs,
                first : Ids \union {0}]
Intents == [Legs -> [dir : {-1, 1}, size : Nat, reduce : BOOLEAN]]
Control == [pause : BOOLEAN, noNew : BOOLEAN, flatten : BOOLEAN]
Api == [pc : {"idle", "cancel", "fetch", "close", "done"}, got : [Legs -> Int]]
Snapshots == [pos : [Legs -> Int], have : {-1, 0, 1}, pend : Intents]

Typed ==
    /\ TypeOK
    /\ rn \in RunnerState
    /\ pend \in Intents
    /\ ctl \in Control
    /\ api \in Api
    /\ snap \in Snapshots

\* An order has lots, and is closed when all of them are filled.
OrderSound(r) ==
    /\ r.st # "none" => r.size > 0
    /\ r.st = "closed" => r.filled = r.size

\* The tracked orders exist, belong to an intent, and those that the poll has
\* seen filled stay so.
LiveSound ==
    /\ live # <<>> => /\ \A l \in Legs : ord[live[l]].st # "none"
                      /\ pend # NoIntent
    /\ rn.pc \in {"poll1", "poll2", "resolve"} =>
          live # <<>> /\ \A l \in rn.seen : ord[live[l]].st = "closed"
    /\ rn.pc \in {"reconcile", "poll1"} => rn.seen = {}
    /\ rn.pc \in {"start", "cancelall", "place1", "place2", "down"} => live = <<>>

\* The legs that are about to be placed have lots, and the first one is known
\* when the second is sent.
PlaceSound ==
    /\ rn.pc \in {"place1", "place2"} => \A l \in Legs : pend[l].size > 0
    /\ rn.pc = "place2" => rn.first \in Ids /\ ord[rn.first].st # "none"

\* The snapshot of a pair that is open has its first leg, too.
SnapSound == snap.have # 0 => Sign(snap.pos[1]) = -snap.have

IInv ==
    /\ Typed
    /\ \A o \in Ids : OrderSound(ord[o])
    /\ LiveSound
    /\ PlaceSound
    /\ SnapSound
    /\ HaveMeansLeg

-----------------------------------------------------------------------------
LEMMA SignIs ==
    ASSUME NEW n \in Int
    PROVE  /\ Sign(n) \in {-1, 0, 1} /\ Abs(n) \in Nat
           /\ n > 0 => Sign(n) = 1
           /\ n < 0 => Sign(n) = -1
           /\ n # 0 => Sign(n) \in {-1, 1} /\ Abs(n) > 0
<1>1. CASE n > 0
  BY <1>1 DEF Sign, Abs
<1>2. CASE n < 0
  BY <1>2 DEF Sign, Abs
<1>3. CASE n = 0
  BY <1>3 DEF Sign, Abs
<1> QED
  BY <1>1, <1>2, <1>3

LEMMA NoOrderIs == NoOrder \in Order /\ OrderSound(NoOrder) /\ NoOrder.st = "none"
  BY DEF NoOrder, Order, Legs, OrderSound

LEMMA AtIs ==
    ASSUME NEW p \in Places
    PROVE  /\ At(p) \in RunnerState
           /\ At(p).pc = p /\ At(p).seen = {} /\ At(p).first = 0
  BY DEF At, RunnerState

LEMMA NoIntentIs == NoIntent \in Intents /\ \A l \in Legs : NoIntent[l].size = 0
  BY DEF NoIntent, Intents

LEMMA LiveIs ==
    ASSUME Typed, live # <<>>
    PROVE  /\ live[1] \in Ids /\ live[2] \in Ids
           /\ live[1] \in Tracked /\ live[2] \in Tracked
<1>1. live \in Ids \X Ids
  BY DEF Typed, TypeOK
<1>2. live[1] \in Ids /\ live[2] \in Ids /\ DOMAIN live = {1, 2}
  BY <1>1
<1> QED
  BY <1>2 DEF Tracked

LEMMA RunnerFields ==
    ASSUME Typed
    PROVE  /\ rn \in RunnerState /\ rn.pc \in Places /\ rn.seen \subseteq Legs
           /\ rn.first \in Ids \union {0} /\ rn.noNew \in BOOLEAN /\ rn.flatten \in BOOLEAN
  BY DEF Typed, RunnerState

LEMMA CancelledIs ==
    ASSUME IInv, NEW os, NEW failing
    PROVE  /\ Cancelled(os, failing) \in [Ids -> Order]
           /\ \A o \in Ids : /\ OrderSound(Cancelled(os, failing)[o])
                             /\ o \notin os => Cancelled(os, failing)[o] = ord[o]
<1>1. ord \in [Ids -> Order] /\ \A o \in Ids : OrderSound(ord[o])
  BY DEF IInv, Typed, TypeOK
<1> QED
  BY <1>1, NoOrderIs DEF Cancelled

-----------------------------------------------------------------------------
(* Steps that leave the engine and the runner alone *)

\* What any such step does to the orders: the tracked ones stay, and those that
\* are closed stay closed.
OrdersKept ==
    /\ ord' \in [Ids -> Order]
    /\ \A o \in Ids : OrderSound(ord'[o])
    /\ \A o \in Ids : o \in Tracked /\ ord[o].st # "none" =>
          ord'[o].st # "none" /\ (ord[o].st = "closed" => ord'[o].st = "closed")

LEMMA SameOrdersKept == ASSUME IInv, ord' = ord PROVE OrdersKept
  BY DEF IInv, Typed, TypeOK, OrdersKept

LEMMA WorldStep ==
    ASSUME IInv, OrdersKept, UNCHANGED <<engine, rn, snap>>,
           exPos' \in [Legs -> Int], fresh' \in BOOLEAN, ctl' \in Control, api' \in Api,
           upsets' \in 0..MaxUpsets
    PROVE  IInv'
<1> USE DEF engine
<1>1. Typed
  BY DEF IInv
<1>2. Typed'
  BY <1>1 DEF Typed, TypeOK, OrdersKept
<1>3. LiveSound'
  <2>1. live # <<>> => live[1] \in Ids \cap Tracked /\ live[2] \in Ids \cap Tracked
    BY <1>1, LiveIs
  <2>2. rn.seen \subseteq {1, 2}
    BY <1>1, RunnerFields DEF Legs
  <2> QED
    BY <2>1, <2>2 DEF IInv, LiveSound, OrdersKept, Legs
<1>4. PlaceSound'
  BY DEF IInv, PlaceSound, OrdersKept, Tracked
<1>5. SnapSound' /\ HaveMeansLeg'
  BY DEF IInv, SnapSound, HaveMeansLeg
<1> QED
  BY <1>2, <1>3, <1>4, <1>5 DEF IInv, OrdersKept

LEMMA SettledKept ==
    ASSUME IInv, NEW o \in Ids, NEW r \in Order, OrderSound(r), ord[o].st = "open", r.st # "none",
           ord' = [ord EXCEPT ![o] = Settled(o, r)]
    PROVE  OrdersKept
<1>1. ord \in [Ids -> Order] /\ \A p \in Ids : OrderSound(ord[p])
  BY DEF IInv, Typed, TypeOK
<1>2. Settled(o, r) \in Order /\ OrderSound(Settled(o, r)) /\ (o \in Tracked => Settled(o, r) = r)
  BY NoOrderIs DEF Settled
<1> QED
  BY <1>1, <1>2 DEF OrdersKept

LEMMA FillKeeps == ASSUME IInv, NEW o \in Ids, Fill(o) PROVE IInv'
<1>1. /\ Typed /\ ord[o] \in Order /\ ord[o].st = "open" /\ OrderSound(ord[o])
      /\ exPos \in [Legs -> Int]
  BY DEF IInv, Typed, TypeOK, Fill
<1> DEFINE st == IF ord[o].filled + 1 = ord[o].size THEN "closed" ELSE "open"
           r == [ord[o] EXCEPT !.filled = @ + 1, !.st = st]
<1>2. ord' = [ord EXCEPT ![o] = Settled(o, r)]
  BY <1>1 DEF Fill, Typed, TypeOK
<1>3. r \in Order /\ OrderSound(r) /\ r.st # "none"
  <2>1. /\ st \in {"open", "closed"} /\ ord[o].filled + 1 \in Nat
        /\ st = "closed" => ord[o].filled + 1 = ord[o].size
        /\ ord[o].size > 0
    BY <1>1 DEF Order, OrderSound
  <2> HIDE DEF st
  <2>2. r \in Order /\ r.st = st /\ r.filled = ord[o].filled + 1 /\ r.size = ord[o].size
    BY <1>1, <2>1 DEF Order
  <2> HIDE DEF r
  <2> QED
    BY <2>1, <2>2 DEF OrderSound
<1> HIDE DEF r
<1>4. OrdersKept
  BY <1>1, <1>2, <1>3, SettledKept
<1>5. exPos' \in [Legs -> Int]
  BY <1>1 DEF Fill, Order
<1> QED
  BY <1>1, <1>4, <1>5, WorldStep DEF Fill, Typed, TypeOK, world

LEMMA CanceledRecord ==
    ASSUME NEW r \in Order, OrderSound(r), r.st = "open"
    PROVE  LET c == [r EXCEPT !.st = "canceled"]
           IN  c \in Order /\ OrderSound(c) /\ c.st # "none"
  BY DEF Order, OrderSound

LEMMA ExpireKeeps == ASSUME IInv, NEW o \in Ids, Expire(o) PROVE IInv'
<1>1. /\ Typed /\ ord \in [Ids -> Order] /\ ord[o] \in Order /\ ord[o].st = "open"
      /\ OrderSound(ord[o])
  BY DEF IInv, Typed, TypeOK, Expire
<1> DEFINE r == [ord[o] EXCEPT !.st = "canceled"]
<1>2. ord' = [ord EXCEPT ![o] = Settled(o, r)]
  BY <1>1 DEF Expire
<1>3. r \in Order /\ OrderSound(r) /\ r.st # "none"
  BY <1>1, CanceledRecord
<1> HIDE DEF r
<1>4. OrdersKept
  BY <1>1, <1>2, <1>3, SettledKept
<1> QED
  BY <1>1, <1>4, WorldStep DEF Expire, Typed, TypeOK, world

LEMMA ApiCancelAllKeeps == ASSUME IInv, ApiCancelAll PROVE IInv'
<1>1. Typed /\ ord \in [Ids -> Order] /\ api \in Api /\ \A o \in Ids : OrderSound(ord[o])
  BY DEF IInv, Typed, TypeOK
<1>2. ASSUME NEW o \in Ids
      PROVE  /\ ord'[o] \in Order /\ OrderSound(ord'[o])
             /\ o \in Tracked /\ ord[o].st # "none" =>
                  ord'[o].st # "none" /\ (ord[o].st = "closed" => ord'[o].st = "closed")
  <2>1. CASE ord[o].st = "open"
    <3> DEFINE r == [ord[o] EXCEPT !.st = "canceled"]
    <3>1. ord'[o] = Settled(o, r)
      BY <2>1 DEF ApiCancelAll
    <3>2. r \in Order /\ OrderSound(r) /\ r.st # "none"
      BY <1>1, <2>1, CanceledRecord
    <3> HIDE DEF r
    <3> QED
      BY <2>1, <3>1, <3>2, NoOrderIs DEF Settled
  <2>2. CASE ord[o].st # "open"
    BY <1>1, <2>2 DEF ApiCancelAll
  <2> QED
    BY <2>1, <2>2
<1>3. OrdersKept
  <2>1. ord' \in [Ids -> Order]
    BY <1>2 DEF ApiCancelAll
  <2> QED
    BY <1>2, <2>1 DEF OrdersKept
<1>4. api' \in Api
  BY <1>1 DEF ApiCancelAll, Api
<1> QED
  BY <1>1, <1>3, <1>4, WorldStep DEF ApiCancelAll, Typed, TypeOK

LEMMA WorldKeeps ==
    ASSUME IInv, ApiFlatten \/ ApiFetch \/ ApiDone \/ Operate \/ SyncFetch \/ SyncCompare \/ NewBar
    PROVE  IInv'
<1>1. Typed /\ ctl \in Control /\ api \in Api /\ exPos \in [Legs -> Int] /\ fresh \in BOOLEAN
      /\ upsets \in 0..MaxUpsets /\ MaxUpsets \in Nat
  BY PairsBounds DEF IInv, Typed, TypeOK
<1>2. UNCHANGED <<exchange, engine, rn, snap>>
  BY DEF ApiFlatten, ApiFetch, ApiDone, Operate, SyncFetch, SyncCompare, NewBar, world
<1>3. OrdersKept /\ exPos' \in [Legs -> Int]
  BY <1>1, <1>2, SameOrdersKept DEF exchange
<1>4. ctl' \in Control
  <2>1. /\ [ctl EXCEPT !.pause = TRUE, !.flatten = TRUE] \in Control
        /\ [ctl EXCEPT !.pause = TRUE] \in Control
        /\ [ctl EXCEPT !.noNew = TRUE] \in Control
        /\ Trading \in Control
    BY <1>1 DEF Control, Trading
  <2>2. CASE Operate
    <3>1. PICK op \in Operator : ctl' = After(op)
      BY <2>2 DEF Operate
    <3>2. op \in {"pause", "resume", "noNew"}
      BY PairsBounds
    <3> QED
      BY <2>1, <3>1, <3>2 DEF After
  <2> QED
    BY <1>1, <2>1, <2>2 DEF ApiFlatten, ApiFetch, ApiDone, SyncFetch, SyncCompare, NewBar, world
<1>5. api' \in Api
  BY <1>1 DEF ApiFlatten, ApiFetch, ApiDone, Operate, SyncFetch, SyncCompare, NewBar, world, Api
<1>6. upsets' \in 0..MaxUpsets
  <2>1. upsets' = upsets \/ Upset
    BY DEF ApiFlatten, ApiFetch, ApiDone, Operate, SyncFetch, SyncCompare, NewBar, world
  <2> QED
    BY <1>1, <2>1 DEF Upset
<1>7. fresh' \in BOOLEAN
  <2>1. fresh' = fresh \/ fresh' = TRUE
    BY DEF ApiFlatten, ApiFetch, ApiDone, Operate, SyncFetch, SyncCompare, NewBar
  <2> QED
    BY <1>1, <2>1
<1> QED
  BY <1>2, <1>3, <1>4, <1>5, <1>6, <1>7, WorldStep

LEMMA ApiCloseKeeps == ASSUME IInv, NEW l \in Legs, ApiClose(l) PROVE IInv'
<1>1. Typed /\ api \in Api /\ exPos \in [Legs -> Int]
  BY DEF IInv, Typed, TypeOK
<1>2. api.got[l] \in Int
  BY <1>1 DEF Api
<1>3. OrdersKept
  BY SameOrdersKept DEF ApiClose
<1>4. exPos' \in [Legs -> Int]
  <2> DEFINE d == -Sign(api.got[l])
  <2>1. d \in Int /\ exPos[l] \in Int
    BY <1>1, <1>2, SignIs
  <2>2. Reducible(exPos[l], d) \in Int
    BY <2>1 DEF Reducible, Positive
  <2>3. Smaller(Abs(api.got[l]), Reducible(exPos[l], d)) \in Int
    BY <1>2, <2>2, SignIs DEF Smaller
  <2>4. exPos[l] + d * Smaller(Abs(api.got[l]), Reducible(exPos[l], d)) \in Int
    BY <2>1, <2>3
  <2> QED
    BY <1>1, <2>4 DEF ApiClose
<1>5. api' \in Api
  BY <1>1 DEF ApiClose, Api
<1> QED
  BY <1>1, <1>3, <1>4, <1>5, WorldStep DEF ApiClose, Typed, TypeOK

-----------------------------------------------------------------------------
(* Steps of the runner: those that keep the tracked orders, and those that end *)
(* tracking them                                                               *)

\* What every step leaves behind, besides the orders and the runner.
Rest ==
    /\ exPos' \in [Legs -> Int] /\ pos' \in [Legs -> Int] /\ have' \in {-1, 0, 1}
    /\ tripped' \in BOOLEAN /\ fresh' \in BOOLEAN
    /\ snap' \in Snapshots /\ ctl' \in Control /\ api' \in Api
    /\ upsets' \in 0..MaxUpsets
    /\ HaveMeansLeg' /\ SnapSound'

LEMMA RestIs ==
    ASSUME IInv
    PROVE  /\ exPos \in [Legs -> Int] /\ pos \in [Legs -> Int] /\ have \in {-1, 0, 1}
           /\ tripped \in BOOLEAN /\ fresh \in BOOLEAN
           /\ snap \in Snapshots /\ ctl \in Control /\ api \in Api
           /\ upsets \in 0..MaxUpsets
           /\ HaveMeansLeg /\ SnapSound
           /\ UNCHANGED <<pos, have>> => HaveMeansLeg'
           /\ UNCHANGED snap => SnapSound'
  BY DEF IInv, Typed, TypeOK, HaveMeansLeg, SnapSound

OrdersTyped == ord' \in [Ids -> Order] /\ \A o \in Ids : OrderSound(ord'[o])

KeepsLive ==
    /\ OrdersTyped
    /\ live # <<>> => \A l \in Legs :
          ord'[live[l]].st # "none" /\ (ord[live[l]].st = "closed" => ord'[live[l]].st = "closed")

LEMMA SameKeepsLive == ASSUME IInv, ord' = ord PROVE KeepsLive
  BY DEF IInv, Typed, TypeOK, LiveSound, OrdersTyped, KeepsLive

LEMMA KeptStep ==
    ASSUME IInv, Rest, KeepsLive, live' = live, waited' \in 0..(WaitBars - 1),
           pend' \in Intents, live # <<>> => pend' = pend,
           rn' \in RunnerState, rn'.pc \notin {"place1", "place2"},
           rn'.pc \in {"poll1", "poll2", "resolve"} =>
              live # <<>> /\ \A l \in rn'.seen : ord[live[l]].st = "closed",
           rn'.pc \in {"reconcile", "poll1"} => rn'.seen = {},
           rn'.pc \in {"start", "cancelall", "down"} => live = <<>>
    PROVE  IInv'
<1>1. Typed'
  BY DEF IInv, Typed, TypeOK, Rest, KeepsLive, OrdersTyped, RunnerState
<1>2. LiveSound'
  <2>1. rn'.seen \subseteq Legs
    BY DEF RunnerState
  <2> QED
    BY <2>1 DEF IInv, LiveSound, KeepsLive
<1>3. PlaceSound'
  BY DEF PlaceSound
<1> QED
  BY <1>1, <1>2, <1>3 DEF IInv, Rest, KeepsLive, OrdersTyped

LEMMA ReleasedStep ==
    ASSUME IInv, Rest, OrdersTyped, NoLive,
           rn' \in RunnerState, rn'.pc \notin {"reconcile", "poll1", "poll2", "resolve", "place1", "place2"}
    PROVE  IInv'
<1>1. Typed'
  BY NoIntentIs, PairsBounds DEF Typed, TypeOK, Rest, OrdersTyped, RunnerState, NoLive
<1>2. LiveSound' /\ PlaceSound'
  BY DEF LiveSound, PlaceSound, NoLive
<1> QED
  BY <1>1, <1>2 DEF IInv, Rest, OrdersTyped

LEMMA GotoIs ==
    ASSUME Typed, NEW p \in Places, Goto(p)
    PROVE  rn' \in RunnerState /\ rn'.pc = p /\ rn'.seen = rn.seen /\ rn'.first = rn.first
  BY RunnerFields DEF Goto, RunnerState

LEMMA KilledIs ==
    ASSUME IInv, Killed
    PROVE  rn' \in RunnerState /\ rn'.pc = "stopping" /\ ctl' \in Control
<1>1. ctl \in Control
  BY RestIs
<1>2. ctl' \in Control
  BY <1>1 DEF Killed, Control
<1>3. "stopping" \in Places
  BY DEF Places
<1> QED
  BY <1>2, <1>3, AtIs DEF Killed

LEMMA StartLiveKeeps == ASSUME IInv, StartLive PROVE IInv'
<1>1. Typed /\ live = <<>>
  BY DEF IInv, LiveSound, StartLive
<1>2. rn' \in RunnerState /\ rn'.pc \in {"cancelall", "down"}
  <2>1. Goto("cancelall") \/ rn' = At("down")
    BY DEF StartLive
  <2>2. "cancelall" \in Places /\ "down" \in Places
    BY DEF Places
  <2> QED
    BY <1>1, <2>1, <2>2, GotoIs, AtIs
<1>3. UNCHANGED <<pos, have>> \/ (pos' = exPos /\ have' = HaveOf(exPos))
  BY DEF StartLive
<1>4. /\ pos' \in [Legs -> Int] /\ have' \in {-1, 0, 1} /\ HaveMeansLeg'
  <2>1. CASE UNCHANGED <<pos, have>>
    BY <2>1, RestIs
  <2>2. CASE pos' = exPos /\ have' = HaveOf(exPos)
    <3>1. exPos \in [Legs -> Int] /\ exPos[1] \in Int
      BY RestIs DEF Legs
    <3> QED
      BY <2>2, <3>1, SignIs DEF HaveOf, HaveMeansLeg
  <2> QED
    BY <1>3, <2>1, <2>2
<1>5. Rest
  BY <1>4, RestIs DEF Rest, StartLive, exchange, world
<1>6. KeepsLive
  BY SameKeepsLive DEF StartLive, exchange
<1> QED
  BY <1>1, <1>2, <1>5, <1>6, KeptStep DEF StartLive, Typed, TypeOK

LEMMA CancelAllKeeps == ASSUME IInv, CancelAll PROVE IInv'
<1>1. Typed /\ live = <<>>
  BY DEF IInv, LiveSound, CancelAll
<1>2. KeepsLive
  BY <1>1, CancelledIs DEF CancelAll, KeepsLive, OrdersTyped
<1>3. rn' \in RunnerState /\ rn'.pc = "idle"
  BY AtIs DEF CancelAll, Places
<1>4. Rest
  BY RestIs DEF Rest, CancelAll, engine, world
<1> QED
  BY <1>1, <1>2, <1>3, <1>4, KeptStep DEF CancelAll, Typed, TypeOK, engine

LEMMA LoadControlKeeps == ASSUME IInv, LoadControl PROVE IInv'
<1>1. Typed /\ ctl \in Control
  BY RestIs DEF IInv
<1>2. rn' \in RunnerState /\ rn'.pc = "reconcile" /\ rn'.seen = {}
  <2>1. /\ At("reconcile") \in RunnerState /\ At("reconcile").pc = "reconcile"
        /\ At("reconcile").seen = {}
    BY AtIs DEF Places
  <2>2. ctl.noNew \in BOOLEAN /\ ctl.flatten \in BOOLEAN
    BY <1>1 DEF Control
  <2> HIDE DEF At
  <2> QED
    BY <2>1, <2>2 DEF LoadControl, RunnerState
<1>3. KeepsLive /\ Rest
  BY SameKeepsLive, RestIs DEF Rest, LoadControl, exchange, engine, world
<1> QED
  BY <1>1, <1>2, <1>3, KeptStep DEF LoadControl, Typed, TypeOK, engine

LEMMA ReconcileKeeps == ASSUME IInv, Reconcile PROVE IInv'
<1>1. Typed
  BY DEF IInv
<1>2. KeepsLive
  BY SameKeepsLive DEF Reconcile, exchange
<1>3. CASE Killed
  <2>1. Rest
    BY <1>3, KilledIs, RestIs DEF Rest, Reconcile, exchange, engine
  <2> QED
    BY <1>1, <1>2, <1>3, <2>1, KilledIs, KeptStep DEF Reconcile, Typed, TypeOK, engine
<1>4. CASE UNCHANGED ctl /\ (rn' = At("idle") \/ Goto(IF live = <<>> THEN "quote" ELSE "poll1"))
  <2>1. Rest
    BY <1>4, RestIs DEF Rest, Reconcile, exchange, engine
  <2>2. CASE rn' = At("idle")
    <3>1. rn' \in RunnerState /\ rn'.pc = "idle"
      BY <2>2, AtIs DEF Places
    <3> QED
      BY <1>1, <1>2, <2>1, <3>1, KeptStep DEF Reconcile, Typed, TypeOK, engine
  <2>3. CASE Goto(IF live = <<>> THEN "quote" ELSE "poll1")
    <3>1. /\ rn' \in RunnerState /\ rn'.seen = rn.seen
          /\ rn'.pc = IF live = <<>> THEN "quote" ELSE "poll1"
      BY <1>1, <2>3, GotoIs DEF Places
    <3>2. rn.seen = {}
      BY DEF IInv, LiveSound, Reconcile
    <3> QED
      BY <1>1, <1>2, <2>1, <3>1, <3>2, KeptStep DEF Reconcile, Typed, TypeOK, engine
  <2> QED
    BY <1>4, <2>2, <2>3
<1> QED
  BY <1>3, <1>4 DEF Reconcile

LEMMA PollLegKeeps ==
    ASSUME IInv, NEW l \in Legs, NEW pc \in {"poll1", "poll2"}, NEW next \in {"poll2", "resolve"},
           PollLeg(l, pc, next)
    PROVE  IInv'
<1>1. Typed /\ live # <<>> /\ \A m \in rn.seen : ord[live[m]].st = "closed"
  BY DEF IInv, LiveSound, PollLeg
<1>2. KeepsLive /\ Rest
  BY SameKeepsLive, RestIs DEF Rest, PollLeg, exchange, engine, world
<1>3. /\ rn' \in RunnerState /\ rn'.pc = next
      /\ \A m \in rn'.seen : ord[live[m]].st = "closed"
  <2>1. PICK missed \in May("fetch") :
            rn' = [rn EXCEPT !.pc = next,
                             !.seen = IF ord[live[l]].st = "closed" /\ ~missed
                                      THEN @ \union {l} ELSE @]
    BY DEF PollLeg
  <2> DEFINE seen == IF ord[live[l]].st = "closed" /\ ~missed THEN rn.seen \union {l} ELSE rn.seen
  <2>2. seen \subseteq Legs /\ \A m \in seen : ord[live[m]].st = "closed"
    BY <1>1, RunnerFields
  <2>3. rn' = [rn EXCEPT !.pc = next, !.seen = seen]
    BY <1>1, <2>1, RunnerFields DEF RunnerState
  <2> HIDE DEF seen
  <2>4. next \in Places
    BY DEF Places
  <2> QED
    BY <1>1, <2>2, <2>3, <2>4, RunnerFields DEF RunnerState
<1> QED
  BY <1>1, <1>2, <1>3, KeptStep DEF PollLeg, Typed, TypeOK, engine

LEMMA PollRaisesKeeps == ASSUME IInv, NEW pc, PollRaises(pc) PROVE IInv'
<1>1. Typed
  BY DEF IInv
<1>2. KeepsLive /\ Rest
  BY SameKeepsLive, RestIs DEF Rest, PollRaises, exchange, engine, world
<1>3. rn' \in RunnerState /\ rn'.pc = "idle"
  BY AtIs DEF PollRaises, Places
<1> QED
  BY <1>1, <1>2, <1>3, KeptStep DEF PollRaises, Typed, TypeOK, engine

-----------------------------------------------------------------------------
(* Booking and unwinding *)

LEMMA ResolveIs ==
    ASSUME IInv, rn.pc = "resolve"
    PROVE  /\ Typed /\ live # <<>>
           /\ \A l \in Legs : /\ live[l] \in Ids /\ ord[live[l]] \in Order
                              /\ ord[live[l]].size > 0
           /\ \A l \in rn.seen : ord[live[l]].filled = ord[live[l]].size
<1>1. Typed /\ live # <<>> /\ \A l \in rn.seen : ord[live[l]].st = "closed"
  BY DEF IInv, LiveSound
<1>2. \A l \in Legs : live[l] \in Ids /\ ord[live[l]].st # "none"
  BY <1>1, LiveIs DEF IInv, LiveSound, Legs
<1>3. \A l \in Legs : ord[live[l]] \in Order /\ OrderSound(ord[live[l]])
  BY <1>1, <1>2 DEF IInv, Typed, TypeOK
<1>4. rn.seen \subseteq Legs
  BY <1>1, RunnerFields
<1> QED
  BY <1>1, <1>2, <1>3, <1>4 DEF OrderSound

LEMMA DropIs ==
    ASSUME IInv, NEW resting, ord' = Drop(resting)
    PROVE  OrdersTyped
  BY NoOrderIs DEF IInv, Typed, TypeOK, Drop, OrdersTyped

\* A signed number of lots has the sign it was given.
LEMMA SignOfLots ==
    ASSUME NEW d \in {-1, 1}, NEW n \in Nat, n > 0
    PROVE  d * n \in Int /\ Sign(d * n) = d
<1>1. CASE d = 1
  BY <1>1 DEF Sign
<1>2. CASE d = -1
  BY <1>2 DEF Sign
<1> QED
  BY <1>1, <1>2

LEMMA BookOrRaiseKeeps ==
    ASSUME IInv, rn.pc = "resolve", NEW resting, BookOrRaise(resting),
           exPos' \in [Legs -> Int], UNCHANGED <<tripped, fresh, world>>
    PROVE  IInv'
<1>1. /\ Typed /\ live # <<>>
      /\ \A l \in Legs : /\ ord[live[l]].dir \in {-1, 1}
                         /\ ord[live[l]].size \in Nat /\ ord[live[l]].size > 0
  BY ResolveIs DEF Order
<1>2. /\ \A l \in Legs : /\ ord[live[l]].dir * ord[live[l]].size \in Int
                         /\ Sign(ord[live[l]].dir * ord[live[l]].size) = ord[live[l]].dir
      /\ 1 \in Legs
  BY <1>1, SignOfLots DEF Legs
<1>3. pos \in [Legs -> Int] /\ have \in {-1, 0, 1} /\ HaveMeansLeg
  BY RestIs
<1>4. CASE BookingRaises
  <2>1. /\ pos' \in [Legs -> Int] /\ have' = have
        /\ pos'[1] # pos[1] => pos[1] = 0
    BY <1>2, <1>3, <1>4 DEF BookOrRaise
  <2>2. HaveMeansLeg'
    <3>1. pos[1] = 0 => have = 0
      BY <1>3 DEF HaveMeansLeg, Sign
    <3> QED
      BY <1>3, <2>1, <3>1 DEF HaveMeansLeg
  <2>3. Rest
    BY <1>3, <2>1, <2>2, RestIs DEF Rest, world
  <2>4. KeepsLive
    BY <1>4, SameKeepsLive DEF BookOrRaise
  <2>5. rn' \in RunnerState /\ rn'.pc = "idle"
    BY <1>4, AtIs DEF BookOrRaise, Places
  <2> QED
    BY <1>1, <1>4, <2>3, <2>4, <2>5, KeptStep DEF BookOrRaise, Typed, TypeOK
<1>5. CASE ~BookingRaises
  <2>1. BookBoth /\ NoLive /\ Goto("quote") /\ ord' = Drop(resting)
    BY <1>5 DEF BookOrRaise
  <2>2. pos' \in [Legs -> Int] /\ have' \in {-1, 0, 1} /\ HaveMeansLeg'
    <3>1. CASE ord[live[1]].reduce
      <4>1. pos' = Flat /\ have' = 0
        BY <2>1, <3>1 DEF BookBoth
      <4> QED
        BY <4>1 DEF Flat, HaveMeansLeg
    <3>2. CASE ~ord[live[1]].reduce
      <4>1. /\ pos' = [l \in Legs |-> ord[live[l]].dir * ord[live[l]].size]
            /\ have' = -ord[live[1]].dir
        BY <2>1, <3>2 DEF BookBoth
      <4>2. Sign(pos'[1]) = ord[live[1]].dir
        BY <1>2, <4>1
      <4>3. pos' \in [Legs -> Int]
        BY <1>2, <4>1
      <4> QED
        BY <1>1, <1>2, <4>1, <4>2, <4>3 DEF HaveMeansLeg
    <3> QED
      BY <3>1, <3>2
  <2>3. Rest
    BY <2>2, RestIs DEF Rest, world
  <2>4. rn' \in RunnerState /\ rn'.pc = "quote"
    BY <1>1, <2>1, GotoIs DEF Places
  <2> QED
    BY <2>1, <2>3, <2>4, DropIs, ReleasedStep
<1> QED
  BY <1>4, <1>5

LEMMA BothFilledKeeps == ASSUME IInv, BothFilled PROVE IInv'
<1>1. exPos' \in [Legs -> Int]
  BY RestIs DEF BothFilled
<1> QED
  BY <1>1, BookOrRaiseKeeps DEF BothFilled

LEMMA ChaseFillsKeeps == ASSUME IInv, NEW l \in Legs, ChaseFills(l) PROVE IInv'
<1>1. ord[live[l]].dir \in {-1, 1} /\ ord[live[l]].size \in Nat
  BY ResolveIs DEF ChaseFills, Order
<1>2. exPos \in [Legs -> Int]
  BY RestIs
<1>3. exPos' \in [Legs -> Int]
  BY <1>1, <1>2 DEF ChaseFills
<1> QED
  BY <1>3, BookOrRaiseKeeps DEF ChaseFills

\* What an unwound leg leaves: the loop ends and nothing is booked, or the leg
\* is closed in the account and the pair is not "have".
LEMMA UnwindIs ==
    ASSUME IInv, rn.pc = "resolve", NEW l \in Legs, NEW after \in [Legs -> Int], Unwind(l, after)
    PROVE  /\ exPos' \in [Legs -> Int] /\ pos' \in [Legs -> Int] /\ have' \in {0, have}
           /\ HaveMeansLeg' /\ ctl' \in Control /\ rn' \in RunnerState
           /\ \/ rn'.pc = "stopping" /\ UNCHANGED <<pend, live, waited>>
              \/ rn'.pc = "quote" /\ NoLive
<1>1. /\ Typed /\ ord[live[l]].dir \in {-1, 1} /\ ord[live[l]].size \in Nat
  BY ResolveIs DEF Order
<1>2. pos \in [Legs -> Int] /\ HaveMeansLeg /\ ctl \in Control
  BY RestIs
<1> DEFINE o == ord[live[l]]
           n == Smaller(o.size, Reducible(after[l], -o.dir))
<1>3. n \in Int
  <2>1. Reducible(after[l], -o.dir) \in Int
    BY <1>1 DEF Reducible, Positive
  <2> QED
    BY <1>1, <2>1 DEF Smaller
<1> DEFINE closed == [after EXCEPT ![l] = after[l] - o.dir * n]
<1>4. closed \in [Legs -> Int]
  <2>1. after[l] - o.dir * n \in Int
    BY <1>1, <1>3
  <2> HIDE DEF o, n
  <2> QED
    BY <2>1
<1>5. \/ exPos' \in {closed, after} /\ Killed /\ UNCHANGED <<pos, have, pend, live, waited>>
      \/ /\ exPos' = closed
         /\ \/ pos' = [pos EXCEPT ![l] = 0] /\ have' = 0
            \/ UNCHANGED <<pos, have>>
         /\ NoLive /\ Goto("quote") /\ UNCHANGED ctl
  BY DEF Unwind
<1> HIDE DEF closed, n, o
<1>6. CASE exPos' \in {closed, after} /\ Killed /\ UNCHANGED <<pos, have, pend, live, waited>>
  BY <1>2, <1>4, <1>6, KilledIs, RestIs
<1>7. CASE /\ exPos' = closed
           /\ \/ pos' = [pos EXCEPT ![l] = 0] /\ have' = 0
              \/ UNCHANGED <<pos, have>>
           /\ NoLive /\ Goto("quote") /\ UNCHANGED ctl
  <2>1. pos' \in [Legs -> Int] /\ have' \in {0, have} /\ HaveMeansLeg'
    BY <1>2, <1>7 DEF HaveMeansLeg
  <2>2. rn' \in RunnerState /\ rn'.pc = "quote"
    BY <1>1, <1>7, GotoIs DEF Places
  <2> QED
    BY <1>2, <1>4, <1>7, <2>1, <2>2
<1> QED
  BY <1>5, <1>6, <1>7

LEMMA UnwoundKeeps ==
    ASSUME IInv, rn.pc = "resolve", NEW l \in Legs, NEW after \in [Legs -> Int], Unwind(l, after),
           OrdersTyped, rn'.pc = "stopping" => ord' = ord,
           UNCHANGED <<tripped, fresh, snap, api, upsets>>
    PROVE  IInv'
<1>1. Rest
  BY UnwindIs, RestIs DEF Rest
<1>2. CASE rn'.pc = "stopping"
  <2>1. UNCHANGED <<pend, live, waited>> /\ rn' \in RunnerState
    BY <1>2, UnwindIs
  <2>2. KeepsLive
    BY <1>2, SameKeepsLive
  <2>3. Typed
    BY DEF IInv
  <2> QED
    BY <1>1, <1>2, <2>1, <2>2, <2>3, KeptStep DEF Typed, TypeOK
<1>3. CASE rn'.pc # "stopping"
  BY <1>1, <1>3, UnwindIs, ReleasedStep
<1> QED
  BY <1>2, <1>3

LEMMA OtherIs == ASSUME NEW l \in Legs PROVE Other(l) \in Legs /\ Legs = {l, Other(l)}
  BY DEF Legs, Other

LEMMA SameOrdersTyped == ASSUME IInv, ord' = ord PROVE OrdersTyped
  BY DEF IInv, Typed, TypeOK, OrdersTyped

LEMMA ChaseFailsKeeps == ASSUME IInv, NEW l \in Legs, ChaseFails(l) PROVE IInv'
<1>1. ord[live[l]].dir \in {-1, 1}
  BY ResolveIs DEF ChaseFails, Order
<1>2. PICK n \in Int : Unwind(Other(l), [exPos EXCEPT ![l] = @ + ord[live[l]].dir * n])
  BY DEF ChaseFails
<1>3. exPos \in [Legs -> Int]
  BY RestIs
<1>4. [exPos EXCEPT ![l] = @ + ord[live[l]].dir * n] \in [Legs -> Int]
  BY <1>1, <1>3
<1>5. OrdersTyped /\ (rn'.pc = "stopping" => ord' = ord)
  BY SameOrdersTyped, DropIs DEF ChaseFails
<1> QED
  BY <1>2, <1>4, <1>5, OtherIs, UnwoundKeeps DEF ChaseFails

LEMMA UnwindLegKeeps == ASSUME IInv, NEW l \in Legs, UnwindLeg(l) PROVE IInv'
<1>1. exPos \in [Legs -> Int]
  BY RestIs
<1>2. OrdersTyped /\ (rn'.pc = "stopping" => ord' = ord)
  BY SameOrdersTyped, CancelledIs DEF UnwindLeg, OrdersTyped
<1> QED
  BY <1>1, <1>2, UnwoundKeeps DEF UnwindLeg

LEMMA NeitherFilledKeeps == ASSUME IInv, NeitherFilled PROVE IInv'
<1>1. Typed /\ rn' \in RunnerState /\ rn'.pc = "quote"
  BY GotoIs DEF IInv, NeitherFilled, Places
<1>2. Rest
  BY RestIs DEF Rest, NeitherFilled, world
<1>3. CASE waited + 1 >= WaitBars
  <2>1. NoLive /\ OrdersTyped
    BY <1>3, CancelledIs DEF NeitherFilled, OrdersTyped
  <2> QED
    BY <1>1, <1>2, <2>1, ReleasedStep
<1>4. CASE waited + 1 < WaitBars
  <2>0. waited \in 0..(WaitBars - 1) /\ WaitBars \in Nat
    BY <1>1, PairsBounds DEF Typed, TypeOK
  <2>1. waited' = waited + 1 /\ UNCHANGED <<ord, live, pend>>
    BY <1>4, <2>0 DEF NeitherFilled
  <2>2. waited' \in 0..(WaitBars - 1)
    BY <1>4, <2>0, <2>1
  <2>3. KeepsLive
    BY <2>1, SameKeepsLive
  <2> QED
    BY <1>1, <1>2, <2>1, <2>2, <2>3, KeptStep DEF Typed
<1> QED
  BY <1>1, <1>3, <1>4, PairsBounds DEF Typed, TypeOK

-----------------------------------------------------------------------------
(* The breaker, the signal and the placing of the legs *)

PlacedIntents == pend' \in Intents /\ \A l \in Legs : pend'[l].size > 0

LEMMA PlaceStep ==
    ASSUME IInv, Rest, OrdersTyped, live' = <<>>, waited' \in 0..(WaitBars - 1), PlacedIntents,
           rn' \in RunnerState, rn'.pc \in {"place1", "place2"},
           rn'.pc = "place2" => rn'.first \in Ids /\ ord'[rn'.first].st # "none"
    PROVE  IInv'
<1>1. Typed'
  BY DEF IInv, Typed, TypeOK, Rest, OrdersTyped, PlacedIntents, RunnerState
<1>2. LiveSound' /\ PlaceSound'
  BY DEF LiveSound, PlaceSound, PlacedIntents
<1> QED
  BY <1>1, <1>2 DEF IInv, Rest, OrdersTyped

LEMMA PersistIs == ASSUME EndStep PROVE rn' \in RunnerState /\ rn'.pc = "persist" /\ fresh' = FALSE
  BY AtIs DEF EndStep, Places

LEMMA EntryIs == ASSUME NEW w \in {-1, 1} PROVE
    EntryIntent(w) \in Intents /\ \A l \in Legs : EntryIntent(w)[l].size > 0
  BY PairsBounds DEF EntryIntent, Intents, Legs

\* What _quote does: it ends the bar and keeps the intents, or it asks for
\* two legs that have lots.
Quoted ==
    \/ EndStep /\ UNCHANGED pend /\ have' \in {0, have}
    \/ Goto("place1") /\ UNCHANGED <<have, fresh>> /\ PlacedIntents

LEMMA QuoteExitIs == ASSUME IInv, QuoteExit PROVE Quoted
<1>1. CASE \E l \in Legs : pos[l] = 0
  BY <1>1 DEF QuoteExit, Quoted
<1>2. CASE \A l \in Legs : pos[l] # 0
  <2>1. \A l \in Legs : pos[l] \in Int
    BY RestIs
  <2>2. \A l \in Legs : /\ -Sign(pos[l]) \in {-1, 1} /\ Abs(pos[l]) \in Nat
                        /\ Abs(pos[l]) > 0
    <3>1. TAKE l \in Legs
    <3>2. pos[l] \in Int /\ pos[l] # 0
      BY <1>2, <2>1
    <3>3. Sign(pos[l]) \in {-1, 1} /\ Abs(pos[l]) > 0 /\ Abs(pos[l]) \in Nat
      BY <3>2, SignIs
    <3> QED
      BY <3>3
  <2>3. ExitIntent \in Intents /\ \A l \in Legs : ExitIntent[l].size > 0
    BY <2>2 DEF ExitIntent, Intents
  <2> QED
    BY <1>2, <2>3 DEF QuoteExit, Quoted, PlacedIntents
<1> QED
  BY <1>1, <1>2

LEMMA QuoteIs == ASSUME IInv, NEW w \in {-1, 0, 1}, Quote(w) PROVE Quoted
<1>1. CASE Hold
  BY <1>1 DEF Hold, Quoted
<1>2. CASE w # 0 /\ pend' = EntryIntent(w) /\ Goto("place1") /\ UNCHANGED <<have, fresh>>
  BY <1>2, EntryIs DEF Quoted, PlacedIntents
<1> QED
  BY <1>1, <1>2, QuoteExitIs DEF Quote

LEMMA QuotedKeeps ==
    ASSUME IInv, Quoted, UNCHANGED <<ord, exPos, pos, live, waited, snap, ctl, api>>,
           live # <<>> => UNCHANGED pend /\ EndStep,
           tripped' \in BOOLEAN, upsets' \in 0..MaxUpsets
    PROVE  IInv'
<1>1. Typed /\ OrdersTyped /\ KeepsLive
  BY SameOrdersTyped, SameKeepsLive DEF IInv
<1>2. have' \in {0, have} /\ fresh' \in BOOLEAN
  BY PersistIs, RestIs DEF Quoted
<1>3. Rest
  <2>1. have' \in {-1, 0, 1} /\ HaveMeansLeg'
    BY <1>2, RestIs DEF HaveMeansLeg
  <2> QED
    BY <1>2, <2>1, RestIs DEF Rest
<1>4. CASE EndStep /\ UNCHANGED pend
  BY <1>1, <1>3, <1>4, PersistIs, KeptStep DEF Typed, TypeOK
<1>5. CASE live = <<>> /\ Goto("place1") /\ PlacedIntents
  <2>1. rn' \in RunnerState /\ rn'.pc = "place1"
    BY <1>1, <1>5, GotoIs DEF Places
  <2> QED
    BY <1>1, <1>3, <1>5, <2>1, PlaceStep DEF Typed, TypeOK
<1> QED
  BY <1>4, <1>5 DEF Quoted

LEMMA SignalKeeps == ASSUME IInv, Signal PROVE IInv'
<1>1. CASE pend # NoIntent
  <2>1. Hold
    BY <1>1 DEF Signal
  <2>2. Quoted /\ EndStep /\ UNCHANGED pend
    BY <2>1 DEF Hold, Quoted
  <2> QED
    BY <2>2, QuotedKeeps, RestIs DEF Signal, exchange, world
<1>2. CASE pend = NoIntent
  <2>1. \E w \in {-1, 0, 1} : Quote(w)
    BY <1>2, PairsBounds DEF Signal
  <2>2. Quoted /\ live = <<>>
    BY <1>2, <2>1, QuoteIs DEF IInv, LiveSound
  <2> QED
    BY <2>2, QuotedKeeps, RestIs DEF Signal, exchange, world
<1> QED
  BY <1>1, <1>2

LEMMA UpsetIs == ASSUME IInv, Upset PROVE upsets' \in 0..MaxUpsets
  BY RestIs, PairsBounds DEF Upset

LEMMA BreakerHaltsKeeps == ASSUME IInv, BreakerHalts PROVE IInv'
<1>1. upsets' \in 0..MaxUpsets /\ tripped' \in BOOLEAN
  BY UpsetIs, RestIs DEF BreakerHalts
<1>2. CASE pend # NoIntent
  <2>1. NoLive /\ EndStep /\ UNCHANGED have /\ OrdersTyped
    BY <1>2, CancelledIs DEF BreakerHalts, OrdersTyped
  <2>2. Rest
    BY <1>1, <2>1, PersistIs, RestIs DEF Rest, BreakerHalts
  <2> QED
    BY <2>1, <2>2, PersistIs, ReleasedStep
<1>3. CASE pend = NoIntent
  <2>1. live = <<>>
    BY <1>3 DEF IInv, LiveSound
  <2>2. Quoted
    BY <1>3, QuoteExitIs DEF BreakerHalts, Hold, Quoted
  <2> QED
    BY <1>1, <1>3, <2>1, <2>2, QuotedKeeps DEF BreakerHalts
<1> QED
  BY <1>2, <1>3

LEMMA NextIs ==
    ASSUME IInv, Free # {}
    PROVE  Next1 \in Ids /\ ord[Next1].st = "none"
  BY DEF Next1, Free

LEMMA NewOrderIs ==
    ASSUME IInv, rn.pc \in {"place1", "place2"}, NEW l \in Legs
    PROVE  NewOrder(l) \in Order /\ OrderSound(NewOrder(l)) /\ NewOrder(l).st = "open"
<1>1. pend[l] \in [dir : {-1, 1}, size : Nat, reduce : BOOLEAN] /\ pend[l].size > 0
  BY DEF IInv, Typed, PlaceSound, Intents
<1> QED
  BY <1>1 DEF NewOrder, Order, OrderSound

LEMMA PlacedIs ==
    ASSUME IInv, NEW l \in Legs, NEW pc \in {"place1", "place2"}, Placed(l, pc)
    PROVE  /\ OrdersTyped /\ Next1 \in Ids /\ ord[Next1].st = "none"
           /\ ord'[Next1].st = "open"
           /\ \A o \in Ids : o # Next1 => ord'[o] = ord[o]
           /\ live = <<>> /\ pend \in Intents /\ \A m \in Legs : pend[m].size > 0
<1>1. ord \in [Ids -> Order] /\ \A o \in Ids : OrderSound(ord[o])
  BY DEF IInv, Typed, TypeOK
<1>2. Next1 \in Ids /\ ord[Next1].st = "none" /\ ord' = [ord EXCEPT ![Next1] = NewOrder(l)]
  BY NextIs DEF Placed
<1>3. NewOrder(l) \in Order /\ OrderSound(NewOrder(l)) /\ NewOrder(l).st = "open"
  BY NewOrderIs DEF Placed
<1>4. OrdersTyped
  BY <1>1, <1>2, <1>3 DEF OrdersTyped
<1> QED
  BY <1>1, <1>2, <1>3, <1>4 DEF IInv, Typed, LiveSound, PlaceSound, Placed

LEMMA PlaceFirstKeeps == ASSUME IInv, PlaceFirst PROVE IInv'
<1>1. Typed /\ 1 \in Legs
  BY DEF IInv, Legs
<1>2. /\ OrdersTyped /\ Next1 \in Ids /\ ord'[Next1].st = "open"
      /\ live = <<>> /\ pend \in Intents /\ \A m \in Legs : pend[m].size > 0
  BY <1>1, PlacedIs DEF PlaceFirst
<1>3. rn' \in RunnerState /\ rn'.pc = "place2" /\ rn'.first = Next1
  <2>1. rn' = [rn EXCEPT !.pc = "place2", !.first = Next1]
    BY DEF PlaceFirst
  <2>2. rn \in RunnerState
    BY <1>1, RunnerFields
  <2> HIDE DEF Next1
  <2> QED
    BY <1>2, <2>1, <2>2 DEF RunnerState, Places
<1>4. Rest
  BY RestIs DEF Rest, PlaceFirst, engine, world
<1> QED
  BY <1>1, <1>2, <1>3, <1>4, PlaceStep DEF PlaceFirst, PlacedIntents, engine, Typed, TypeOK

LEMMA PlaceSecondKeeps == ASSUME IInv, PlaceSecond PROVE IInv'
<1>1. Typed /\ 2 \in Legs /\ rn.pc = "place2"
  BY DEF IInv, Legs, PlaceSecond, Placed
<1>2. /\ OrdersTyped /\ Next1 \in Ids /\ ord[Next1].st = "none" /\ ord'[Next1].st = "open"
      /\ \A o \in Ids : o # Next1 => ord'[o] = ord[o]
      /\ pend \in Intents /\ \A m \in Legs : pend[m].size > 0
  BY <1>1, PlacedIs DEF PlaceSecond
<1>3. rn.first \in Ids /\ ord'[rn.first].st # "none"
  BY <1>1, <1>2 DEF IInv, PlaceSound
<1>4. live' = <<rn.first, Next1>> /\ waited' = 0 /\ pend' = pend
  BY DEF PlaceSecond
<1>5. rn' \in RunnerState /\ rn'.pc = "persist" /\ fresh' = FALSE
  BY PersistIs DEF PlaceSecond
<1>6. Rest
  BY <1>5, RestIs DEF Rest, PlaceSecond, world
<1>7. live' \in Ids \X Ids /\ \A l \in Legs : ord'[live'[l]].st # "none"
  <2>1. live'[1] = rn.first /\ live'[2] = Next1
    BY <1>4
  <2> HIDE DEF Next1
  <2> QED
    BY <1>2, <1>3, <1>4, <2>1 DEF Legs
<1>8. Typed'
  BY <1>1, <1>2, <1>4, <1>5, <1>6, <1>7, PairsBounds
     DEF Typed, TypeOK, Rest, OrdersTyped, RunnerState
<1>9. LiveSound' /\ PlaceSound'
  <2>1. pend' # NoIntent
    BY <1>1, <1>2, <1>4, NoIntentIs
  <2> QED
    BY <1>5, <1>7, <2>1 DEF LiveSound, PlaceSound
<1> QED
  BY <1>2, <1>6, <1>8, <1>9 DEF IInv, Rest, OrdersTyped

LEMMA PlaceFailsKeeps ==
    ASSUME IInv, NEW l \in Legs, NEW pc \in {"place1", "place2"}, PlaceFails(l, pc)
    PROVE  IInv'
<1>1. Typed /\ live = <<>> /\ rn.pc \in {"place1", "place2"}
  BY DEF IInv, LiveSound, PlaceFails
<1>2. PICK taken \in May("lost"), failing \in FailingCancels({rn.first}) :
        LET rest == IF l = 2 THEN Cancelled({rn.first}, failing) ELSE ord
        IN IF taken THEN Free # {} /\ ord' = [rest EXCEPT ![Next1] = NewOrder(l)]
           ELSE ord' = rest
  BY DEF PlaceFails
<1> DEFINE rest == IF l = 2 THEN Cancelled({rn.first}, failing) ELSE ord
<1>3. rest \in [Ids -> Order] /\ \A o \in Ids : OrderSound(rest[o])
  BY <1>1, CancelledIs DEF IInv, Typed, TypeOK
<1>4. ord' = rest \/ (Free # {} /\ ord' = [rest EXCEPT ![Next1] = NewOrder(l)])
  BY <1>2
<1> HIDE DEF rest
<1>5. OrdersTyped
  <2>1. Free # {} => Next1 \in Ids
    BY NextIs
  <2>2. NewOrder(l) \in Order /\ OrderSound(NewOrder(l))
    BY <1>1, NewOrderIs
  <2> QED
    BY <1>3, <1>4, <2>1, <2>2 DEF OrdersTyped
<1>6. rn' \in RunnerState /\ rn'.pc = "persist" /\ fresh' = FALSE
  BY PersistIs DEF PlaceFails
<1>7. Rest
  BY <1>6, RestIs DEF Rest, PlaceFails, world
<1>8. KeepsLive
  BY <1>1, <1>5 DEF KeepsLive
<1> QED
  BY <1>1, <1>6, <1>7, <1>8, NoIntentIs, KeptStep DEF PlaceFails, Typed, TypeOK

LEMMA PlaceRaisesKeeps ==
    ASSUME IInv, NEW pc \in {"place1", "place2"}, PlaceRaises(pc)
    PROVE  IInv'
<1>1. Typed /\ live = <<>>
  BY DEF IInv, LiveSound, PlaceRaises
<1>2. KeepsLive
  BY <1>1, NoOrderIs DEF PlaceRaises, KeepsLive, OrdersTyped, IInv, Typed, TypeOK
<1>3. Rest
  BY UpsetIs, RestIs DEF Rest, PlaceRaises, engine
<1>4. rn' \in RunnerState /\ rn'.pc = "idle"
  BY AtIs DEF PlaceRaises, Places
<1> QED
  BY <1>1, <1>2, <1>3, <1>4, KeptStep DEF PlaceRaises, Typed, TypeOK, engine

-----------------------------------------------------------------------------
(* The snapshot, the end of the loop, restarts *)

LEMMA PersistKeeps == ASSUME IInv, Persist PROVE IInv'
<1>1. Typed
  BY DEF IInv
<1>2. snap' \in Snapshots /\ SnapSound'
  BY <1>1, RestIs DEF Persist, Snapshots, SnapSound, HaveMeansLeg, Typed
<1>3. Rest
  BY <1>2, RestIs DEF Rest, Persist, exchange, engine
<1>4. KeepsLive
  BY SameKeepsLive DEF Persist, exchange
<1>5. rn' \in RunnerState /\ rn'.pc = "idle"
  BY AtIs DEF Persist, Places
<1> QED
  BY <1>1, <1>3, <1>4, <1>5, KeptStep DEF Persist, Typed, TypeOK, engine

LEMMA StopKeeps == ASSUME IInv, Stop PROVE IInv'
<1>1. snap' \in Snapshots /\ SnapSound'
  BY RestIs, NoIntentIs DEF Stop, Snapshots, SnapSound, HaveMeansLeg
<1>2. Rest
  BY <1>1, RestIs DEF Rest, Stop
<1>3. OrdersTyped
  BY CancelledIs DEF Stop, OrdersTyped
<1>4. rn' \in RunnerState /\ rn'.pc = "down"
  BY AtIs DEF Stop, Places
<1> QED
  BY <1>2, <1>3, <1>4, ReleasedStep DEF Stop

LEMMA ShutdownKeeps == ASSUME IInv, Shutdown PROVE IInv'
<1>1. Typed
  BY DEF IInv
<1>2. KeepsLive /\ Rest
  BY SameKeepsLive, RestIs DEF Rest, Shutdown, exchange, engine, world
<1>3. rn' \in RunnerState /\ rn'.pc = "stopping"
  BY AtIs DEF Shutdown, Places
<1> QED
  BY <1>1, <1>2, <1>3, KeptStep DEF Shutdown, Typed, TypeOK, engine

LEMMA CrashKeeps == ASSUME IInv, Crash PROVE IInv'
<1>1. OrdersTyped
  BY NoOrderIs DEF IInv, Typed, TypeOK, Crash, OrdersTyped
<1>2. Rest
  BY RestIs DEF Rest, Crash
<1>3. rn' \in RunnerState /\ rn'.pc = "down"
  BY AtIs DEF Crash, Places
<1>4. NoLive
  BY DEF Crash, NoLive
<1> QED
  BY <1>1, <1>2, <1>3, <1>4, ReleasedStep

LEMMA RestartKeeps == ASSUME IInv, Restart PROVE IInv'
<1>1. Typed /\ live = <<>>
  BY DEF IInv, LiveSound, Restart
<1>2. snap \in Snapshots /\ SnapSound
  BY RestIs
<1>3. /\ pos' \in [Legs -> Int] /\ have' \in {-1, 0, 1} /\ pend' \in Intents
      /\ HaveMeansLeg'
  BY <1>2 DEF Restart, Snapshots, SnapSound, HaveMeansLeg
<1>4. Rest
  BY <1>3, UpsetIs, RestIs DEF Rest, Restart, exchange
<1>5. KeepsLive
  BY SameKeepsLive DEF Restart, exchange
<1>6. rn' \in RunnerState /\ rn'.pc = "start"
  BY AtIs DEF Restart, Places
<1> QED
  BY <1>1, <1>3, <1>4, <1>5, <1>6, KeptStep DEF Restart, Typed, TypeOK

LEMMA InitSound == ASSUME Init PROVE IInv
<1>1. At("start") \in RunnerState /\ At("start").pc = "start"
      /\ At("start").seen = {} /\ At("start").first = 0
  BY AtIs DEF Places
<1>2. Flat \in [Legs -> Int]
  BY DEF Flat
<1>3. /\ Unused \in Api /\ Trading \in Control
      /\ [pos |-> Flat, have |-> 0, pend |-> NoIntent] \in Snapshots
  BY <1>2, NoIntentIs DEF Unused, Api, Trading, Control, Snapshots
<1>4. Typed
  <2>1. 0 \in 0..(WaitBars - 1) /\ 0 \in 0..MaxUpsets
    BY PairsBounds
  <2>2. waited \in 0..(WaitBars - 1) /\ upsets \in 0..MaxUpsets
    BY <2>1 DEF Init
  <2>3. ord \in [Ids -> Order]
    BY NoOrderIs DEF Init
  <2>4. rn.seen \subseteq Legs /\ rn.first \in Ids \union {0}
    BY <1>1 DEF Init
  <2>5. /\ exPos \in [Legs -> Int] /\ pos \in [Legs -> Int]
        /\ have \in {-1, 0, 1} /\ live = <<>>
        /\ tripped \in BOOLEAN /\ fresh \in BOOLEAN
    BY <1>2 DEF Init
  <2>6. TypeOK
    BY <2>2, <2>3, <2>4, <2>5 DEF TypeOK
  <2> QED
    BY <1>1, <1>3, <2>6, NoIntentIs DEF Init, Typed
<1>5. \A o \in Ids : OrderSound(ord[o])
  BY NoOrderIs DEF Init
<1>6. LiveSound /\ PlaceSound
  BY <1>1 DEF Init, LiveSound, PlaceSound
<1>7. SnapSound /\ HaveMeansLeg
  BY DEF Init, SnapSound, HaveMeansLeg
<1> QED
  BY <1>4, <1>5, <1>6, <1>7 DEF IInv

LEMMA StepKeeps == ASSUME IInv, [Next]_vars PROVE IInv'
<1>1. CASE UNCHANGED vars
  <2>1. OrdersKept
    BY <1>1, SameOrdersKept DEF vars
  <2> QED
    BY <1>1, <2>1, WorldStep, RestIs DEF vars, engine
<1>2. CASE \E o \in Ids : Fill(o) \/ Expire(o)
  BY <1>2, FillKeeps, ExpireKeeps
<1>3. CASE RunnerStep
  <2>1. ASSUME NEW l \in Legs, ChaseFills(l) \/ ChaseFails(l) \/ UnwindLeg(l) PROVE IInv'
    BY <2>1, ChaseFillsKeeps, ChaseFailsKeeps, UnwindLegKeeps
  <2>2. 1 \in Legs /\ 2 \in Legs
    BY DEF Legs
  <2>3. PollFirst \/ PollSecond => IInv'
    BY <2>2, PollLegKeeps DEF PollFirst, PollSecond
  <2>6. PollRaises("poll1") \/ PollRaises("poll2") => IInv'
    BY PollRaisesKeeps
  <2>4. PlaceFails(1, "place1") \/ PlaceFails(2, "place2") => IInv'
    BY <2>2, PlaceFailsKeeps
  <2>5. PlaceRaises("place1") \/ PlaceRaises("place2") => IInv'
    BY PlaceRaisesKeeps
  <2> QED
    BY <1>3, <2>1, <2>3, <2>4, <2>5, <2>6, StartLiveKeeps, CancelAllKeeps, LoadControlKeeps,
       ReconcileKeeps, BothFilledKeeps, NeitherFilledKeeps, SignalKeeps, BreakerHaltsKeeps,
       PlaceFirstKeeps, PlaceSecondKeeps, PersistKeeps, StopKeeps DEF RunnerStep
<1>4. CASE Shutdown \/ Crash \/ Restart
  BY <1>4, ShutdownKeeps, CrashKeeps, RestartKeeps
<1>5. CASE NewBar \/ SyncFetch \/ SyncCompare \/ Operate \/ ApiFlatten \/ ApiFetch \/ ApiDone
  BY <1>5, WorldKeeps
<1>6. CASE ApiCancelAll \/ \E l \in Legs : ApiClose(l)
  BY <1>6, ApiCancelAllKeeps, ApiCloseKeeps
<1> QED
  BY <1>1, <1>2, <1>3, <1>4, <1>5, <1>6 DEF Next

-----------------------------------------------------------------------------
(* The terms of the legs that are placed or tracked *)

\* An entry is quoted by an engine that believes in no pair, and an exit of a
\* pair that is believed in and has both of its legs.
EntryTerms == have = 0 /\ \E w \in {-1, 1} : pend = EntryIntent(w)
ExitTerms == have # 0 /\ \A l \in Legs : pend[l].reduce /\ pos[l] # 0
Terms == EntryTerms \/ ExitTerms

SameTerms(r, q) == r.dir = q.dir /\ r.size = q.size /\ r.reduce = q.reduce

\* They hold from the quote until the orders are booked or dropped, and the
\* orders are those that were quoted.
TermsInv ==
    /\ live # <<>> => Terms /\ \A l \in Legs : SameTerms(ord[live[l]], pend[l])
    /\ rn.pc \in {"place1", "place2"} => Terms
    /\ rn.pc = "place2" => SameTerms(ord[rn.first], pend[1])

TermsKept ==
    \A o \in Ids : o \in Tracked /\ ord[o].st # "none" => SameTerms(ord'[o], ord[o])

LEMMA WorldTerms ==
    ASSUME IInv, TermsInv, TermsKept, UNCHANGED <<engine, rn>>
    PROVE  TermsInv'
<1> USE DEF engine
<1>1. live # <<>> => \A l \in Legs : SameTerms(ord'[live[l]], pend[l])
  <2>1. live # <<>> => \A l \in Legs : live[l] \in Ids \cap Tracked /\ ord[live[l]].st # "none"
    BY LiveIs DEF IInv, LiveSound, Legs
  <2> QED
    BY <2>1 DEF TermsInv, TermsKept, SameTerms
<1>2. rn.pc = "place2" => SameTerms(ord'[rn.first], pend[1])
  BY DEF IInv, PlaceSound, TermsInv, TermsKept, SameTerms, Tracked
<1> QED
  BY <1>1, <1>2 DEF TermsInv, Terms, EntryTerms, ExitTerms, SameTerms

LEMMA SettledTerms ==
    ASSUME IInv, NEW o \in Ids, NEW r, SameTerms(r, ord[o]), ord' = [ord EXCEPT ![o] = Settled(o, r)]
    PROVE  TermsKept
  BY DEF IInv, Typed, TypeOK, TermsKept, Settled, SameTerms

LEMMA ExchangeTerms ==
    ASSUME IInv, TermsInv, ApiCancelAll \/ \E o \in Ids : Fill(o) \/ Expire(o)
    PROVE  TermsInv'
<1>1. ord \in [Ids -> Order]
  BY DEF IInv, Typed, TypeOK
<1>2. ASSUME NEW o \in Ids, Fill(o) PROVE TermsKept
  <2> DEFINE st == IF ord[o].filled + 1 = ord[o].size THEN "closed" ELSE "open"
             r == [ord[o] EXCEPT !.filled = @ + 1, !.st = st]
  <2>1. ord' = [ord EXCEPT ![o] = Settled(o, r)]
    BY <1>2 DEF Fill
  <2>2. SameTerms(r, ord[o])
    BY <1>1 DEF SameTerms, Order
  <2> HIDE DEF r
  <2> QED
    BY <2>1, <2>2, SettledTerms
<1>3. ASSUME NEW o \in Ids, Expire(o) PROVE TermsKept
  <2> DEFINE r == [ord[o] EXCEPT !.st = "canceled"]
  <2>1. ord' = [ord EXCEPT ![o] = Settled(o, r)]
    BY <1>3 DEF Expire
  <2>2. SameTerms(r, ord[o])
    BY <1>1 DEF SameTerms, Order
  <2> HIDE DEF r
  <2> QED
    BY <2>1, <2>2, SettledTerms
<1>4. ASSUME ApiCancelAll, NEW o \in Ids, o \in Tracked PROVE SameTerms(ord'[o], ord[o])
  <2>1. ord'[o] \in {ord[o], [ord[o] EXCEPT !.st = "canceled"]}
    BY <1>4 DEF ApiCancelAll, Settled
  <2> QED
    BY <1>1, <2>1 DEF SameTerms, Order
<1>5. UNCHANGED <<engine, rn>>
  BY DEF Fill, Expire, ApiCancelAll
<1> QED
  BY <1>2, <1>3, <1>4, <1>5, WorldTerms DEF TermsKept

\* Steps of the process that send no leg and keep what they track, or let it go.
LEMMA HeldTerms ==
    ASSUME TermsInv, rn'.pc \notin {"place1", "place2"},
           \/ live' = <<>>
           \/ UNCHANGED <<ord, live, pend, have>> /\ (UNCHANGED pos \/ ~pend[1].reduce)
    PROVE  TermsInv'
<1>1. CASE live' = <<>>
  BY <1>1 DEF TermsInv
<1>2. CASE live # <<>> /\ UNCHANGED <<ord, live, pend, have>> /\ (UNCHANGED pos \/ ~pend[1].reduce)
  <2>1. Terms'
    BY <1>2 DEF TermsInv, Terms, EntryTerms, ExitTerms, Legs, EntryIntent
  <2>2. \A l \in Legs : SameTerms(ord'[live'[l]], pend'[l])
    BY <1>2 DEF TermsInv
  <2> QED
    BY <2>1, <2>2 DEF TermsInv, SameTerms
<1> QED
  BY <1>1, <1>2

\* What is tracked at "resolve", in the terms of the engine.
LEMMA TrackedTerms ==
    ASSUME IInv, TermsInv, rn.pc = "resolve"
    PROVE  /\ ~ord[live[1]].reduce =>
                 /\ have = 0 /\ ~pend[1].reduce
                 /\ \E w \in {-1, 1} : /\ ord[live[1]].dir = -w /\ ord[live[2]].dir = w
                                       /\ \A l \in Legs : ord[live[l]].size = Size
           /\ ord[live[1]].reduce => have # 0 /\ \A l \in Legs : pos[l] # 0
<1>1. Terms /\ \A l \in Legs : SameTerms(ord[live[l]], pend[l])
  BY ResolveIs DEF TermsInv
<1>2. CASE EntryTerms
  <2>1. PICK w \in {-1, 1} : pend = EntryIntent(w)
    BY <1>2 DEF EntryTerms
  <2>2. /\ pend[1].dir = -w /\ pend[2].dir = w
        /\ \A l \in Legs : pend[l].size = Size /\ ~pend[l].reduce
    BY <2>1 DEF EntryIntent, Legs
  <2>3. 1 \in Legs /\ 2 \in Legs
    BY DEF Legs
  <2> QED
    BY <1>1, <1>2, <2>2, <2>3 DEF SameTerms, EntryTerms
<1>3. CASE ExitTerms
  BY <1>1, <1>3 DEF SameTerms, ExitTerms, Legs
<1> QED
  BY <1>1, <1>2, <1>3 DEF Terms

LEMMA BookOrRaiseTerms ==
    ASSUME IInv, TermsInv, rn.pc = "resolve", NEW resting, BookOrRaise(resting)
    PROVE  TermsInv'
<1>1. CASE BookingRaises
  <2>1. /\ UNCHANGED <<ord, have, pend, live>> /\ ~ord[live[1]].reduce
        /\ rn'.pc = "idle"
    BY <1>1, AtIs DEF BookOrRaise, BookingRaises, Places
  <2>2. ~pend[1].reduce
    BY <2>1, TrackedTerms
  <2> QED
    BY <2>1, <2>2, HeldTerms
<1>2. CASE ~BookingRaises
  <2>1. live' = <<>> /\ rn'.pc = "quote"
    BY <1>2, GotoIs DEF IInv, BookOrRaise, NoLive, Places
  <2> QED
    BY <2>1, HeldTerms
<1> QED
  BY <1>1, <1>2

LEMMA ResolveTerms ==
    ASSUME IInv, TermsInv,
           BothFilled \/ NeitherFilled \/ \E l \in Legs : ChaseFills(l) \/ ChaseFails(l) \/ UnwindLeg(l)
    PROVE  TermsInv'
<1>0. Typed
  BY DEF IInv
<1>1. ASSUME NEW l \in Legs, NEW after, Unwind(l, after), rn'.pc = "stopping" => ord' = ord
      PROVE  TermsInv'
  <2>1. CASE Killed /\ UNCHANGED <<pos, have, pend, live, waited>>
    <3>1. rn'.pc = "stopping"
      BY <2>1, AtIs DEF Killed, Places
    <3> QED
      BY <1>1, <2>1, <3>1, HeldTerms
  <2>2. CASE NoLive /\ Goto("quote")
    <3>1. rn'.pc = "quote" /\ live' = <<>>
      BY <1>0, <2>2, GotoIs DEF NoLive, Places
    <3> QED
      BY <3>1, HeldTerms
  <2> QED
    BY <1>1, <2>1, <2>2 DEF Unwind
<1>2. ASSUME NEW l \in Legs, ChaseFails(l) \/ UnwindLeg(l) PROVE TermsInv'
  <2>1. PICK m \in Legs : \E after : Unwind(m, after)
    BY <1>2, OtherIs DEF ChaseFails, UnwindLeg
  <2>2. rn'.pc = "stopping" => ord' = ord
    BY <1>2 DEF ChaseFails, UnwindLeg
  <2> QED
    BY <1>1, <2>1, <2>2
<1>3. ASSUME BothFilled \/ \E l \in Legs : ChaseFills(l) PROVE TermsInv'
  BY <1>3, BookOrRaiseTerms DEF BothFilled, ChaseFills
<1>4. ASSUME NeitherFilled PROVE TermsInv'
  <2>1. rn'.pc = "quote"
    BY <1>0, <1>4, GotoIs DEF NeitherFilled, Places
  <2>2. live' = <<>> \/ UNCHANGED <<ord, live, pend, have, pos>>
    BY <1>4 DEF NeitherFilled, NoLive
  <2> QED
    BY <2>1, <2>2, HeldTerms
<1> QED
  BY <1>2, <1>3, <1>4

\* A quote sends nothing and changes no leg; the intents it leaves fit.
QuotedTerms ==
    \/ EndStep /\ UNCHANGED pend
    \/ Goto("place1") /\ UNCHANGED <<pos, have>> /\ Terms'

LEMMA QuoteExitTerms ==
    ASSUME IInv, have # 0, UNCHANGED pos, QuoteExit
    PROVE  QuotedTerms
<1>1. CASE \E l \in Legs : pos[l] = 0
  BY <1>1 DEF QuoteExit, QuotedTerms
<1>2. CASE \A l \in Legs : pos[l] # 0
  <2>1. pend' = ExitIntent /\ Goto("place1") /\ UNCHANGED <<pos, have>>
    BY <1>2 DEF QuoteExit
  <2>2. \A l \in Legs : pend'[l].reduce
    BY <2>1 DEF ExitIntent
  <2> QED
    BY <1>2, <2>1, <2>2 DEF QuotedTerms, Terms, ExitTerms
<1> QED
  BY <1>1, <1>2

LEMMA QuoteTerms ==
    ASSUME IInv, UNCHANGED pos, NEW w \in {-1, 0, 1}, Quote(w)
    PROVE  QuotedTerms
<1>1. CASE Hold
  BY <1>1 DEF Hold, QuotedTerms
<1>2. CASE w # 0 /\ have = 0 /\ pend' = EntryIntent(w) /\ Goto("place1") /\ UNCHANGED <<have, fresh>>
  BY <1>2 DEF QuotedTerms, Terms, EntryTerms
<1>3. CASE QuoteExit /\ have # 0
  BY <1>3, QuoteExitTerms
<1> QED
  BY <1>1, <1>2, <1>3 DEF Quote

LEMMA QuotedKeepsTerms ==
    ASSUME IInv, TermsInv, QuotedTerms, live = <<>>, live' = live
    PROVE  TermsInv'
<1>1. CASE EndStep
  BY <1>1, PersistIs, HeldTerms
<1>2. CASE Goto("place1") /\ UNCHANGED <<pos, have>> /\ Terms'
  <2>1. rn'.pc = "place1"
    BY <1>2, GotoIs DEF IInv, Places
  <2> QED
    BY <1>2, <2>1 DEF TermsInv
<1> QED
  BY <1>1, <1>2 DEF QuotedTerms

LEMMA OnBarTerms == ASSUME IInv, TermsInv, Signal \/ BreakerHalts PROVE TermsInv'
<1>1. CASE pend = NoIntent
  <2>1. live = <<>> /\ live' = live /\ UNCHANGED pos
    BY <1>1 DEF IInv, LiveSound, Signal, BreakerHalts
  <2>2. CASE Signal
    <3>1. \E w \in {-1, 0, 1} : Quote(w)
      BY <1>1, <2>2, PairsBounds DEF Signal
    <3> QED
      BY <2>1, <3>1, QuoteTerms, QuotedKeepsTerms
  <2>3. CASE BreakerHalts
    <3>1. Hold \/ (QuoteExit /\ have # 0)
      BY <1>1, <2>3 DEF BreakerHalts
    <3>2. QuotedTerms
      BY <2>1, <3>1, QuoteExitTerms DEF Hold, QuotedTerms
    <3> QED
      BY <2>1, <3>2, QuotedKeepsTerms
  <2> QED
    BY <2>2, <2>3
<1>2. CASE pend # NoIntent
  <2>1. EndStep
    BY <1>2 DEF Signal, BreakerHalts, Hold
  <2>2. live' = <<>> \/ UNCHANGED <<ord, live, pend, have, pos>>
    BY <1>2 DEF Signal, BreakerHalts, Hold, NoLive, exchange
  <2> QED
    BY <2>1, <2>2, PersistIs, HeldTerms
<1> QED
  BY <1>1, <1>2

LEMMA NewOrderTerms ==
    ASSUME NEW l \in Legs
    PROVE  SameTerms(NewOrder(l), pend[l])
  BY DEF SameTerms, NewOrder

LEMMA PlaceTerms == ASSUME IInv, TermsInv, PlaceFirst \/ PlaceSecond PROVE TermsInv'
<1>0. Typed /\ 1 \in Legs /\ 2 \in Legs /\ ord \in [Ids -> Order]
  BY DEF IInv, Legs, Typed, TypeOK
<1>1. CASE PlaceFirst
  <2>1. /\ Next1 \in Ids /\ live = <<>> /\ Terms
        /\ ord' = [ord EXCEPT ![Next1] = NewOrder(1)]
    BY <1>0, <1>1, PlacedIs DEF PlaceFirst, Placed, TermsInv
  <2>2. rn'.pc = "place2" /\ rn'.first = Next1
    BY <1>0, <1>1, RunnerFields DEF PlaceFirst, RunnerState
  <2>3. UNCHANGED <<pos, have, pend, live>>
    BY <1>1 DEF PlaceFirst, engine
  <2>4. ord'[rn'.first] = NewOrder(1)
    BY <1>0, <2>1, <2>2
  <2>5. Terms'
    BY <2>1, <2>3 DEF Terms, EntryTerms, ExitTerms
  <2>6. SameTerms(ord'[rn'.first], pend'[1])
    BY <1>0, <2>3, <2>4, NewOrderTerms
  <2> QED
    BY <2>1, <2>2, <2>3, <2>5, <2>6 DEF TermsInv, SameTerms
<1>2. CASE PlaceSecond
  <2>1. /\ Next1 \in Ids /\ ord[Next1].st = "none" /\ Terms
        /\ ord' = [ord EXCEPT ![Next1] = NewOrder(2)]
        /\ rn.first \in Ids /\ ord[rn.first].st # "none"
        /\ SameTerms(ord[rn.first], pend[1])
    BY <1>0, <1>2, PlacedIs DEF PlaceSecond, Placed, TermsInv, IInv, PlaceSound
  <2>2. /\ live'[1] = rn.first /\ live'[2] = Next1
        /\ UNCHANGED <<pos, have, pend>>
        /\ rn'.pc = "persist"
    BY <1>2, PersistIs DEF PlaceSecond
  <2>3. ord'[live'[1]] = ord[rn.first] /\ ord'[live'[2]] = NewOrder(2)
    BY <1>0, <2>1, <2>2
  <2>4. Terms'
    BY <2>1, <2>2 DEF Terms, EntryTerms, ExitTerms
  <2>5. SameTerms(NewOrder(2), pend[2])
    BY <1>0, NewOrderTerms
  <2>6. \A l \in Legs : SameTerms(ord'[live'[l]], pend'[l])
    BY <2>1, <2>2, <2>3, <2>5 DEF Legs, SameTerms
  <2> QED
    BY <2>2, <2>4, <2>6 DEF TermsInv, SameTerms
<1> QED
  BY <1>1, <1>2

\* The other steps of the process.
LEMMA ProcessTerms ==
    ASSUME IInv, TermsInv,
           \/ StartLive \/ CancelAll \/ LoadControl \/ Reconcile
           \/ PollFirst \/ PollSecond \/ PollRaises("poll1") \/ PollRaises("poll2")
           \/ PlaceFails(1, "place1") \/ PlaceFails(2, "place2")
           \/ PlaceRaises("place1") \/ PlaceRaises("place2")
           \/ Persist \/ Stop \/ Shutdown \/ Crash \/ Restart
    PROVE  TermsInv'
<1>0. Typed
  BY DEF IInv
<1>1. CASE StartLive \/ CancelAll \/ Restart \/ Stop \/ Crash
  <2>1. live' = <<>>
    BY <1>1 DEF IInv, LiveSound, StartLive, CancelAll, Restart, Stop, Crash, NoLive, engine
  <2>2. rn'.pc \in {"cancelall", "idle", "start", "down"}
    BY <1>0, <1>1, AtIs, GotoIs DEF StartLive, CancelAll, Restart, Stop, Crash, Places
  <2> QED
    BY <2>1, <2>2, HeldTerms
<1>2. ASSUME NEW l \in Legs, NEW pc \in {"place1", "place2"}, PlaceFails(l, pc) \/ PlaceRaises(pc)
      PROVE  TermsInv'
  <2>1. live' = <<>>
    BY <1>2 DEF IInv, LiveSound, PlaceFails, PlaceRaises, engine
  <2>2. rn'.pc \in {"persist", "idle"}
    BY <1>2, AtIs, PersistIs DEF PlaceFails, PlaceRaises, Places
  <2> QED
    BY <2>1, <2>2, HeldTerms
<1>3. CASE LoadControl \/ Reconcile \/ Persist \/ Shutdown
  <2>1. UNCHANGED <<ord, live, pend, have, pos>>
    BY <1>3 DEF LoadControl, Reconcile, Persist, Shutdown, exchange, engine
  <2>2. rn'.pc \in {"reconcile", "idle", "quote", "poll1", "stopping"}
    <3>1. CASE LoadControl
      <4>1. At("reconcile") \in RunnerState /\ At("reconcile").pc = "reconcile"
        BY AtIs DEF Places
      <4> HIDE DEF At
      <4> QED
        BY <3>1, <4>1 DEF LoadControl, RunnerState
    <3>2. CASE Reconcile
      BY <1>0, <3>2, AtIs, GotoIs, KilledIs DEF Reconcile, Places
    <3>3. CASE Persist \/ Shutdown
      BY <3>3, AtIs DEF Persist, Shutdown, Places
    <3> QED
      BY <1>3, <3>1, <3>2, <3>3
  <2> QED
    BY <2>1, <2>2, HeldTerms
<1>4. ASSUME PollFirst \/ PollSecond \/ PollRaises("poll1") \/ PollRaises("poll2")
      PROVE  TermsInv'
  <2>1. UNCHANGED <<ord, live, pend, have, pos>>
    BY <1>4 DEF PollFirst, PollSecond, PollLeg, PollRaises, exchange, engine
  <2>2. rn'.pc \in {"poll2", "resolve", "idle"}
    <3>1. CASE PollFirst \/ PollSecond
      BY <1>0, <3>1, RunnerFields DEF PollFirst, PollSecond, PollLeg, RunnerState
    <3>2. CASE PollRaises("poll1") \/ PollRaises("poll2")
      BY <3>2, AtIs DEF PollRaises, Places
    <3> QED
      BY <1>4, <3>1, <3>2
  <2> QED
    BY <2>1, <2>2, HeldTerms
<1> QED
  BY <1>1, <1>2, <1>3, <1>4 DEF Legs

LEMMA StepTerms == ASSUME IInv, TermsInv, [Next]_vars PROVE TermsInv'
<1>1. CASE UNCHANGED vars
  BY <1>1 DEF vars, TermsInv, Terms, EntryTerms, ExitTerms, SameTerms
<1>2. CASE ApiCancelAll \/ \E o \in Ids : Fill(o) \/ Expire(o)
  BY <1>2, ExchangeTerms
<1>3. CASE RunnerStep \/ Shutdown \/ Crash \/ Restart
  BY <1>3, ResolveTerms, OnBarTerms, PlaceTerms, ProcessTerms DEF RunnerStep
<1>4. CASE \/ NewBar \/ SyncFetch \/ SyncCompare \/ Operate
           \/ ApiFlatten \/ ApiFetch \/ (\E l \in Legs : ApiClose(l)) \/ ApiDone
  <2>1. ord' = ord /\ UNCHANGED <<engine, rn>>
    BY <1>4 DEF NewBar, SyncFetch, SyncCompare, Operate, ApiFlatten, ApiFetch, ApiClose, ApiDone,
       exchange
  <2> QED
    BY <2>1, WorldTerms DEF TermsKept, SameTerms
<1> QED
  BY <1>1, <1>2, <1>3, <1>4 DEF Next

-----------------------------------------------------------------------------
(* The book: every step is one of PairBook's *)

\* The legs, the belief and the snapshot stay: only the exchange may move.
BookKept == UNCHANGED <<pos, have, snap>> /\ exPos' \in [Legs -> Int]

BookStep == Book!Next \/ BookKept

LEMMA BookLegs == Book!Legs = Legs
  BY DEF Book!Legs, Legs

LEMMA BookedStep ==
    ASSUME IInv, TermsInv, rn.pc = "resolve", NEW resting, BookOrRaise(resting),
           exPos' \in [Legs -> Int], UNCHANGED snap
    PROVE  BookStep
<1>1. pos \in [Legs -> Int] /\ have \in {-1, 0, 1} /\ 1 \in Legs /\ 2 \in Legs
      /\ Size \in Nat /\ Legs = {1, 2}
  BY RestIs, PairsBounds DEF Legs
<1>2. Book!Trade
  BY BookLegs DEF Book!Trade
<1>3. CASE ord[live[1]].reduce
  <2>1. pos' = Flat /\ have' = 0
    BY <1>3 DEF BookOrRaise, BookingRaises, BookBoth
  <2>2. have # 0 /\ \A l \in Legs : pos[l] # 0
    BY <1>3, TrackedTerms
  <2>3. Book!Close
    BY <2>1, <2>2, BookLegs DEF Book!Close, Book!BothLegs, Book!Empty, Flat
  <2> QED
    BY <1>2, <2>3 DEF BookStep, Book!Next, Book!Change
<1>4. CASE ~ord[live[1]].reduce
  <2>1. PICK w \in {-1, 1} : /\ ord[live[1]].dir = -w /\ ord[live[2]].dir = w
                             /\ \A l \in Legs : ord[live[l]].size = Size
    BY <1>4, TrackedTerms
  <2>2. have = 0
    BY <1>4, TrackedTerms
  <2>3. CASE \A l \in Legs : pos[l] = 0
    <3>1. pos = Flat
      BY <1>1, <2>3 DEF Flat
    <3>2. /\ pos' = [l \in Legs |-> ord[live[l]].dir * ord[live[l]].size]
          /\ have' = -ord[live[1]].dir
      BY <1>4, <2>3 DEF BookOrRaise, BookingRaises, BookBoth
    <3>3. have' = w
      BY <2>1, <3>2
    <3>4. pos' = [l \in Legs |-> IF l = 1 THEN -w * Size ELSE w * Size]
      BY <1>1, <2>1, <3>2
    <3>5. Book!Open(w)
      BY <2>2, <3>1, <3>3, <3>4, BookLegs DEF Book!Open, Book!Empty, Book!Pair, Flat
    <3> QED
      BY <1>2, <3>5 DEF BookStep, Book!Next, Book!Change
  <2>4. CASE \E l \in Legs : pos[l] # 0
    <3>1. /\ have' = have
          /\ pos' = IF pos[1] = 0
                    THEN [pos EXCEPT ![1] = ord[live[1]].dir * ord[live[1]].size] ELSE pos
      BY <1>4, <2>4 DEF BookOrRaise, BookingRaises
    <3>2. CASE pos[1] # 0
      BY <3>1, <3>2 DEF BookStep, BookKept
    <3>3. CASE pos[1] = 0
      <4>1. pos[2] # 0
        BY <1>1, <2>4, <3>3
      <4>2. PICK n \in {-Size, Size} : n = ord[live[1]].dir * ord[live[1]].size
        BY <1>1, <2>1
      <4>3. pos' = [pos EXCEPT ![1] = n]
        BY <3>1, <3>3, <4>2
      <4>4. Book!Strand
        BY <2>2, <3>1, <3>3, <4>1, <4>3 DEF Book!Strand
      <4> QED
        BY <1>2, <4>4 DEF BookStep, Book!Next, Book!Change
    <3> QED
      BY <3>2, <3>3
  <2> QED
    BY <2>3, <2>4
<1> QED
  BY <1>3, <1>4

LEMMA UnwoundStep ==
    ASSUME IInv, NEW l \in Legs, NEW after, Unwind(l, after), exPos' \in [Legs -> Int], UNCHANGED snap
    PROVE  BookStep
<1>1. CASE UNCHANGED <<pos, have>>
  BY <1>1 DEF BookStep, BookKept
<1>2. CASE pos[l] # 0 /\ pos' = [pos EXCEPT ![l] = 0] /\ have' = 0
  <2>1. Book!LoseLeg(l)
    BY <1>2 DEF Book!LoseLeg
  <2> QED
    BY <2>1, BookLegs DEF BookStep, Book!Next, Book!Change, Book!Trade
<1> QED
  BY <1>1, <1>2 DEF Unwind

LEMMA QuotedStep ==
    ASSUME IInv, Signal \/ BreakerHalts
    PROVE  BookStep
<1>1. UNCHANGED <<exPos, pos, snap>> /\ exPos' \in [Legs -> Int]
  BY RestIs DEF Signal, BreakerHalts, exchange, world
<1>2. CASE have' = have
  BY <1>1, <1>2 DEF BookStep, BookKept
<1>3. CASE have' # have
  <2>1. QuoteExit
    BY <1>3 DEF Signal, BreakerHalts, Hold, Quote
  <2>2. have' = 0 /\ \E l \in Legs : pos[l] = 0
    BY <1>3, <2>1 DEF QuoteExit
  <2>3. have # 0
    BY <1>3, <2>2
  <2>4. Book!Disbelieve
    BY <1>1, <2>2, <2>3, BookLegs DEF Book!Disbelieve, Book!BothLegs
  <2> QED
    BY <1>1, <2>4, BookLegs DEF BookStep, Book!Next, Book!Change, Book!Trade
<1> QED
  BY <1>2, <1>3

LEMMA AdoptedStep == ASSUME IInv, StartLive PROVE BookStep
<1>1. /\ exPos \in [Legs -> Int] /\ pos \in [Legs -> Int] /\ have \in {-1, 0, 1} /\ HaveMeansLeg
      /\ 1 \in Legs
  BY RestIs DEF Legs
<1>2. UNCHANGED <<exPos, snap>>
  BY DEF StartLive, exchange, world
<1>3. CASE UNCHANGED <<pos, have>>
  BY <1>1, <1>2, <1>3 DEF BookStep, BookKept
<1>4. CASE pos = Flat /\ pos' = exPos /\ have' = HaveOf(exPos)
  <2>1. have = 0
    BY <1>1, <1>4 DEF HaveMeansLeg, Flat, Sign
  <2>2. exPos[1] \in Int
    BY <1>1
  <2>3. have' = Book!Side(exPos)
    BY <1>4, <2>2 DEF HaveOf, Sign, Book!Side
  <2>4. Book!Adopt
    BY <1>2, <1>4, <2>1, <2>3, BookLegs DEF Book!Adopt, Book!Empty, Flat
  <2> QED
    BY <1>1, <1>2, <2>4, BookLegs DEF BookStep, Book!Next, Book!Change, Book!Trade
<1> QED
  BY <1>3, <1>4 DEF StartLive

LEMMA SavedStep == ASSUME IInv, Persist \/ Stop \/ Restart PROVE BookStep
<1>1. CASE Restart
  <2>1. Book!Restore
    BY <1>1 DEF Restart, Book!Restore, exchange
  <2> QED
    BY <2>1 DEF BookStep, Book!Next
<1>2. CASE Persist \/ Stop
  <2>1. /\ snap'.pos = pos /\ snap'.have = have
        /\ UNCHANGED <<exPos, pos, have>>
    BY <1>2 DEF Persist, Stop, exchange, engine
  <2>2. Book!Save
    BY <2>1 DEF Book!Save
  <2> QED
    BY <2>2 DEF BookStep, Book!Next
<1> QED
  BY <1>1, <1>2

LEMMA NextIsBookStep == ASSUME IInv, TermsInv, [Next]_vars PROVE BookStep
<1>1. exPos' \in [Legs -> Int]
  <2>1. IInv'
    BY StepKeeps
  <2> QED
    BY <2>1 DEF IInv, Typed, TypeOK
<1>2. CASE UNCHANGED <<pos, have, snap>>
  BY <1>1, <1>2 DEF BookStep, BookKept
<1>3. CASE BothFilled \/ \E l \in Legs : ChaseFills(l) \/ ChaseFails(l) \/ UnwindLeg(l)
  <2>1. CASE BothFilled \/ \E l \in Legs : ChaseFills(l)
    BY <1>1, <2>1, BookedStep DEF BothFilled, ChaseFills, world
  <2>2. ASSUME NEW l \in Legs, ChaseFails(l) \/ UnwindLeg(l) PROVE BookStep
    <3>1. PICK m \in Legs : \E after : Unwind(m, after)
      BY <2>2, OtherIs DEF ChaseFails, UnwindLeg
    <3>2. UNCHANGED snap
      BY <2>2 DEF ChaseFails, UnwindLeg
    <3> QED
      BY <1>1, <3>1, <3>2, UnwoundStep
  <2> QED
    BY <1>3, <2>1, <2>2
<1>4. CASE StartLive \/ Signal \/ BreakerHalts \/ Persist \/ Stop \/ Restart
  BY <1>4, AdoptedStep, QuotedStep, SavedStep
<1>5. CASE \/ CancelAll \/ LoadControl \/ Reconcile
           \/ PollFirst \/ PollSecond \/ PollRaises("poll1") \/ PollRaises("poll2")
           \/ NeitherFilled \/ PlaceFirst \/ PlaceSecond
           \/ PlaceFails(1, "place1") \/ PlaceFails(2, "place2")
           \/ PlaceRaises("place1") \/ PlaceRaises("place2")
  <2>1. UNCHANGED <<pos, have, snap>>
    BY <1>5 DEF CancelAll, LoadControl, Reconcile, PollFirst, PollSecond, PollLeg, PollRaises, NeitherFilled, PlaceFirst, PlaceSecond,
       PlaceFails, PlaceRaises, engine, world
  <2> QED
    BY <1>2, <2>1
<1>6. CASE \/ (\E o \in Ids : Fill(o) \/ Expire(o)) \/ Shutdown \/ Crash \/ NewBar
           \/ SyncFetch \/ SyncCompare \/ Operate \/ ApiFlatten \/ ApiCancelAll \/ ApiFetch
           \/ (\E l \in Legs : ApiClose(l)) \/ ApiDone \/ UNCHANGED vars
  <2>1. UNCHANGED <<pos, have, snap>>
    BY <1>6 DEF Fill, Expire, Shutdown, Crash, NewBar, SyncFetch, SyncCompare, Operate, ApiFlatten,
       ApiCancelAll, ApiFetch, ApiClose, ApiDone, engine, world, vars
  <2> QED
    BY <1>2, <2>1
<1> QED
  BY <1>3, <1>4, <1>5, <1>6 DEF Next, RunnerStep

-----------------------------------------------------------------------------
(* The theorems *)

\* The inductive invariant holds of every behaviour.
THEOREM Sound == Spec => []IInv
  BY InitSound, StepKeeps, PTL DEF Spec

\* Every variable of the pair's runner keeps its type, whichever calls fail and
\* whoever interferes (pairs_runner.py, pairs_live.py).
THEOREM TypeCorrect == Spec => []TypeOK
<1>1. IInv => TypeOK
  BY DEF IInv, Typed
<1> QED
  BY <1>1, Sound, PTL

\* A pair that the engine takes for open has its first leg in the account, on
\* the right side (pairs_live.py: _apply_fills, _unwind_filled_leg, start_live).
THEOREM HaveMeansLegAlways == Spec => []HaveMeansLeg
<1>1. IInv => HaveMeansLeg
  BY DEF IInv
<1> QED
  BY <1>1, Sound, PTL

\* A pair is booked as open only when each leg's order has filled in full
\* (pairs_live.py: _resolve_live_pending, _chase_leg_taker).
THEOREM NeverPaper == Spec => NeverPaperOnLive
<1> DEFINE A == rn.pc = "resolve" /\ have' # have => have' = 0 \/ \A l \in Legs : FilledIn(l)
<1>1. ASSUME IInv, [Next]_vars PROVE [A]_vars
  <2>1. SUFFICES ASSUME Next, rn.pc = "resolve", have' # have, have' # 0
                 PROVE  \A l \in Legs : FilledIn(l)
    BY <1>1
  <2>2. \A l \in rn.seen : ord[live[l]].filled = ord[live[l]].size
    BY <1>1, <2>1, ResolveIs
  <2>3. CASE BothFilled
    BY <2>2, <2>3 DEF BothFilled, FilledIn
  <2>4. ASSUME NEW l \in Legs, ChaseFills(l) PROVE \A m \in Legs : FilledIn(m)
    <3>1. FilledIn(Other(l))
      BY <2>2, <2>4 DEF ChaseFills, FilledIn
    <3>2. exPos \in [Legs -> Int]
      BY <1>1, RestIs
    <3>3. exPos'[l] = exPos[l] + ord[live[l]].dir * ord[live[l]].size
      BY <2>4, <3>2 DEF ChaseFills
    <3> QED
      BY <3>1, <3>3, OtherIs DEF FilledIn
  <2>5. ASSUME NEW l \in Legs, ChaseFails(l) \/ UnwindLeg(l) PROVE FALSE
    <3>1. PICK m \in Legs : \E after : Unwind(m, after)
      BY <2>5, OtherIs DEF ChaseFails, UnwindLeg
    <3>2. have' \in {0, have}
      BY <3>1 DEF Unwind
    <3> QED
      BY <2>1, <3>2
  <2>6. RunnerStep
    BY <2>1 DEF Next, Fill, Expire, Shutdown, Crash, Restart, NewBar, SyncFetch, SyncCompare,
       Operate, ApiFlatten, ApiCancelAll, ApiFetch, ApiClose, ApiDone, engine
  <2> QED
    BY <2>1, <2>3, <2>4, <2>5, <2>6 DEF RunnerStep, StartLive, CancelAll, LoadControl, Reconcile,
       PollFirst, PollSecond, PollLeg, PollRaises, NeitherFilled, Signal, BreakerHalts, PlaceFirst, PlaceSecond, Placed, PlaceFails,
       PlaceRaises, Persist, Stop
<1> QED
  BY <1>1, Sound, PTL DEF Spec, NeverPaperOnLive

\* The legs and the belief change only as PairBook allows: whole pairs into an
\* empty book and out of a believed one, a lost leg with the belief, positions of
\* the exchange at the start, the snapshot (pairs_engine.py: _apply_fills, _quote,
\* apply_snapshot; pairs_live.py: start_live, _resolve_live_pending).
THEOREM RefinesBook == Spec => ImplementsBook
<1>1. Init => Book!Init
  BY BookLegs DEF Init, Flat, Book!Init, Book!Empty
<1>2. Init => TermsInv
  BY AtIs DEF Init, Places, TermsInv
<1>3. IInv /\ TermsInv /\ [Next]_vars => TermsInv'
  BY StepTerms
<1>4. IInv /\ TermsInv /\ [Next]_vars =>
        [Book!Next]_<<exPos, [pos |-> pos, have |-> have], [pos |-> snap.pos, have |-> snap.have]>>
  <2> SUFFICES ASSUME BookKept
               PROVE  [Book!Next]_<<exPos, [pos |-> pos, have |-> have],
                                    [pos |-> snap.pos, have |-> snap.have]>>
    BY NextIsBookStep DEF BookStep
  <2> QED
    BY BookLegs DEF BookKept, Book!Next, Book!Trade
<1>5. Spec => []TermsInv
  BY <1>2, <1>3, Sound, PTL DEF Spec
<1> QED
  BY <1>1, <1>4, <1>5, Sound, PTL DEF Spec, ImplementsBook, Book!BookSpec

=============================================================================
