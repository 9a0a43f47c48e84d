---------------------------- MODULE ServicesProofs ----------------------------
(***************************************************************************)
(* What the services around the live traders keep, for any number of       *)
(* writers, symbols, trades and failures: updates of the control file that *)
(* do not overlap hold, a trade is logged once and once more for each      *)
(* round that broke off, and a listen key that is looked after lives.      *)
(***************************************************************************)
EXTENDS MCServices, FiniteSetTheorems, TLAPS

-----------------------------------------------------------------------------
(* The user data stream *)

\* While nothing failed and no unit was busy, the key is at most one unit older
\* than the clock of the keepalive, and that clock stays below the interval.
StreamInv ==
    /\ UserStream!TypeOK
    /\ ~neglected /\ mark = UserStream!Unset => age = 0 \/ (at = "timeout" /\ age = 1)
    /\ ~neglected /\ mark # UserStream!Unset =>
          age <= mark + 1 /\ (at # "timeout" => mark < Interval)

LEMMA StreamInit == ASSUME UserStream!Init PROVE StreamInv
<1>1. 0 \in Nat /\ 0 \in 0..Interval /\ 0 \in 0..Life /\ 0 \in 0..MaxFailures
  BY ServicesBounds
<1>2. UserStream!TypeOK
  BY <1>1 DEF UserStream!Init, UserStream!TypeOK
<1> QED
  BY <1>2, ServicesBounds DEF UserStream!Init, StreamInv, UserStream!Unset

LEMMA StreamTypes ==
    ASSUME StreamInv
    PROVE  /\ Interval \in Nat /\ Interval > 0 /\ Life \in Nat /\ Life > Interval + 1
           /\ MaxFailures \in Nat /\ failures \in Nat /\ failures <= MaxFailures
           /\ age \in Nat /\ age <= Life
           /\ mark \in Int /\ (mark = -1 \/ (mark >= 0 /\ mark <= Interval))
           /\ UserStream!Unset = -1
  BY ServicesBounds DEF StreamInv, UserStream!TypeOK, UserStream!Unset

LEMMA StreamFails ==
    ASSUME StreamInv, UserStream!Fails
    PROVE  failures' \in 0..MaxFailures
  BY StreamTypes DEF UserStream!Fails

\* A unit passes: both clocks go on.
LEMMA StreamUnit ==
    ASSUME StreamInv, UserStream!BusyUnit \/ UserStream!QuietUnit
    PROVE  StreamInv'
<1> USE StreamTypes
<1>1. /\ age' = (IF age + 1 < Life THEN age + 1 ELSE Life)
      /\ mark' = (IF mark = -1 THEN -1 ELSE IF mark + 1 < Interval THEN mark + 1 ELSE Interval)
      /\ UNCHANGED <<expired, failures>> /\ at = "receive"
  BY DEF UserStream!BusyUnit, UserStream!QuietUnit, UserStream!Older, UserStream!Later,
         UserStream!UpTo
<1>2. age' \in 0..Life /\ (mark' = -1 \/ mark' \in 0..Interval)
  BY <1>1
<1>3. CASE UserStream!BusyUnit
  <2>1. UserStream!TypeOK'
    BY <1>1, <1>2, <1>3 DEF StreamInv, UserStream!TypeOK, UserStream!BusyUnit, UserStream!Unset
  <2> QED
    BY <1>3, <2>1 DEF StreamInv, UserStream!BusyUnit
<1>4. CASE UserStream!QuietUnit
  <2>1. UserStream!TypeOK'
    BY <1>1, <1>2, <1>4 DEF StreamInv, UserStream!TypeOK, UserStream!QuietUnit, UserStream!Unset
  <2>2. neglected' = neglected /\ at' = "timeout"
    BY <1>4 DEF UserStream!QuietUnit
  <2>3. ~neglected /\ mark = -1 => age = 0 /\ mark' = -1 /\ age' = 1
    BY <1>1 DEF StreamInv
  <2>4. ~neglected /\ mark # -1 => age <= mark + 1 /\ mark < Interval
    BY <1>1 DEF StreamInv
  <2>5. ~neglected /\ mark # -1 => mark' = mark + 1 /\ age' <= age + 1
    BY <1>1, <2>4
  <2> QED
    BY <1>1, <2>1, <2>2, <2>3, <2>4, <2>5 DEF StreamInv, UserStream!Unset
<1> QED
  BY <1>3, <1>4

LEMMA StreamKeepalive == ASSUME StreamInv, UserStream!Keepalive PROVE StreamInv'
<1> USE StreamTypes
<1>1. at = "timeout" /\ at' = "receive" /\ expired' = expired
  BY DEF UserStream!Keepalive
<1>2. CASE mark # -1 /\ mark < Interval
  <2>1. UNCHANGED <<mark, age, failures, neglected>>
    BY <1>2 DEF UserStream!Keepalive
  <2> QED
    BY <1>1, <1>2, <2>1 DEF StreamInv, UserStream!TypeOK, UserStream!Unset
<1>3. CASE mark = -1
  <2>1. mark' = 0 /\ UNCHANGED <<age, failures, neglected>>
    BY <1>3 DEF UserStream!Keepalive
  <2>2. mark' \in 0..Interval
    BY <2>1
  <2>3. ~neglected => age <= 1
    BY <1>3 DEF StreamInv
  <2>4. UserStream!TypeOK'
    BY <1>1, <2>1, <2>2 DEF StreamInv, UserStream!TypeOK, UserStream!Unset
  <2> QED
    BY <1>1, <2>1, <2>3, <2>4 DEF StreamInv
<1>4. CASE mark # -1 /\ mark >= Interval
  <2>1. mark' = 0 /\ UserStream!Renewed
    BY <1>4 DEF UserStream!Keepalive
  <2>0. 0 \in 0..Life /\ age \in 0..Life /\ failures \in 0..MaxFailures /\ neglected \in BOOLEAN
    BY DEF StreamInv, UserStream!TypeOK
  <2>2. /\ age' \in 0..Life /\ failures' \in 0..MaxFailures /\ neglected' \in BOOLEAN
        /\ ~neglected' => age' = 0 \/ (~neglected /\ age = Life)
    BY <2>0, <2>1, StreamFails DEF UserStream!Renewed
  <2>3. ~neglected => age <= Interval + 1
    BY <1>4 DEF StreamInv
  <2>4. mark' \in 0..Interval
    BY <2>1
  <2>5. UserStream!TypeOK'
    BY <1>1, <2>2, <2>4 DEF StreamInv, UserStream!TypeOK, UserStream!Unset
  <2> QED
    BY <1>1, <2>1, <2>2, <2>3, <2>5 DEF StreamInv
<1> QED
  BY <1>2, <1>3, <1>4

LEMMA StreamRefresh ==
    ASSUME StreamInv, UserStream!Replace \/ UserStream!Reconnect
    PROVE  StreamInv'
<1> USE StreamTypes
<1>1. at # "timeout" /\ at' = "connect" /\ expired' \in BOOLEAN
  BY DEF UserStream!Replace, UserStream!Reconnect, StreamInv, UserStream!TypeOK
<1>2. CASE age' = 0 /\ mark' = -1 /\ neglected' = FALSE /\ UNCHANGED failures
  <2>1. age' \in 0..Life
    BY <1>2
  <2>2. UserStream!TypeOK'
    BY <1>1, <1>2, <2>1 DEF StreamInv, UserStream!TypeOK, UserStream!Unset
  <2> QED
    BY <1>1, <1>2, <2>2 DEF StreamInv, UserStream!Unset
<1>3. CASE UserStream!Fails /\ neglected' = TRUE /\ UNCHANGED <<age, mark>>
  <2>1. UserStream!TypeOK'
    BY <1>1, <1>3, StreamFails DEF StreamInv, UserStream!TypeOK
  <2> QED
    BY <1>3, <2>1 DEF StreamInv
<1> QED
  BY <1>2, <1>3 DEF UserStream!Replace, UserStream!Reconnect, UserStream!Refreshed

LEMMA StreamKeeps == ASSUME StreamInv, [UserStream!Next]_StreamVars PROVE StreamInv'
<1>1. CASE UNCHANGED StreamVars
  BY <1>1 DEF StreamInv, UserStream!TypeOK, StreamVars, UserStream!Unset
<1>2. CASE UserStream!Connect \/ UserStream!Expired
  <2>1. /\ at # "timeout" /\ at' \in {"connect", "receive", "broken"} /\ expired' \in BOOLEAN
        /\ UNCHANGED <<mark, age, failures, neglected>>
    BY <1>2 DEF UserStream!Connect, UserStream!Expired, StreamInv, UserStream!TypeOK
  <2> QED
    BY <2>1 DEF StreamInv, UserStream!TypeOK, UserStream!Unset
<1>3. CASE UserStream!Break
  <2>1. /\ at # "timeout" /\ at' = "broken" /\ failures' \in 0..MaxFailures
        /\ UNCHANGED <<expired, mark, age, neglected>>
    BY <1>3, StreamFails DEF UserStream!Break
  <2> QED
    BY <2>1 DEF StreamInv, UserStream!TypeOK, UserStream!Unset
<1> QED
  BY <1>1, <1>2, <1>3, StreamUnit, StreamKeepalive, StreamRefresh
     DEF UserStream!Next, UserStream!Step

LEMMA StreamQuiet == ASSUME StreamInv PROVE UserStream!QuietKeysLive
  BY StreamTypes DEF StreamInv, UserStream!QuietKeysLive

-----------------------------------------------------------------------------
(* The thread that syncs fills *)

Rounds == [pc : {"sleep", "read", "fetch", "log", "mark"}, sym : Nat, since : 0..MaxTrades,
           known : SUBSET SyncEngine!Ids, max : 0..MaxTrades, batch : SUBSET SyncEngine!Ids]

\* A trade that was logged once more than rounds broke off is remembered, by the
\* round while it logs, and by the store before and after.
Remembered ==
    \A i \in SyncEngine!Ids : logged[i] > breaks =>
        /\ sync.pc \in {"sleep", "read", "mark"} => i \in known
        /\ sync.pc \in {"fetch", "log"} => i \in sync.known

SyncInv ==
    /\ SyncEngine!TypeOK
    /\ sync \in Rounds
    /\ SyncEngine!LoggedOncePerBreak
    /\ Remembered

LEMMA SyncTypes ==
    ASSUME SyncInv
    PROVE  /\ trades \in Seq(Symbols) /\ Len(trades) \in Nat /\ Len(trades) <= MaxTrades
           /\ logged \in [SyncEngine!Ids -> Nat]
           /\ known \subseteq SyncEngine!Ids /\ since \in 0..MaxTrades
           /\ drift \in BOOLEAN /\ breaks \in 0..MaxBreaks /\ misses \in 0..MaxMisses
           /\ sync \in Rounds /\ breaks \in Nat
  BY DEF SyncInv, SyncEngine!TypeOK

LEMMA SleepingIs == ASSUME MaxTrades \in Nat PROVE SyncEngine!Sleeping \in Rounds /\ SyncEngine!Sleeping.pc = "sleep"
<1>1. 0 \in Nat /\ 0 \in 0..MaxTrades
  OBVIOUS
<1> QED
  BY <1>1 DEF SyncEngine!Sleeping, Rounds

LEMMA SyncInit == ASSUME SyncEngine!Init PROVE SyncInv
<1>1. /\ MaxTrades \in Nat /\ 0 \in Nat /\ 0 \in 0..MaxTrades /\ 0 \in 0..MaxBreaks
      /\ 0 \in 0..MaxMisses
  BY ServicesBounds
<1>2. sync = SyncEngine!Sleeping /\ sync \in Rounds /\ sync.pc = "sleep"
  BY <1>1, SleepingIs DEF SyncEngine!Init
<1>3. trades \in Seq(Symbols) /\ Len(trades) = 0
  BY DEF SyncEngine!Init
<1>4. logged \in [SyncEngine!Ids -> Nat] /\ \A i \in SyncEngine!Ids : logged[i] = 0
  BY <1>1 DEF SyncEngine!Init
<1>5. SyncEngine!TypeOK
  <2>1. /\ sync.known \subseteq SyncEngine!Ids /\ sync.max \in 0..MaxTrades
        /\ sync.batch \subseteq SyncEngine!Ids
    BY <1>2 DEF Rounds
  <2>2. /\ known = {} /\ since = 0 /\ drift = FALSE /\ breaks = 0 /\ misses = 0
    BY DEF SyncEngine!Init
  <2>3. Len(trades) <= MaxTrades
    BY <1>1, <1>3
  <2> QED
    BY <1>1, <1>3, <1>4, <2>1, <2>2, <2>3 DEF SyncEngine!TypeOK
<1>6. SyncEngine!LoggedOncePerBreak /\ Remembered
  BY <1>4 DEF SyncEngine!Init, SyncEngine!LoggedOncePerBreak, Remembered
<1> QED
  BY <1>2, <1>5, <1>6 DEF SyncInv

\* Steps that log nothing and break nothing off.
LEMMA SyncStepKeeps ==
    ASSUME SyncInv, UNCHANGED <<logged, breaks>>, sync' \in Rounds,
           trades' \in Seq(Symbols), Len(trades') <= MaxTrades,
           known' \subseteq SyncEngine!Ids, since' \in 0..MaxTrades,
           drift' \in BOOLEAN, misses' \in 0..MaxMisses, Remembered'
    PROVE  SyncInv'
<1>1. SyncEngine!TypeOK'
  BY SyncTypes DEF SyncEngine!TypeOK, Rounds
<1>2. SyncEngine!LoggedOncePerBreak'
  BY DEF SyncInv, SyncEngine!LoggedOncePerBreak
<1> QED
  BY <1>1, <1>2 DEF SyncInv

LEMMA ReturnedIs ==
    ASSUME SyncInv, NEW s
    PROVE  SyncEngine!Returned(s) \subseteq SyncEngine!Ids
<1>1. \A from : SyncEngine!Of(s, from) \subseteq SyncEngine!Ids
  BY SyncTypes, ServicesBounds DEF SyncEngine!Of, SyncEngine!Ids
<1> QED
  BY <1>1 DEF SyncEngine!Returned, SyncEngine!Oldest, SyncEngine!Newest

LEMMA MissIs ==
    ASSUME SyncInv, misses < MaxMisses, misses' = misses + 1
    PROVE  misses' \in 0..MaxMisses
  BY SyncTypes, ServicesBounds

LEMMA OutsideKeeps ==
    ASSUME SyncInv, (\E s \in Symbols : SyncEngine!Trade(s)) \/ SyncEngine!Drifts \/ SyncEngine!DriftEnds
    PROVE  SyncInv'
<1>1. UNCHANGED <<logged, known, since, sync, breaks>>
  BY DEF SyncEngine!Trade, SyncEngine!Drifts, SyncEngine!DriftEnds
<1>2. trades' \in Seq(Symbols) /\ Len(trades') <= MaxTrades
  <2>1. CASE \E s \in Symbols : SyncEngine!Trade(s)
    <3>1. PICK s \in Symbols : Len(trades) < MaxTrades /\ trades' = Append(trades, s)
      BY <2>1 DEF SyncEngine!Trade
    <3>2. Len(trades') = Len(trades) + 1 /\ trades' \in Seq(Symbols)
      BY <3>1, SyncTypes
    <3> QED
      BY <3>1, <3>2, SyncTypes, ServicesBounds
  <2>2. CASE trades' = trades
    BY <2>2, SyncTypes
  <2> QED
    BY <2>1, <2>2 DEF SyncEngine!Drifts, SyncEngine!DriftEnds
<1>3. drift' \in BOOLEAN /\ misses' \in 0..MaxMisses
  <2>1. CASE SyncEngine!Drifts
    BY <2>1, MissIs DEF SyncEngine!Drifts
  <2>2. CASE misses' = misses /\ drift' \in {drift, FALSE}
    BY <2>2, SyncTypes
  <2> QED
    BY <2>1, <2>2 DEF SyncEngine!Trade, SyncEngine!DriftEnds
<1>4. Remembered'
  BY <1>1 DEF SyncInv, Remembered
<1> QED
  BY <1>1, <1>2, <1>3, <1>4, SyncTypes, SyncStepKeeps

LEMMA ReadKeeps == ASSUME SyncInv, SyncEngine!Positions \/ SyncEngine!ReadMeta PROVE SyncInv'
<1>1. UNCHANGED <<trades, logged, known, since, drift, breaks, misses>>
  BY DEF SyncEngine!Positions, SyncEngine!ReadMeta
<1>2. CASE SyncEngine!Positions
  <2>1. sync' \in Rounds /\ sync.pc = "sleep" /\ sync'.pc = "read"
    BY <1>2, SyncTypes DEF SyncEngine!Positions, Rounds
  <2>2. Remembered'
    BY <1>1, <2>1 DEF SyncInv, Remembered
  <2> QED
    BY <1>1, <2>1, <2>2, SyncTypes, SyncStepKeeps
<1>3. CASE SyncEngine!ReadMeta
  <2>1. sync' = [sync EXCEPT !.pc = "fetch", !.sym = 1, !.since = since, !.max = since,
                             !.known = known, !.batch = {}] /\ sync.pc = "read"
    BY <1>3 DEF SyncEngine!ReadMeta
  <2>2. sync' \in Rounds /\ sync'.pc = "fetch" /\ sync'.known = known
    BY <2>1, SyncTypes DEF Rounds
  <2>3. Remembered'
    BY <1>1, <2>1, <2>2 DEF SyncInv, Remembered
  <2> QED
    BY <1>1, <2>2, <2>3, SyncTypes, SyncStepKeeps
<1> QED
  BY <1>2, <1>3

LEMMA FetchKeeps == ASSUME SyncInv, SyncEngine!Fetch \/ SyncEngine!FetchFails PROVE SyncInv'
<1>1. UNCHANGED <<trades, logged, known, since, drift, breaks>> /\ sync.pc = "fetch"
  BY DEF SyncEngine!Fetch, SyncEngine!FetchFails
<1>2. PICK more \in SUBSET SyncEngine!Ids :
        sync' = [sync EXCEPT !.pc = SyncEngine!AfterFetch, !.sym = sync.sym + 1,
                             !.batch = sync.batch \union more]
  <2>1. CASE SyncEngine!Fetch
    BY <2>1, ReturnedIs, SyncTypes DEF SyncEngine!Fetch, Rounds
  <2>2. CASE SyncEngine!FetchFails
    <3>1. sync' = [sync EXCEPT !.pc = SyncEngine!AfterFetch, !.sym = sync.sym + 1]
      BY <2>2, SyncTypes DEF SyncEngine!FetchFails, Rounds
    <3>2. sync' = [sync EXCEPT !.pc = SyncEngine!AfterFetch, !.sym = sync.sym + 1,
                               !.batch = sync.batch \union {}]
      BY <3>1, SyncTypes DEF Rounds
    <3> QED
      BY <3>2
  <2> QED
    BY <2>1, <2>2
<1>3. SyncEngine!AfterFetch \in {"fetch", "log"}
  BY DEF SyncEngine!AfterFetch
<1>4. /\ sync' \in Rounds /\ sync'.pc \in {"fetch", "log"} /\ sync'.known = sync.known
  <2>1. sync \in Rounds /\ sync.sym + 1 \in Nat /\ sync.batch \union more \subseteq SyncEngine!Ids
    BY SyncTypes DEF Rounds
  <2> HIDE DEF SyncEngine!AfterFetch
  <2> QED
    BY <1>2, <1>3, <2>1 DEF Rounds
<1>5. Remembered'
  BY <1>1, <1>4 DEF SyncInv, Remembered
<1>6. misses' \in 0..MaxMisses
  <2>1. CASE SyncEngine!FetchFails
    BY <2>1, MissIs DEF SyncEngine!FetchFails
  <2>2. CASE misses' = misses
    BY <2>2, SyncTypes
  <2> QED
    BY <2>1, <2>2 DEF SyncEngine!Fetch
<1> QED
  BY <1>1, <1>4, <1>5, <1>6, SyncTypes, SyncStepKeeps

\* A trade that is not in "known" is logged, and is in it from then on.
LEMMA LogKeeps == ASSUME SyncInv, SyncEngine!Log PROVE SyncInv'
<1>1. /\ UNCHANGED <<trades, known, since, drift, breaks, misses>> /\ sync.pc = "log"
      /\ sync \in Rounds /\ logged \in [SyncEngine!Ids -> Nat] /\ breaks \in Nat
  BY SyncTypes DEF SyncEngine!Log
<1>2. PICK i \in SyncEngine!Ids :
        /\ sync' = [sync EXCEPT !.batch = @ \ {i}, !.max = SyncEngine!Larger(@, i),
                                !.known = @ \union {i}]
        /\ logged' = IF i \in sync.known THEN logged ELSE [logged EXCEPT ![i] = @ + 1]
  <2>1. SyncEngine!FirstOf(sync.batch) \subseteq SyncEngine!Ids
    BY <1>1 DEF SyncEngine!FirstOf, Rounds
  <2> QED
    BY <2>1 DEF SyncEngine!Log
<1>3. SyncEngine!Larger(sync.max, i) \in 0..MaxTrades
  BY <1>1 DEF SyncEngine!Larger, SyncEngine!Ids, Rounds
<1>4. sync' \in Rounds /\ sync'.pc = "log" /\ sync'.known = sync.known \union {i}
  BY <1>1, <1>2, <1>3 DEF Rounds
<1>5. /\ logged' \in [SyncEngine!Ids -> Nat]
      /\ \A j \in SyncEngine!Ids : logged'[j] = logged[j] \/ (j = i /\ i \notin sync.known /\ logged'[j] = logged[j] + 1)
  BY <1>1, <1>2
<1>6. \A j \in SyncEngine!Ids : logged[j] <= 1 + breaks /\ (logged[j] > breaks => j \in sync.known)
  BY <1>1 DEF SyncInv, SyncEngine!LoggedOncePerBreak, Remembered
<1>7. SyncEngine!LoggedOncePerBreak' /\ Remembered'
  <2>1. \A j \in SyncEngine!Ids : logged[j] \in Nat
    BY <1>1
  <2> QED
    BY <1>1, <1>4, <1>5, <1>6, <2>1 DEF SyncEngine!LoggedOncePerBreak, Remembered
<1>8. SyncEngine!TypeOK'
  BY <1>1, <1>4, <1>5, SyncTypes DEF SyncEngine!TypeOK, Rounds
<1> QED
  BY <1>4, <1>7, <1>8 DEF SyncInv

LEMMA StoreKeeps == ASSUME SyncInv, SyncEngine!StoreKnown \/ SyncEngine!StoreSince PROVE SyncInv'
<1>1. UNCHANGED <<trades, logged, drift, breaks, misses>> /\ sync \in Rounds
  BY SyncTypes DEF SyncEngine!StoreKnown, SyncEngine!StoreSince
<1>2. CASE SyncEngine!StoreKnown
  <2>1. sync.pc = "log" /\ known' = sync.known /\ since' = since
    BY <1>2 DEF SyncEngine!StoreKnown
  <2>2. sync' \in Rounds /\ sync'.pc = "mark"
    BY <1>1, <1>2 DEF SyncEngine!StoreKnown, Rounds
  <2>3. Remembered'
    BY <1>1, <2>1, <2>2 DEF SyncInv, Remembered
  <2>4. known' \subseteq SyncEngine!Ids
    BY <1>1, <2>1 DEF Rounds
  <2> QED
    BY <1>1, <2>1, <2>2, <2>3, <2>4, SyncTypes, SyncStepKeeps
<1>3. CASE SyncEngine!StoreSince
  <2>1. sync.pc = "mark" /\ known' = known /\ since' = sync.max /\ sync' = SyncEngine!Sleeping
    BY <1>3 DEF SyncEngine!StoreSince
  <2>2. sync' \in Rounds /\ sync'.pc = "sleep"
    BY <2>1, SleepingIs, ServicesBounds
  <2>3. Remembered'
    BY <1>1, <2>1, <2>2 DEF SyncInv, Remembered
  <2>4. since' \in 0..MaxTrades
    BY <1>1, <2>1 DEF Rounds
  <2> QED
    BY <1>1, <2>1, <2>2, <2>3, <2>4, SyncTypes, SyncStepKeeps
<1> QED
  BY <1>2, <1>3

\* A round that breaks off may forget what it has logged: that is the one more.
LEMMA BreakKeeps == ASSUME SyncInv, SyncEngine!Break PROVE SyncInv'
<1>1. /\ UNCHANGED <<trades, logged, known, since, drift, misses>>
      /\ breaks < MaxBreaks /\ breaks' = breaks + 1 /\ sync' = SyncEngine!Sleeping
  BY DEF SyncEngine!Break
<1>2. sync' \in Rounds
  BY <1>1, SleepingIs, ServicesBounds
<1>3. breaks' \in 0..MaxBreaks /\ breaks \in Nat /\ breaks' = breaks + 1
  BY <1>1, SyncTypes, ServicesBounds
<1>4. \A i \in SyncEngine!Ids : logged'[i] \in Nat /\ logged'[i] <= breaks'
  <2>1. \A i \in SyncEngine!Ids : logged[i] \in Nat /\ logged[i] <= 1 + breaks
    BY SyncTypes DEF SyncInv, SyncEngine!LoggedOncePerBreak
  <2> QED
    BY <1>1, <1>3, <2>1
<1>5. SyncEngine!LoggedOncePerBreak' /\ Remembered'
  BY <1>1, <1>3, <1>4 DEF SyncEngine!LoggedOncePerBreak, Remembered
<1>6. SyncEngine!TypeOK'
  BY <1>1, <1>2, <1>3, SyncTypes DEF SyncEngine!TypeOK, Rounds
<1> QED
  BY <1>2, <1>5, <1>6 DEF SyncInv

LEMMA SyncKeeps == ASSUME SyncInv, [SyncEngine!Next]_SyncVars PROVE SyncInv'
<1>1. CASE UNCHANGED SyncVars
  <2>1. UNCHANGED <<trades, logged, known, since, sync, drift, breaks, misses>>
    BY <1>1 DEF SyncVars
  <2>2. Remembered'
    BY <2>1 DEF SyncInv, Remembered
  <2> QED
    BY <2>1, <2>2, SyncTypes, SyncStepKeeps
<1> QED
  BY <1>1, OutsideKeeps, ReadKeeps, FetchKeeps, LogKeeps, StoreKeeps, BreakKeeps
     DEF SyncEngine!Next, SyncEngine!Round

-----------------------------------------------------------------------------
(* The control file *)

Writings == [pc : {"idle", "open", "write", "replace"}, set : SUBSET ControlFile!Flags,
             clear : SUBSET ControlFile!Flags, cur : SUBSET ControlFile!Flags,
             fd : ControlFile!Files \union {0}]

\* The two names are of two files, and a torn file has somebody who writes it.
FilesSound ==
    /\ link["tmp"] # 0 => link["tmp"] # link["control"]
    /\ \A p \in ControlFile!Writers : writer[p].pc = "write" <=> writer[p].fd # 0
    /\ \A i \in ControlFile!Files : file[i] = ControlFile!Torn =>
          \E p \in ControlFile!Writers : writer[p].pc = "write" /\ writer[p].fd = i

\* Without an overlap one writer at most is busy; it will write what is owed and
\* its own change, to the file that has the name; and until a bot truncates the
\* control file, what is owed is in it.
AloneSound ==
    /\ \A p, q \in ControlFile!Writers : ControlFile!Busy(p) /\ ControlFile!Busy(q) => p = q
    /\ \A p \in ControlFile!Writers : ControlFile!Busy(p) =>
          /\ (owed \ writer[p].clear) \union writer[p].set \subseteq writer[p].cur
          /\ writer[p].pc = "write" => /\ file[writer[p].fd] = ControlFile!Torn
                                       /\ writer[p].fd = link[ControlFile!Target(p)]
          /\ writer[p].pc = "replace" => link["tmp"] # 0 /\ file[link["tmp"]] = writer[p].cur
    /\ (\A p \in ControlFile!Writers : writer[p].pc = "write" => p \in Savers) =>
          owed \subseteq ControlFile!Current

ControlInv ==
    /\ ControlFile!TypeOK
    /\ writer \in [ControlFile!Writers -> Writings]
    /\ FilesSound
    /\ alone => AloneSound

LEMMA ControlTypes ==
    ASSUME ControlInv
    PROVE  /\ link \in [{"control", "tmp"} -> ControlFile!Files \union {0}]
           /\ file \in [ControlFile!Files -> (SUBSET ControlFile!Flags) \union {ControlFile!Torn}]
           /\ writer \in [ControlFile!Writers -> Writings]
           /\ \A p \in ControlFile!Writers : writer[p] \in Writings
           /\ begun \in 0..MaxRequests /\ owed \subseteq ControlFile!Flags /\ alone \in BOOLEAN
  BY DEF ControlInv, ControlFile!TypeOK

LEMMA FlagsAreNotTorn == ASSUME NEW S \in SUBSET ControlFile!Flags PROVE S # ControlFile!Torn
<1>1. "torn" \in ControlFile!Torn /\ "torn" \notin ControlFile!Flags
  BY DEF ControlFile!Torn, ControlFile!Flags
<1> QED
  BY <1>1

LEMMA FilesAreNotZero == 0 \notin ControlFile!Files
  BY DEF ControlFile!Files

LEMMA UpdateIs ==
    ASSUME NEW r \in Requests
    PROVE  /\ ControlFile!Update(r).set \subseteq ControlFile!Flags
           /\ ControlFile!Update(r).clear \subseteq ControlFile!Flags
<1>1. r \in {"kill", "pause", "noNew", "resume", "botPause", "botResume"}
  BY ServicesBounds
<1> QED
  BY <1>1 DEF ControlFile!Update, ControlFile!Flags

LEMMA CurrentIs == ASSUME ControlInv PROVE ControlFile!Current \in SUBSET ControlFile!Flags
<1>1. link["control"] \in ControlFile!Files \union {0}
  BY ControlTypes
<1>2. link["control"] # 0 =>
        file[link["control"]] \in (SUBSET ControlFile!Flags) \union {ControlFile!Torn}
  BY <1>1, ControlTypes
<1> QED
  BY <1>2 DEF ControlFile!Current

\* There is always a file object that nothing refers to: the two names and the
\* descriptors of the other writers are fewer than the objects.
LEMMA NewFileIs ==
    ASSUME ControlInv, NEW p \in ControlFile!Writers, writer[p].fd = 0
    PROVE  /\ ControlFile!NewFile \in ControlFile!Files
           /\ ControlFile!NewFile # link["control"] /\ ControlFile!NewFile # link["tmp"]
           /\ \A q \in ControlFile!Writers : writer[q].fd # ControlFile!NewFile
<1> DEFINE W == ControlFile!Writers
           fds == {writer[q].fd : q \in W}
           used == fds \union {link["control"], link["tmp"]}
<1>1. IsFiniteSet(W) /\ Cardinality(W) \in Nat
  BY ServicesBounds, FS_Union, FS_CardinalityType DEF ControlFile!Writers
<1>2. IsFiniteSet(fds) /\ Cardinality(fds) <= Cardinality(W) /\ Cardinality(fds) \in Nat
  <2>1. fds = {writer[q].fd : q \in W}
    OBVIOUS
  <2> DEFINE f == [q \in W |-> writer[q].fd]
  <2>2. f \in Surjection(W, fds)
    <3>1. f \in [W -> fds]
      OBVIOUS
    <3>2. \A t \in fds : \E q \in W : f[q] = t
      OBVIOUS
    <3> QED
      BY <3>1, <3>2 DEF Surjection
  <2> QED
    BY <1>1, <2>2, FS_Surjection, FS_CardinalityType
<1>3. /\ IsFiniteSet({link["control"], link["tmp"]})
      /\ Cardinality({link["control"], link["tmp"]}) \in 0..2
  <2>1. IsFiniteSet({link["control"]}) /\ Cardinality({link["control"]}) = 1
    BY FS_Singleton
  <2>2. {link["control"], link["tmp"]} = {link["control"]} \union {link["tmp"]}
    OBVIOUS
  <2>3. /\ IsFiniteSet({link["control"]} \union {link["tmp"]})
        /\ Cardinality({link["control"]} \union {link["tmp"]}) \in {1, 2}
    BY <2>1, FS_AddElement
  <2> QED
    BY <2>2, <2>3
<1>4. /\ IsFiniteSet(used) /\ Cardinality(used) \in Nat
      /\ Cardinality(used) <= Cardinality(W) + 2
  <2>1. /\ IsFiniteSet(used)
        /\ Cardinality(used) = Cardinality(fds) + Cardinality({link["control"], link["tmp"]})
             - Cardinality(fds \intersect {link["control"], link["tmp"]})
    BY <1>2, <1>3, FS_Union
  <2>2. Cardinality(fds \intersect {link["control"], link["tmp"]}) \in Nat
    BY <1>2, FS_Subset, FS_CardinalityType
  <2>3. Cardinality(used) \in Nat
    BY <2>1, FS_CardinalityType
  <2> HIDE DEF used, fds
  <2> QED
    BY <1>1, <1>2, <1>3, <2>1, <2>2, <2>3
<1>5. /\ IsFiniteSet(ControlFile!Files) /\ Cardinality(ControlFile!Files) = Cardinality(W) + 2
  <2> DEFINE n == Cardinality(W) + 2
  <2>1. n \in Int /\ n >= 1
    BY <1>1
  <2> HIDE DEF n
  <2>2. IsFiniteSet(1..n) /\ Cardinality(1..n) = n
    BY <2>1, FS_Interval
  <2>3. ControlFile!Files = 1..n
    BY DEF ControlFile!Files, ControlFile!Cardinality, Cardinality, n
  <2> QED
    BY <2>2, <2>3 DEF n
<1>6. ~(ControlFile!Files \subseteq used)
  <2>1. SUFFICES ASSUME ControlFile!Files \subseteq used PROVE FALSE
    OBVIOUS
  <2>2. 0 \in used /\ 0 \notin ControlFile!Files
    BY FilesAreNotZero
  <2>3. ControlFile!Files \subseteq used \ {0}
    BY <2>1, <2>2
  <2>4. /\ IsFiniteSet(used \ {0}) /\ Cardinality(used \ {0}) = Cardinality(used) - 1
    BY <1>4, <2>2, FS_RemoveElement
  <2>5. Cardinality(ControlFile!Files) <= Cardinality(used) - 1
    BY <2>3, <2>4, FS_Subset
  <2> QED
    BY <1>1, <1>4, <1>5, <2>5
<1>7. PICK i \in ControlFile!Files : i \notin used
  BY <1>6
<1>8. i \notin {link["control"], link["tmp"]} /\ \A q \in ControlFile!Writers : writer[q].fd # i
  BY <1>7
<1> QED
  BY <1>8 DEF ControlFile!NewFile

LEMMA IdleIs == ControlFile!Idle \in Writings /\ ControlFile!Idle.pc = "idle" /\ ControlFile!Idle.fd = 0
  BY DEF ControlFile!Idle, Writings

LEMMA ControlInit == ASSUME ControlFile!Init PROVE ControlInv
<1>1. 0 \in 0..MaxRequests
  BY ServicesBounds
<1>2. \A p \in ControlFile!Writers : writer[p] = ControlFile!Idle
  BY DEF ControlFile!Init
<1>3. writer \in [ControlFile!Writers -> Writings]
  BY IdleIs DEF ControlFile!Init
<1>4. link["control"] = 0 /\ link["tmp"] = 0
  BY DEF ControlFile!Init
<1>5. ControlFile!TypeOK
  <2>1. \A p \in ControlFile!Writers :
          writer[p].cur \subseteq ControlFile!Flags /\ writer[p].fd \in ControlFile!Files \union {0}
    BY <1>2, IdleIs DEF Writings
  <2> QED
    BY <1>1, <2>1 DEF ControlFile!Init, ControlFile!TypeOK
<1>6. FilesSound
  <2>1. \A i \in ControlFile!Files : file[i] # ControlFile!Torn
    BY FlagsAreNotTorn DEF ControlFile!Init
  <2> QED
    BY <1>2, <1>4, <2>1, IdleIs DEF FilesSound
<1>7. AloneSound
  BY <1>2, IdleIs DEF AloneSound, ControlFile!Busy, ControlFile!Init
<1> QED
  BY <1>3, <1>5, <1>6, <1>7 DEF ControlInv

LEMMA ControlTypeOK ==
    ASSUME link' \in [{"control", "tmp"} -> ControlFile!Files \union {0}],
           file' \in [ControlFile!Files -> (SUBSET ControlFile!Flags) \union {ControlFile!Torn}],
           writer' \in [ControlFile!Writers -> Writings],
           begun' \in 0..MaxRequests, owed' \subseteq ControlFile!Flags, alone' \in BOOLEAN
    PROVE  ControlFile!TypeOK'
<1>1. \A p \in ControlFile!Writers :
        writer'[p].cur \subseteq ControlFile!Flags /\ writer'[p].fd \in ControlFile!Files \union {0}
  BY DEF Writings
<1> QED
  BY <1>1 DEF ControlFile!TypeOK

LEMMA ReadControlKeeps ==
    ASSUME ControlInv, NEW p \in ControlFile!Writers, ControlFile!Read(p)
    PROVE  ControlInv'
<1>1. PICK r \in Requests :
        writer' = [writer EXCEPT ![p] =
            [pc |-> "open", set |-> ControlFile!Update(r).set, clear |-> ControlFile!Update(r).clear,
             cur |-> (ControlFile!Current \ ControlFile!Update(r).clear) \union ControlFile!Update(r).set,
             fd |-> 0]]
  BY DEF ControlFile!Read, ControlFile!Asks
<1>2. /\ UNCHANGED <<link, file, owed>> /\ writer[p].pc = "idle" /\ begun' \in 0..MaxRequests
      /\ alone' = (alone /\ \A q \in ControlFile!Writers : ~ControlFile!Busy(q))
  BY ControlTypes, ServicesBounds DEF ControlFile!Read, ControlFile!Busy
<1> DEFINE w == [pc |-> "open", set |-> ControlFile!Update(r).set, clear |-> ControlFile!Update(r).clear,
             cur |-> (ControlFile!Current \ ControlFile!Update(r).clear) \union ControlFile!Update(r).set,
             fd |-> 0]
<1>3. /\ w \in Writings /\ w.pc = "open" /\ w.fd = 0
      /\ w.cur = (ControlFile!Current \ w.clear) \union w.set
  BY UpdateIs, CurrentIs DEF Writings
<1>4. writer' = [writer EXCEPT ![p] = w]
  BY <1>1
<1> HIDE DEF w
<1>5. /\ writer' \in [ControlFile!Writers -> Writings]
      /\ \A q \in ControlFile!Writers : writer'[q] = IF q = p THEN w ELSE writer[q]
  BY <1>3, <1>4, ControlTypes
<1>6. ControlFile!TypeOK'
  BY <1>2, <1>5, ControlTypes, ControlTypeOK
<1>7. FilesSound'
  BY <1>2, <1>3, <1>5 DEF ControlInv, FilesSound
<1>8. ASSUME alone' PROVE AloneSound'
  <2>1. alone /\ \A q \in ControlFile!Writers : writer[q].pc = "idle"
    BY <1>2, <1>8, ControlTypes DEF ControlFile!Busy
  <2>2. owed \subseteq ControlFile!Current
    BY <2>1 DEF ControlInv, AloneSound
  <2>3. ControlFile!Current' = ControlFile!Current
    BY <1>2 DEF ControlFile!Current
  <2>4. \A q \in ControlFile!Writers : ControlFile!Busy(q)' => q = p
    BY <1>5, <2>1 DEF ControlFile!Busy
  <2>5. (owed' \ w.clear) \union w.set \subseteq w.cur
    BY <1>2, <1>3, <2>2
  <2> QED
    BY <1>2, <1>3, <1>5, <2>2, <2>3, <2>4, <2>5 DEF AloneSound
<1> QED
  BY <1>5, <1>6, <1>7, <1>8 DEF ControlInv

LEMMA OpenKeeps ==
    ASSUME ControlInv, NEW p \in ControlFile!Writers, ControlFile!Open(p)
    PROVE  ControlInv'
<1> DEFINE n == ControlFile!Target(p)
           i == IF link[n] = 0 THEN ControlFile!NewFile ELSE link[n]
<1>1. /\ writer[p].pc = "open" /\ UNCHANGED <<begun, owed, alone>>
      /\ link' = [link EXCEPT ![n] = i]
      /\ file' = [file EXCEPT ![i] = ControlFile!Torn]
      /\ writer' = [writer EXCEPT ![p] = [writer[p] EXCEPT !.pc = "write", !.fd = i]]
  BY DEF ControlFile!Open
<1>2. n \in {"control", "tmp"} /\ (n = "tmp" <=> p \in Savers)
  BY DEF ControlFile!Target
<1>3. /\ i \in ControlFile!Files
      /\ \A m \in {"control", "tmp"} : m # n => i # link[m]
  <2>1. CASE link[n] = 0
    <3>1. writer[p].fd = 0
      BY <1>1 DEF ControlInv, FilesSound
    <3> QED
      BY <1>2, <2>1, <3>1, NewFileIs
  <2>2. CASE link[n] # 0
    BY <1>2, <2>2, ControlTypes DEF ControlInv, FilesSound
  <2> QED
    BY <2>1, <2>2
<1> HIDE DEF i, n
<1> DEFINE w == [writer[p] EXCEPT !.pc = "write", !.fd = i]
<1>4. /\ w \in Writings /\ w.pc = "write" /\ w.fd = i
      /\ w.set = writer[p].set /\ w.clear = writer[p].clear /\ w.cur = writer[p].cur
  BY <1>3, ControlTypes DEF Writings
<1>5. writer' = [writer EXCEPT ![p] = w]
  BY <1>1
<1> HIDE DEF w
<1>6. /\ writer' \in [ControlFile!Writers -> Writings]
      /\ \A q \in ControlFile!Writers : writer'[q] = IF q = p THEN w ELSE writer[q]
  BY <1>4, <1>5, ControlTypes
<1>7. /\ link' \in [{"control", "tmp"} -> ControlFile!Files \union {0}]
      /\ link'[n] = i /\ \A m \in {"control", "tmp"} : m # n => link'[m] = link[m]
      /\ file' \in [ControlFile!Files -> (SUBSET ControlFile!Flags) \union {ControlFile!Torn}]
      /\ file'[i] = ControlFile!Torn
      /\ \A j \in ControlFile!Files : j # i => file'[j] = file[j]
  BY <1>1, <1>2, <1>3, ControlTypes
<1>8. ControlFile!TypeOK'
  BY <1>1, <1>6, <1>7, ControlTypes, ControlTypeOK
<1>9. FilesSound'
  <2>1. i # 0
    BY <1>3, FilesAreNotZero
  <2>2. link'["tmp"] # 0 => link'["tmp"] # link'["control"]
    BY <1>2, <1>3, <1>7 DEF ControlInv, FilesSound
  <2>3. \A q \in ControlFile!Writers : writer'[q].pc = "write" <=> writer'[q].fd # 0
    BY <1>4, <1>6, <2>1 DEF ControlInv, FilesSound
  <2>4. ASSUME NEW j \in ControlFile!Files, file'[j] = ControlFile!Torn
        PROVE  \E q \in ControlFile!Writers : writer'[q].pc = "write" /\ writer'[q].fd = j
    <3>1. CASE j = i
      BY <1>4, <1>6, <3>1
    <3>2. CASE j # i
      <4>1. PICK q \in ControlFile!Writers : writer[q].pc = "write" /\ writer[q].fd = j
        BY <1>7, <2>4, <3>2 DEF ControlInv, FilesSound
      <4>2. q # p
        BY <1>1, <4>1
      <4> QED
        BY <1>6, <4>1, <4>2
    <3> QED
      BY <3>1, <3>2
  <2> QED
    BY <2>2, <2>3, <2>4 DEF FilesSound
<1>10. ASSUME alone' PROVE AloneSound'
  <2>1. AloneSound /\ owed' = owed
    BY <1>1, <1>10 DEF ControlInv
  <2>2. ControlFile!Busy(p) /\ \A q \in ControlFile!Writers : ControlFile!Busy(q)' => ControlFile!Busy(q)
    BY <1>1, <1>6 DEF ControlFile!Busy
  <2>3. \A q \in ControlFile!Writers : ControlFile!Busy(q)' => q = p
    BY <2>1, <2>2 DEF AloneSound
  <2>4. writer'[p] = w /\ (owed' \ w.clear) \union w.set \subseteq w.cur
    BY <1>4, <1>6, <2>1, <2>2 DEF AloneSound
  <2>5. ControlFile!Target(p)' = n
    BY DEF ControlFile!Target, n
  <2>6. (\A q \in ControlFile!Writers : writer'[q].pc = "write" => q \in Savers) =>
           owed' \subseteq ControlFile!Current'
    <3>1. SUFFICES ASSUME p \in Savers PROVE owed' \subseteq ControlFile!Current'
      BY <1>4, <2>4
    <3>2. link'["control"] = link["control"] /\ link["control"] # i
      BY <1>2, <1>3, <1>7, <3>1
    <3>3. ControlFile!Current' = ControlFile!Current
      BY <1>7, <3>2, ControlTypes DEF ControlFile!Current
    <3>4. \A q \in ControlFile!Writers : writer[q].pc = "write" => q \in Savers
      BY <2>1, <2>2, <3>1 DEF AloneSound, ControlFile!Busy
    <3> QED
      BY <2>1, <3>3, <3>4 DEF AloneSound
  <2> QED
    BY <1>4, <1>7, <2>3, <2>4, <2>5, <2>6 DEF AloneSound
<1> QED
  BY <1>6, <1>8, <1>9, <1>10 DEF ControlInv

\* A writer that ends: who is alone then, and what is owed.
LEMMA EndsIs ==
    ASSUME ControlInv, NEW p \in ControlFile!Writers, ControlFile!Ends(p)
    PROVE  /\ writer' \in [ControlFile!Writers -> Writings]
           /\ \A q \in ControlFile!Writers :
                 writer'[q] = IF q = p THEN ControlFile!Idle ELSE writer[q]
           /\ owed' \subseteq ControlFile!Flags /\ alone' \in BOOLEAN
           /\ alone' => \A q \in ControlFile!Writers : writer'[q].pc = "idle"
           /\ ~alone => owed' = {}
           /\ alone => owed' = (owed \ writer[p].clear) \union writer[p].set
<1>1. writer[p].set \subseteq ControlFile!Flags /\ owed \subseteq ControlFile!Flags
  BY ControlTypes DEF Writings
<1> QED
  BY <1>1, IdleIs, ControlTypes DEF ControlFile!Ends, ControlFile!Busy

LEMMA AloneAfterEnd ==
    ASSUME ControlInv, NEW p \in ControlFile!Writers, ControlFile!Ends(p), alone',
           alone => owed' \subseteq ControlFile!Current'
    PROVE  AloneSound'
<1>1. \A q \in ControlFile!Writers : writer'[q].pc = "idle"
  BY EndsIs
<1>2. owed' \subseteq ControlFile!Current'
  BY EndsIs, ControlTypes
<1> QED
  BY <1>1, <1>2 DEF AloneSound, ControlFile!Busy

LEMMA WriteKeeps ==
    ASSUME ControlInv, NEW p \in ControlFile!Writers, ControlFile!Write(p)
    PROVE  ControlInv'
<1> DEFINE i == writer[p].fd
<1>1. /\ writer[p].pc = "write" /\ UNCHANGED <<link, begun>>
      /\ file' = [file EXCEPT ![i] = writer[p].cur]
  BY DEF ControlFile!Write
<1>2. /\ i \in ControlFile!Files /\ writer[p] \in Writings
      /\ writer[p].cur \in SUBSET ControlFile!Flags /\ writer[p].cur # ControlFile!Torn
  BY <1>1, ControlTypes, FlagsAreNotTorn DEF Writings, ControlInv, FilesSound
<1>3. /\ file' \in [ControlFile!Files -> (SUBSET ControlFile!Flags) \union {ControlFile!Torn}]
      /\ file'[i] = writer[p].cur
      /\ \A j \in ControlFile!Files : j # i => file'[j] = file[j]
  BY <1>1, <1>2, ControlTypes
<1> DEFINE w == [writer[p] EXCEPT !.pc = "replace", !.fd = 0]
<1>4. /\ w \in Writings /\ w.pc = "replace" /\ w.fd = 0
      /\ w.set = writer[p].set /\ w.clear = writer[p].clear /\ w.cur = writer[p].cur
  BY <1>2 DEF Writings
<1>5. p \in Savers => writer' = [writer EXCEPT ![p] = w] /\ UNCHANGED <<owed, alone>>
  BY DEF ControlFile!Write
<1>6. p \notin Savers => ControlFile!Ends(p)
  BY DEF ControlFile!Write
<1> HIDE DEF w, i
<1>7. /\ writer' \in [ControlFile!Writers -> Writings]
      /\ \A q \in ControlFile!Writers : q # p => writer'[q] = writer[q]
      /\ writer'[p].pc # "write" /\ writer'[p].fd = 0
      /\ owed' \subseteq ControlFile!Flags /\ alone' \in BOOLEAN
  <2>1. CASE p \in Savers
    BY <1>4, <1>5, <2>1, ControlTypes
  <2>2. CASE p \notin Savers
    BY <1>6, <2>2, EndsIs, IdleIs
  <2> QED
    BY <2>1, <2>2
<1>8. ControlFile!TypeOK'
  BY <1>1, <1>3, <1>7, ControlTypes, ControlTypeOK
<1>9. FilesSound'
  <2>1. ASSUME NEW j \in ControlFile!Files, file'[j] = ControlFile!Torn
        PROVE  \E q \in ControlFile!Writers : writer'[q].pc = "write" /\ writer'[q].fd = j
    <3>1. j # i /\ file[j] = ControlFile!Torn
      BY <1>2, <1>3, <2>1
    <3>2. PICK q \in ControlFile!Writers : writer[q].pc = "write" /\ writer[q].fd = j
      BY <3>1 DEF ControlInv, FilesSound
    <3>3. q # p
      BY <3>1, <3>2 DEF i
    <3> QED
      BY <1>7, <3>2, <3>3
  <2>2. \A q \in ControlFile!Writers : writer'[q].pc = "write" <=> writer'[q].fd # 0
    BY <1>7 DEF ControlInv, FilesSound
  <2> QED
    BY <1>1, <2>1, <2>2 DEF ControlInv, FilesSound
<1>10. alone => /\ i = link[ControlFile!Target(p)] /\ AloneSound
                /\ (owed \ writer[p].clear) \union writer[p].set \subseteq writer[p].cur
                /\ \A q \in ControlFile!Writers : ControlFile!Busy(q) => q = p
  BY <1>1 DEF ControlInv, AloneSound, ControlFile!Busy, i
<1>11. i # 0
  BY <1>2, FilesAreNotZero
<1>12. ASSUME alone' PROVE AloneSound'
  <2>1. CASE p \notin Savers
    <3>1. ASSUME alone PROVE owed' \subseteq ControlFile!Current'
      <4>1. link'["control"] = i
        BY <1>1, <1>10, <2>1, <3>1 DEF ControlFile!Target
      <4>2. ControlFile!Current' = writer[p].cur
        BY <1>2, <1>3, <1>11, <4>1 DEF ControlFile!Current
      <4> QED
        BY <1>6, <1>10, <2>1, <3>1, <4>2, EndsIs
    <3> QED
      BY <1>6, <1>12, <2>1, <3>1, AloneAfterEnd
  <2>2. CASE p \in Savers
    <3>1. /\ alone /\ owed' = owed /\ i = link["tmp"]
          /\ link["control"] # i
      BY <1>5, <1>10, <1>11, <1>12, <2>2 DEF ControlFile!Target, ControlInv, FilesSound
    <3>2. ControlFile!Current' = ControlFile!Current
      BY <1>1, <1>3, <3>1, ControlTypes DEF ControlFile!Current
    <3>3. owed' \subseteq ControlFile!Current'
      BY <1>10, <2>2, <3>1, <3>2 DEF AloneSound, ControlFile!Busy
    <3>4. writer'[p] = w
      BY <1>5, <2>2, ControlTypes
    <3>5. \A q \in ControlFile!Writers : ControlFile!Busy(q)' => q = p
      BY <1>7, <1>10, <3>1 DEF ControlFile!Busy
    <3> QED
      BY <1>1, <1>3, <1>4, <1>10, <1>11, <3>1, <3>3, <3>4, <3>5 DEF AloneSound
  <2> QED
    BY <2>1, <2>2
<1> QED
  BY <1>7, <1>8, <1>9, <1>12 DEF ControlInv

LEMMA ReplaceKeeps ==
    ASSUME ControlInv, NEW p \in ControlFile!Writers, ControlFile!Replace(p)
    PROVE  ControlInv'
<1>1. writer[p].pc = "replace" /\ UNCHANGED <<file, begun>> /\ ControlFile!Ends(p)
  BY DEF ControlFile!Replace
<1>2. /\ link["tmp"] = 0 => link' = link
      /\ link["tmp"] # 0 => link'["control"] = link["tmp"] /\ link'["tmp"] = 0
      /\ link' \in [{"control", "tmp"} -> ControlFile!Files \union {0}]
  BY ControlTypes DEF ControlFile!Replace
<1>3. ControlFile!TypeOK'
  BY <1>1, <1>2, ControlTypes, EndsIs, ControlTypeOK
<1>4. FilesSound'
  <2>1. \A q \in ControlFile!Writers : writer'[q].pc = "write" <=> writer'[q].fd # 0
    BY <1>1, EndsIs, IdleIs DEF ControlInv, FilesSound
  <2>2. ASSUME NEW j \in ControlFile!Files, file'[j] = ControlFile!Torn
        PROVE  \E q \in ControlFile!Writers : writer'[q].pc = "write" /\ writer'[q].fd = j
    <3>1. PICK q \in ControlFile!Writers : writer[q].pc = "write" /\ writer[q].fd = j
      BY <1>1, <2>2 DEF ControlInv, FilesSound
    <3> QED
      BY <1>1, <3>1, EndsIs
  <2> QED
    BY <1>2, <2>1, <2>2 DEF ControlInv, FilesSound
<1>5. ASSUME alone' PROVE AloneSound'
  <2>1. ASSUME alone PROVE owed' \subseteq ControlFile!Current'
    <3>1. /\ (owed \ writer[p].clear) \union writer[p].set \subseteq writer[p].cur
          /\ link["tmp"] # 0 /\ file[link["tmp"]] = writer[p].cur
      BY <1>1, <2>1 DEF ControlInv, AloneSound, ControlFile!Busy
    <3>2. writer[p].cur # ControlFile!Torn
      BY ControlTypes, FlagsAreNotTorn DEF Writings
    <3>3. ControlFile!Current' = writer[p].cur
      BY <1>1, <1>2, <3>1, <3>2 DEF ControlFile!Current
    <3> QED
      BY <1>1, <2>1, <3>1, <3>3, EndsIs
  <2> QED
    BY <1>1, <1>5, <2>1, AloneAfterEnd
<1> QED
  BY <1>1, <1>3, <1>4, <1>5, EndsIs DEF ControlInv

LEMMA ControlKeeps == ASSUME ControlInv, [ControlFile!Next]_ControlVars PROVE ControlInv'
<1>1. CASE UNCHANGED ControlVars
  <2>1. UNCHANGED <<link, file, writer, begun, owed, alone>>
    BY <1>1 DEF ControlVars
  <2>2. ControlFile!TypeOK'
    BY <2>1, ControlTypes, ControlTypeOK
  <2>3. FilesSound' /\ (alone' => AloneSound')
    BY <2>1 DEF ControlInv, FilesSound, AloneSound, ControlFile!Busy, ControlFile!Current,
                ControlFile!Target
  <2> QED
    BY <2>1, <2>2, <2>3, ControlTypes DEF ControlInv
<1>2. CASE ControlFile!Next
  <2>1. PICK p \in ControlFile!Writers : ControlFile!Read(p) \/ ControlFile!Step(p)
    BY <1>2 DEF ControlFile!Next
  <2> QED
    BY <2>1, ReadControlKeeps, OpenKeeps, WriteKeeps, ReplaceKeeps DEF ControlFile!Step
<1> QED
  BY <1>1, <1>2

LEMMA ControlSerial == ASSUME ControlInv PROVE ControlFile!SerialUpdatesHold
<1>1. SUFFICES ASSUME alone, AloneSound
      PROVE  owed \subseteq ControlFile!LoadControl \/ "pause" \in ControlFile!LoadControl
  BY DEF ControlInv, ControlFile!SerialUpdatesHold
<1>2. CASE \A p \in ControlFile!Writers : writer[p].pc = "write" => p \in Savers
  <2>1. owed \subseteq ControlFile!Current
    BY <1>1, <1>2 DEF AloneSound
  <2> QED
    BY <2>1 DEF ControlFile!Current, ControlFile!LoadControl
<1>3. CASE \E p \in ControlFile!Writers : writer[p].pc = "write" /\ p \notin Savers
  <2>1. PICK p \in ControlFile!Writers : writer[p].pc = "write" /\ p \notin Savers
    BY <1>3
  <2>2. /\ file[writer[p].fd] = ControlFile!Torn /\ writer[p].fd = link["control"]
        /\ writer[p].fd # 0
    BY <1>1, <2>1 DEF AloneSound, ControlFile!Busy, ControlFile!Target, ControlInv, FilesSound
  <2> QED
    BY <2>2 DEF ControlFile!LoadControl
<1> QED
  BY <1>2, <1>3

-----------------------------------------------------------------------------
(* The services together *)

IInv == ControlInv /\ SyncInv /\ StreamInv

LEMMA ServicesInit == ASSUME Init PROVE IInv
  BY ControlInit, SyncInit, StreamInit DEF Init, IInv

LEMMA ServicesStep == ASSUME IInv, [Next]_AllVars PROVE IInv'
<1>1. /\ [ControlFile!Next]_ControlVars /\ [SyncEngine!Next]_SyncVars
      /\ [UserStream!Next]_StreamVars
  BY DEF Next, AllVars, ControlStep, SyncStep, StreamStep
<1> QED
  BY <1>1, ControlKeeps, SyncKeeps, StreamKeeps DEF IInv

\* What the three services keep, from their first state on.
THEOREM Sound == Spec => []IInv
  BY ServicesInit, ServicesStep, PTL DEF Spec

\* Every service keeps its types, for any number of writers, trades and failures.
THEOREM TypeCorrect == Spec => []TypeOK
<1>1. IInv => TypeOK
  BY DEF IInv, ControlInv, SyncInv, StreamInv, TypeOK
<1> QED
  BY <1>1, Sound, PTL

\* Updates of the control file that do not overlap are never lost, whoever makes
\* them: save_control by rename, the bot in place.
THEOREM SerialUpdatesAlwaysHold == Spec => []SerialUpdatesHold
<1>1. IInv => SerialUpdatesHold
  BY ControlSerial DEF IInv, SerialUpdatesHold
<1> QED
  BY <1>1, Sound, PTL

\* sync_fills logs a trade once, and once more for each round that broke off.
THEOREM LoggedOncePerBreakAlways == Spec => []LoggedOncePerBreak
<1>1. IInv => LoggedOncePerBreak
  BY DEF IInv, SyncInv, LoggedOncePerBreak
<1> QED
  BY <1>1, Sound, PTL

\* The keepalive keeps the listen key alive while no call fails and the stream
\* is quiet when it is due.
THEOREM QuietKeysAlwaysLive == Spec => []QuietKeysLive
<1>1. IInv => QuietKeysLive
  BY StreamQuiet DEF IInv, QuietKeysLive
<1> QED
  BY <1>1, Sound, PTL

=============================================================================
