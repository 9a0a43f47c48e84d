------------------------------ MODULE Recorder -------------------------------
(***************************************************************************)
(* Processes that record a stream of one symbol into one parquet file per  *)
(* UTC day (live/bookticker_recorder.py, live/macro_recorder.py,           *)
(* live/partition_writer.py).  Events are numbered as they are received;   *)
(* a file is the set of the numbers of its rows.                           *)
(***************************************************************************)
EXTENDS Integers, FiniteSets, Sequences, SequencesExt

CONSTANTS
    Recorders,      \* processes that record the same symbol
    PerDay,         \* timestamps of one day
    FlushEvery,     \* flush_every
    MaxEvents,      \* bound: events
    MaxMishaps      \* bound: closed connections, failing writes and kills

VARIABLES
    stamps,     \* stamps[i]: the timestamp of the i-th event
    partition,  \* partition[d]: the rows of the file of day d
    recorder,   \* recorder[r]: where it is, its buffer, the days left to write
    held,       \* held[d]: who holds the lock of the file of day d
    gone,       \* events that went with a killed process or its last flush
    mishaps     \* mishaps so far

recVars == <<stamps, partition, recorder, held, gone, mishaps>>

Nobody == "nobody"
FileDays == 0..(MaxEvents \div PerDay)
DayOf(i) == stamps[i] \div PerDay
Listening == [pc |-> "recv", rows |-> {}, todo |-> {}, old |-> {}, last |-> FALSE]

Init ==
    /\ stamps = <<>>
    /\ partition = [d \in FileDays |-> {}]
    /\ recorder = [r \in Recorders |-> Listening]
    /\ held = [d \in FileDays |-> Nobody]
    /\ gone = {}
    /\ mishaps = 0

At(r, pc) == recorder[r].pc = pc
DaysOf(S) == {DayOf(i) : i \in S}

\* An event arrives, with the timestamp of the last one or the next; a full
\* buffer is appended at once.
Receive(r) ==
    /\ At(r, "recv") /\ Len(stamps) < MaxEvents
    /\ \E step \in {0, 1} :
        stamps' = Append(stamps, IF stamps = <<>> THEN 0 ELSE Last(stamps) + step)
    /\ LET rows == recorder[r].rows \cup {Len(stamps')}
           full == Cardinality(rows) >= FlushEvery
       IN recorder' = [recorder EXCEPT ![r].rows = rows,
                           ![r].pc = IF full THEN "append" ELSE @,
                           ![r].todo = IF full THEN {stamps'[i] \div PerDay : i \in rows} ELSE {}]
    /\ UNCHANGED <<partition, held, gone, mishaps>>

\* append_rows takes the lock of the next day's file and reads the file.
ReadDay(r) ==
    /\ At(r, "append")
    /\ \E d \in recorder[r].todo :
        /\ \A e \in recorder[r].todo : d <= e
        /\ held[d] = Nobody
        /\ held' = [held EXCEPT ![d] = r]
        /\ recorder' = [recorder EXCEPT ![r].pc = "write", ![r].old = partition[d]]
    /\ UNCHANGED <<stamps, partition, gone, mishaps>>

Stamps(S) == {stamps[i] : i \in S}

\* The files that concat, drop_duplicates(keep="last") and an unstable sort can
\* make: one row per timestamp, a new one where there is one.  A first batch is
\* written as it is, duplicates included.
Merge(old, part) ==
    IF old = {} THEN {part}
    ELSE {S \in SUBSET (old \cup part) :
            /\ Stamps(S) = Stamps(old \cup part)
            /\ Cardinality(S) = Cardinality(Stamps(S))
            /\ \A i \in S : stamps[i] \in Stamps(part) => i \in part}

\* The merged file replaces the old one and the lock is released.
WriteDay(r) ==
    /\ At(r, "write")
    /\ \E d \in FileDays :
        /\ held[d] = r
        /\ \E S \in Merge(recorder[r].old, {i \in recorder[r].rows : DayOf(i) = d}) :
            partition' = [partition EXCEPT ![d] = S]
        /\ held' = [held EXCEPT ![d] = Nobody]
        /\ recorder' = [recorder EXCEPT ![r].pc = "append", ![r].todo = @ \ {d}, ![r].old = {}]
    /\ UNCHANGED <<stamps, gone, mishaps>>

\* All days are written: the buffer is emptied, or the process is done.
Appended(r) ==
    /\ At(r, "append") /\ recorder[r].todo = {}
    /\ recorder' = [recorder EXCEPT ![r] =
                        [Listening EXCEPT !.pc = IF recorder[r].last THEN "done" ELSE "recv"]]
    /\ UNCHANGED <<stamps, partition, held, gone, mishaps>>

Mishap == mishaps < MaxMishaps /\ mishaps' = mishaps + 1
Released(r) == [d \in FileDays |-> IF held[d] = r THEN Nobody ELSE held[d]]

\* Mutant: the buffer is emptied although it was not written.
AppendFailsAndClears(r) ==
    /\ recorder[r].pc \in {"append", "write"} /\ ~recorder[r].last /\ Mishap
    /\ held' = Released(r)
    /\ recorder' = [recorder EXCEPT ![r] = [Listening EXCEPT !.pc = "reconnect"]]
    /\ UNCHANGED <<stamps, partition, gone>>

\* An exception in append_rows: the buffer stays, days already written included,
\* and the process connects again.
AppendFails(r) ==
    /\ recorder[r].pc \in {"append", "write"} /\ ~recorder[r].last /\ Mishap
    /\ held' = Released(r)
    /\ recorder' = [recorder EXCEPT ![r] = [Listening EXCEPT !.pc = "reconnect", !.rows = recorder[r].rows]]
    /\ UNCHANGED <<stamps, partition, gone>>

\* The connection is closed.
Disconnect(r) ==
    /\ At(r, "recv") /\ Mishap
    /\ recorder' = [recorder EXCEPT ![r].pc = "reconnect"]
    /\ UNCHANGED <<stamps, partition, held, gone>>

Reconnect(r) ==
    /\ At(r, "reconnect")
    /\ recorder' = [recorder EXCEPT ![r].pc = "recv"]
    /\ UNCHANGED <<stamps, partition, held, gone, mishaps>>

\* The time is over or the task is cancelled, which happens in an await: the
\* finally block appends what the buffer still holds.
Finish(r) ==
    /\ recorder[r].pc \in {"recv", "reconnect"}
    /\ recorder' = [recorder EXCEPT ![r].pc = "append", ![r].last = TRUE,
                                    ![r].todo = DaysOf(recorder[r].rows)]
    /\ UNCHANGED <<stamps, partition, held, gone, mishaps>>

\* The process is killed, or its last append raises: the buffer is lost.
Die(r) ==
    /\ ~At(r, "done") /\ Mishap
    /\ gone' = gone \cup recorder[r].rows
    /\ held' = Released(r)
    /\ recorder' = [recorder EXCEPT ![r] = [Listening EXCEPT !.pc = "done"]]
    /\ UNCHANGED <<stamps, partition>>

Next == \E r \in Recorders :
    \/ Receive(r) \/ ReadDay(r) \/ WriteDay(r) \/ Appended(r) \/ AppendFails(r)
    \/ Disconnect(r) \/ Reconnect(r) \/ Finish(r) \/ Die(r)

Spec == Init /\ [][Next]_recVars

-----------------------------------------------------------------------------
TypeOK ==
    /\ DOMAIN stamps \subseteq 1..MaxEvents
    /\ partition \in [FileDays -> SUBSET DOMAIN stamps]
    /\ held \in [FileDays -> Recorders \cup {Nobody}]
    /\ gone \subseteq DOMAIN stamps /\ mishaps \in 0..MaxMishaps
    /\ \A r \in Recorders :
        /\ recorder[r].pc \in {"recv", "append", "write", "reconnect", "done"}
        /\ recorder[r].rows \subseteq DOMAIN stamps /\ recorder[r].todo \subseteq FileDays

(* No timestamp that was received is missing: through failing writes, closed
   connections, retries of a half-written batch and another recorder of the
   same symbol, every event is in a buffer, or its file has a row of its
   timestamp, unless it went with a killed process. *)
ReceivedIsKept ==
    \A i \in DOMAIN stamps :
        \/ i \in gone
        \/ \E r \in Recorders : i \in recorder[r].rows
        \/ stamps[i] \in Stamps(partition[DayOf(i)])
=============================================================================
