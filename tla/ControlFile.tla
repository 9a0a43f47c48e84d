----------------------------- MODULE ControlFile -----------------------------
(***************************************************************************)
(* results/control.json (live/control.py, telegram_bot.py): the runner's   *)
(* kill switch, the dashboard, the API and the Telegram bot each read it,  *)
(* change their own flags and write it back, without a lock.  save_control *)
(* writes one temporary file that all its callers share and renames it;    *)
(* the bot writes the file in place.  A file that is written in place is   *)
(* empty from its truncation to the write, so files are objects that names *)
(* and open descriptors point to.                                          *)
(***************************************************************************)
EXTENDS Integers, FiniteSets

CONSTANTS
    Savers,         \* callers of save_control
    Bots,           \* callers of _write_control
    Requests,       \* the updates they ask for
    MaxRequests     \* bound: updates begun

VARIABLES
    link,       \* link[n]: the file object that has the name, or 0
    file,       \* file[i]: the content of file object i: flags, or Torn
    writer,          \* writer[p]: what writer p is doing
    begun,      \* updates begun so far
    owed,       \* history: the flags that completed updates have left set
    alone       \* history: FALSE iff an update overlapped another one, or was cut
                \* off, since the last time that nobody was writing

vars == <<link, file, writer, begun, owed, alone>>

Writers == Savers \union Bots
Torn == {"torn"}    \* the content of a file that was truncated
Files == 1..(Cardinality(Writers) + 2)
Idle == [pc |-> "idle", set |-> {}, clear |-> {}, cur |-> {}, fd |-> 0]

\* The updates of the code: which flags each sets and clears.
Update(r) ==
    CASE r = "kill" -> [set |-> {"pause", "flatten"}, clear |-> {}]
      [] r = "pause" -> [set |-> {"pause"}, clear |-> {}]
      [] r = "noNew" -> [set |-> {"noNew"}, clear |-> {}]
      [] r = "resume" -> [set |-> {}, clear |-> {"pause", "noNew", "flatten"}]
      [] r = "botPause" -> [set |-> {"noNew"}, clear |-> {}]
      [] r = "botResume" -> [set |-> {}, clear |-> {"pause", "noNew"}]

OfBots == {"botPause", "botResume"}
Asks(p) == {r \in Requests : r \in OfBots <=> p \in Bots}

Init ==
    /\ link = [n \in {"control", "tmp"} |-> 0]
    /\ file = [i \in Files |-> {}]
    /\ writer = [p \in Writers |-> Idle]
    /\ begun = 0
    /\ owed = {}
    /\ alone = TRUE

\* load_control: no file is no flag, a file that cannot be read is a pause.
LoadControl ==
    IF link["control"] = 0 THEN {}
    ELSE IF file[link["control"]] = Torn THEN {"pause"}
    ELSE file[link["control"]]

\* Mutant: the writer starts from its own flags only.
CurrentDropped == {}

\* Mutant: what a torn file holds is taken for flags.
CurrentUnparsed == IF link["control"] = 0 THEN {} ELSE file[link["control"]]

\* What a writer starts from: nothing, if the file cannot be read.
Current ==
    IF link["control"] = 0 \/ file[link["control"]] = Torn THEN {} ELSE file[link["control"]]

\* An object that no name and no descriptor refers to.
NewFile ==
    CHOOSE i \in Files : i \notin {link["control"], link["tmp"]} /\ \A p \in Writers : writer[p].fd # i

Busy(p) == writer[p].pc # "idle"

\* The flags are read into "current" and changed there.
Read(p) ==
    /\ ~Busy(p)
    /\ begun < MaxRequests /\ begun' = begun + 1
    /\ \E r \in Asks(p) :
        writer' = [writer EXCEPT ![p] = [pc |-> "open", set |-> Update(r).set, clear |-> Update(r).clear,
                               cur |-> (Current \ Update(r).clear) \union Update(r).set, fd |-> 0]]
    /\ alone' = (alone /\ \A q \in Writers : ~Busy(q))
    /\ UNCHANGED <<link, file, owed>>

\* write_text opens: it creates the file, or truncates the one that is there.
Target(p) == IF p \in Savers THEN "tmp" ELSE "control"

Open(p) ==
    /\ writer[p].pc = "open"
    /\ LET i == IF link[Target(p)] = 0 THEN NewFile ELSE link[Target(p)]
       IN /\ link' = [link EXCEPT ![Target(p)] = i]
          /\ file' = [file EXCEPT ![i] = Torn]
          /\ writer' = [writer EXCEPT ![p].pc = "write", ![p].fd = i]
    /\ UNCHANGED <<begun, owed, alone>>

\* An update that ends leaves its flags; nobody else wrote, or nothing is known.
Ends(p) ==
    /\ writer' = [writer EXCEPT ![p] = Idle]
    /\ owed' = IF alone THEN (owed \ writer[p].clear) \union writer[p].set ELSE {}
    /\ alone' = \A q \in Writers \ {p} : ~Busy(q)

\* Mutant: the writer writes only if its file still has its name.
WriteIfNamed(p) ==
    /\ writer[p].pc = "write"
    /\ file' = IF link[Target(p)] = writer[p].fd THEN [file EXCEPT ![writer[p].fd] = writer[p].cur] ELSE file
    /\ IF p \in Savers
       THEN writer' = [writer EXCEPT ![p].pc = "replace", ![p].fd = 0] /\ UNCHANGED <<owed, alone>>
       ELSE Ends(p)
    /\ UNCHANGED <<link, begun>>

\* The write goes to the object that was opened, whatever its name is by now.
Write(p) ==
    /\ writer[p].pc = "write"
    /\ file' = [file EXCEPT ![writer[p].fd] = writer[p].cur]
    /\ IF p \in Savers
       THEN writer' = [writer EXCEPT ![p].pc = "replace", ![p].fd = 0] /\ UNCHANGED <<owed, alone>>
       ELSE Ends(p)
    /\ UNCHANGED <<link, begun>>

\* tmp_file.replace(p) takes whatever has the name by now.  If another writer
\* has renamed it already, the call raises.
Replace(p) ==
    /\ writer[p].pc = "replace"
    /\ IF link["tmp"] = 0 THEN UNCHANGED link
       ELSE link' = [link EXCEPT !["control"] = link["tmp"], !["tmp"] = 0]
    /\ Ends(p)
    /\ UNCHANGED <<file, begun>>

Step(p) == Open(p) \/ Write(p) \/ Replace(p)
Next == \E p \in Writers : Read(p) \/ Step(p)
Spec == Init /\ [][Next]_vars

\* A writer that has begun goes on.
Fairness == \A p \in Writers : WF_vars(Step(p))
FairSpec == Spec /\ Fairness

-----------------------------------------------------------------------------
Flags == {"pause", "noNew", "flatten"}

TypeOK ==
    /\ link \in [{"control", "tmp"} -> Files \union {0}]
    /\ file \in [Files -> (SUBSET Flags) \union {Torn}]
    /\ \A p \in Writers : writer[p].cur \subseteq Flags /\ writer[p].fd \in Files \union {0}
    /\ begun \in 0..MaxRequests /\ owed \subseteq Flags /\ alone \in BOOLEAN

\* Updates that do not overlap are never lost, whoever makes them and whatever
\* flags they leave alone; while one of them is being written, readers see the
\* old flags, the new ones, or a pause.
SerialUpdatesHold ==
    alone => LET keep == {f \in owed : \A p \in Writers : Busy(p) => f \notin writer[p].clear}
             IN keep \subseteq LoadControl \/ "pause" \in LoadControl

\* A file that readers find torn, be it by a writer in place or because a
\* temporary file was renamed while somebody else was writing it, can be read
\* again in the end: the pause it stands for does not last.
TornHeals ==
    (link["control"] # 0 /\ file[link["control"]] = Torn) ~>
        (link["control"] # 0 /\ file[link["control"]] # Torn)
=============================================================================
