--------------------------- MODULE ComponentsProofs ---------------------------
(***************************************************************************)
(* What the components that share no state keep, for any number of         *)
(* processes, trades, rates, bars and failures.  Each section proves the   *)
(* inductive invariant of one component; the last one puts them side by    *)
(* side and states the properties.                                         *)
(***************************************************************************)
EXTENDS MCComponents, PaperTraderProofs, KlinesProofs, Sequences, FiniteSetTheorems, WellFoundedInduction, TLAPS

-----------------------------------------------------------------------------
(* The registry of burned windows *)

Burners == [pc : {"idle", "exists", "create", "read", "append", "passed", "refused"},
            win : OosRegistry!Windows \union {OosRegistry!NoWindow}, enforce : BOOLEAN,
            passed : SUBSET (OosRegistry!Windows \union {OosRegistry!NoWindow})]

\* Until the creation of the file cuts off rows, every window that was given away
\* is burned in it; who enforces goes on only with a window that was not.
OosInv ==
    /\ registry.there \in BOOLEAN /\ registry.rows \subseteq OosRegistry!Windows
    /\ burner \in [Researchers -> Burners]
    /\ wiped \in BOOLEAN
    /\ \A p \in Researchers :
          burner[p].pc \notin {"idle", "refused"} => burner[p].win \in OosRegistry!Windows
    /\ ~wiped => \A p \in Researchers :
          /\ burner[p].pc = "passed" => OosRegistry!Burned(registry.rows, burner[p].win)
          /\ burner[p].enforce /\ burner[p].pc \notin {"idle", "refused"} =>
                burner[p].win \notin burner[p].passed

LEMMA OverlapsItself ==
    ASSUME NEW w \in OosRegistry!Windows
    PROVE  OosRegistry!Overlaps(w, w)
  BY ComponentsBounds DEF OosRegistry!Windows, OosRegistry!Overlaps

LEMMA OosInit == ASSUME OosRegistry!Init PROVE OosInv
<1> DEFINE none == [pc |-> "idle", win |-> OosRegistry!NoWindow, enforce |-> FALSE, passed |-> {}]
<1>1. none \in Burners /\ none.pc = "idle"
  BY DEF Burners
<1>2. burner = [p \in Researchers |-> none]
  BY DEF OosRegistry!Init
<1> HIDE DEF none
<1>3. registry.there = FALSE /\ registry.rows = {} /\ wiped = FALSE
  BY DEF OosRegistry!Init
<1> QED
  BY <1>1, <1>2, <1>3 DEF OosInv

LEMMA OosCheck ==
    ASSUME OosInv, NEW p \in Researchers, OosRegistry!Check(p)
    PROVE  OosInv'
<1>1. PICK w \in OosRegistry!Windows, enforce \in BOOLEAN :
        burner' = [burner EXCEPT ![p] =
            [pc |-> IF enforce /\ OosRegistry!Burned(registry.rows, w) THEN "refused" ELSE "exists",
             win |-> w, enforce |-> enforce,
             passed |-> {burner[q].win : q \in {r \in Researchers : burner[r].pc = "passed"}}]]
  BY DEF OosRegistry!Check
<1> DEFINE given == {burner[q].win : q \in {r \in Researchers : burner[r].pc = "passed"}}
           pc == IF enforce /\ OosRegistry!Burned(registry.rows, w) THEN "refused" ELSE "exists"
           b == [pc |-> pc, win |-> w, enforce |-> enforce, passed |-> given]
<1>2. given \subseteq OosRegistry!Windows
  BY DEF OosInv, Burners
<1>3. ~wiped => \A v \in given : OosRegistry!Burned(registry.rows, v)
  BY DEF OosInv
<1>4. enforce /\ pc # "refused" /\ ~wiped => w \notin given
  BY <1>3
<1>5. pc \in {"refused", "exists"}
  OBVIOUS
<1> HIDE DEF given, pc
<1>6. b \in Burners /\ b.pc = pc /\ b.win = w /\ b.enforce = enforce /\ b.passed = given
  BY <1>2, <1>5 DEF Burners
<1>7. burner' = [burner EXCEPT ![p] = b]
  BY <1>1 DEF given, pc
<1> HIDE DEF b
<1>8. /\ burner' \in [Researchers -> Burners]
      /\ \A q \in Researchers : burner'[q] = IF q = p THEN b ELSE burner[q]
  BY <1>6, <1>7 DEF OosInv
<1>9. UNCHANGED <<registry, wiped>>
  BY DEF OosRegistry!Check
<1> QED
  BY <1>4, <1>5, <1>6, <1>8, <1>9 DEF OosInv

\* A step of a call that keeps its window; it passes only with a burned one.
LEMMA OosGoesOn ==
    ASSUME OosInv, NEW p \in Researchers, NEW to \in {"create", "read", "append", "passed"},
           burner[p].pc \notin {"idle", "refused"}, burner' = [burner EXCEPT ![p].pc = to],
           registry'.there \in BOOLEAN, registry'.rows \subseteq OosRegistry!Windows,
           wiped' \in BOOLEAN, wiped => wiped',
           ~wiped' => registry.rows \subseteq registry'.rows,
           to = "passed" => OosRegistry!Burned(registry'.rows, burner[p].win)
    PROVE  OosInv'
<1> DEFINE b == [burner[p] EXCEPT !.pc = to]
<1>1. /\ b \in Burners /\ b.pc = to /\ b.win = burner[p].win /\ b.enforce = burner[p].enforce
      /\ b.passed = burner[p].passed
  BY DEF OosInv, Burners
<1>2. burner' = [burner EXCEPT ![p] = b]
  OBVIOUS
<1> HIDE DEF b
<1>3. /\ burner' \in [Researchers -> Burners]
      /\ \A q \in Researchers : burner'[q] = IF q = p THEN b ELSE burner[q]
  BY <1>1, <1>2 DEF OosInv
<1>4. \A q \in Researchers :
        burner'[q].pc \notin {"idle", "refused"} => burner'[q].win \in OosRegistry!Windows
  BY <1>1, <1>3 DEF OosInv
<1>5. ASSUME ~wiped', NEW q \in Researchers
      PROVE  /\ burner'[q].pc = "passed" => OosRegistry!Burned(registry'.rows, burner'[q].win)
             /\ burner'[q].enforce /\ burner'[q].pc \notin {"idle", "refused"} =>
                   burner'[q].win \notin burner'[q].passed
  <2>1. \A v : OosRegistry!Burned(registry.rows, v) => OosRegistry!Burned(registry'.rows, v)
    BY <1>5 DEF OosRegistry!Burned
  <2> QED
    BY <1>1, <1>3, <1>5, <2>1 DEF OosInv
<1> QED
  BY <1>3, <1>4, <1>5 DEF OosInv, OosRegistry!Burned

LEMMA OosKeeps == ASSUME OosInv, [OosRegistry!Next]_OosVars PROVE OosInv'
<1>1. CASE UNCHANGED OosVars
  BY <1>1 DEF OosInv, OosVars, OosRegistry!Burned
<1>2. ASSUME NEW p \in Researchers,
             OosRegistry!FindFile(p) \/ OosRegistry!FindNone(p) \/ OosRegistry!Read(p)
      PROVE  OosInv'
  <2>1. UNCHANGED <<registry, wiped>>
    BY <1>2 DEF OosRegistry!FindFile, OosRegistry!FindNone, OosRegistry!Read
  <2>2. PICK to \in {"create", "read", "append", "passed"} :
          /\ burner' = [burner EXCEPT ![p].pc = to] /\ burner[p].pc \in {"exists", "read"}
          /\ to = "passed" => OosRegistry!Burned(registry.rows, burner[p].win)
    BY <1>2 DEF OosRegistry!FindFile, OosRegistry!FindNone, OosRegistry!Read, OosRegistry!Goes
  <2> QED
    BY <2>1, <2>2, OosGoesOn DEF OosInv
<1>3. ASSUME NEW p \in Researchers, OosRegistry!Create(p) PROVE OosInv'
  <2>1. /\ burner[p].pc = "create" /\ burner' = [burner EXCEPT ![p].pc = "read"]
        /\ registry' = [there |-> TRUE, rows |-> {}] /\ wiped' = (wiped \/ registry.rows # {})
    BY <1>3 DEF OosRegistry!Create, OosRegistry!Goes
  <2>2. registry'.there = TRUE /\ registry'.rows = {} /\ wiped' \in BOOLEAN
    BY <2>1
  <2> QED
    BY <2>1, <2>2, OosGoesOn DEF OosInv
<1>4. ASSUME NEW p \in Researchers, OosRegistry!Append(p) PROVE OosInv'
  <2>1. /\ burner[p].pc = "append" /\ burner' = [burner EXCEPT ![p].pc = "passed"]
        /\ registry' = [registry EXCEPT !.rows = registry.rows \cup {burner[p].win}]
        /\ wiped' = wiped
    BY <1>4 DEF OosRegistry!Append, OosRegistry!Goes
  <2>2. burner[p].win \in OosRegistry!Windows
    BY <2>1 DEF OosInv
  <2>3. registry'.there = registry.there /\ registry'.rows = registry.rows \cup {burner[p].win}
    BY <2>1 DEF OosInv
  <2>4. OosRegistry!Burned(registry'.rows, burner[p].win)
    BY <2>2, <2>3, OverlapsItself DEF OosRegistry!Burned
  <2> QED
    BY <2>1, <2>2, <2>3, <2>4, OosGoesOn DEF OosInv
<1> QED
  BY <1>1, <1>2, <1>3, <1>4, OosCheck DEF OosRegistry!Next

LEMMA OosBurned == ASSUME OosInv PROVE OosRegistry!TypeOK /\ OosRegistry!BurnedStaysBurned
  BY DEF OosInv, Burners, OosRegistry!TypeOK, OosRegistry!BurnedStaysBurned

-----------------------------------------------------------------------------
(* The sweep store *)

Ats == {"no", "todo", "ok", "error", "hashed", "failed", "logged"}
Rows == [status : {"none", "ok", "degenerate", "disabled", "error"}, hash : Nat, ran : 0..(MaxEdits + 1),
         late : BOOLEAN]
Sweeping == [code : 0..(MaxEdits + 1), at : [Cells -> Ats], hash : [Cells -> Nat],
             late : [Cells -> BOOLEAN]]

\* The version that ran is counted, or its ledger line failed.
Known(c, v) == v \in trials[c] \/ <<c, v>> \in unlogged

\* A cell runs in a process that loaded code; its hash is that of the code's
\* class, or it is late; and it is counted before it is stored.
CellSound(s, c) ==
    /\ s.at[c] # "no" => s.code # 0
    /\ s.at[c] \in {"hashed", "failed", "logged"} => s.late[c] = (s.hash[c] # ClassOf[s.code])
    /\ s.at[c] = "logged" => Known(c, s.code)

RowSound(row, c) ==
    row.status = "ok" => row.ran # 0 /\ (ClassOf[row.ran] = row.hash \/ row.late) /\ Known(c, row.ran)

SweepInv ==
    /\ disk \in 1..(MaxEdits + 1) /\ snags \in 0..MaxSnags
    /\ results \in [Cells -> Rows]
    /\ sweeper \in [Sweepers -> Sweeping]
    /\ trials \in [Cells -> SUBSET SweepStore!Versions]
    /\ \A p \in Sweepers, c \in Cells : CellSound(sweeper[p], c)
    /\ \A c \in Cells : RowSound(results[c], c)
    /\ SweepStore!PassedIsCurrent

LEMMA EditsAre == MaxEdits \in Nat
  BY ComponentsBounds

LEMMA OffIs ==
    /\ SweepStore!Off \in Sweeping
    /\ \A c \in Cells : SweepStore!Off.at[c] = "no" /\ CellSound(SweepStore!Off, c)
<1>1. 0 \in 0..(MaxEdits + 1)
  BY ComponentsBounds
<1> QED
  BY <1>1 DEF SweepStore!Off, Sweeping, Ats, CellSound

LEMMA SweepInit == ASSUME SweepStore!Init PROVE SweepInv
<1>1. 0 \in 0..(MaxEdits + 1) /\ 0 \in 0..MaxSnags /\ 1 \in 1..(MaxEdits + 1)
  BY ComponentsBounds
<1>2. SweepStore!NoRow \in Rows /\ SweepStore!NoRow.status = "none"
  BY <1>1 DEF SweepStore!NoRow, Rows
<1>3. results = [c \in Cells |-> SweepStore!NoRow] /\ sweeper = [p \in Sweepers |-> SweepStore!Off]
  BY DEF SweepStore!Init
<1>4. \A c \in Cells : RowSound(results[c], c)
  BY <1>2, <1>3 DEF RowSound
<1>5. \A p \in Sweepers, c \in Cells : CellSound(sweeper[p], c)
  BY <1>3, OffIs
<1>6. trials \in [Cells -> SUBSET SweepStore!Versions] /\ SweepStore!PassedIsCurrent
  BY DEF SweepStore!Init, SweepStore!PassedIsCurrent
<1>7. disk = 1 /\ snags = 0
  BY DEF SweepStore!Init
<1> QED
  BY <1>1, <1>2, <1>3, <1>4, <1>5, <1>6, <1>7, OffIs DEF SweepInv

\* One process moves; nothing that was counted is forgotten.
LEMMA SweepMoves ==
    ASSUME SweepInv, NEW p \in Sweepers, NEW s \in Sweeping, sweeper' = [sweeper EXCEPT ![p] = s],
           snags' \in 0..MaxSnags, UNCHANGED <<disk, results>>,
           trials' \in [Cells -> SUBSET SweepStore!Versions],
           \A c \in Cells : trials[c] \subseteq trials'[c], unlogged \subseteq unlogged',
           \A c \in Cells : CellSound(s, c)', SweepStore!PassedIsCurrent'
    PROVE  SweepInv'
<1>1. /\ sweeper' \in [Sweepers -> Sweeping]
      /\ \A q \in Sweepers : sweeper'[q] = IF q = p THEN s ELSE sweeper[q]
  BY DEF SweepInv
<1>2. \A c \in Cells : \A v : Known(c, v) => Known(c, v)'
  BY DEF Known
<1>3. \A q \in Sweepers, c \in Cells : CellSound(sweeper[q], c)'
  <2>1. SUFFICES ASSUME NEW q \in Sweepers, NEW c \in Cells, q # p PROVE CellSound(sweeper[q], c)'
    BY <1>1 DEF CellSound
  <2>2. sweeper'[q] = sweeper[q] /\ CellSound(sweeper[q], c)
    BY <1>1, <2>1 DEF SweepInv
  <2> QED
    BY <1>2, <2>2 DEF CellSound
<1>4. \A c \in Cells : RowSound(results[c], c)'
  BY <1>2 DEF SweepInv, RowSound
<1> QED
  BY <1>1, <1>3, <1>4 DEF SweepInv

\* Nothing but the cells of one process, and the snags, changes.
LEMMA SweepCellMoves ==
    ASSUME SweepInv, NEW p \in Sweepers, NEW s \in Sweeping, sweeper' = [sweeper EXCEPT ![p] = s],
           snags' \in 0..MaxSnags, UNCHANGED <<disk, results, trials, unlogged>>,
           \A c \in Cells : CellSound(s, c), SweepStore!PassedIsCurrent'
    PROVE  SweepInv'
<1>1. \A c \in Cells : CellSound(s, c)'
  BY DEF CellSound, Known
<1> QED
  BY <1>1, SweepMoves DEF SweepInv

LEMMA SnagIs ==
    ASSUME SweepInv, snags < MaxSnags, snags' = snags + 1
    PROVE  snags' \in 0..MaxSnags
  BY ComponentsBounds DEF SweepInv

LEMMA HashAsIs ==
    ASSUME SweepInv, NEW h \in {0, ClassOf[disk]}, SweepStore!HashAs(h)
    PROVE  h \in Nat /\ snags' \in 0..MaxSnags
<1>1. h \in Nat
  BY ComponentsBounds DEF SweepInv
<1> QED
  BY <1>1, SnagIs DEF SweepStore!HashAs, SweepInv

\* What already_done accepts was computed with the class on disk, or is late.
LEMMA DoneIsCurrent ==
    ASSUME SweepInv, NEW c \in Cells, NEW h \in {0, ClassOf[disk]},
           SweepStore!AlreadyDone(results[c], h)
    PROVE  ClassOf[results[c].ran] = ClassOf[disk] \/ results[c].late \/ h = 0
<1>1. results[c] \in Rows /\ RowSound(results[c], c) /\ results[c].status = "ok"
  BY DEF SweepInv, SweepStore!AlreadyDone
<1>2. results[c].ran \in 1..(MaxEdits + 1)
  BY <1>1, ComponentsBounds DEF RowSound, Rows
<1>3. ClassOf[results[c].ran] # 0
  BY <1>2, ComponentsBounds
<1> QED
  BY <1>1, <1>3 DEF RowSound, SweepStore!AlreadyDone

LEMMA ResumeKeeps ==
    ASSUME SweepInv, NEW p \in Sweepers, SweepStore!Resume(p) \/ SweepStore!SweepAll(p)
    PROVE  SweepInv'
<1>1. PICK at \in [Cells -> Ats] :
        /\ sweeper' = [sweeper EXCEPT ![p].at = at] /\ \A c \in Cells : at[c] \in {"no", "todo"}
        /\ snags' \in 0..MaxSnags /\ SweepStore!PassedIsCurrent'
  <2>1. CASE SweepStore!SweepAll(p)
    <3>1. [c \in Cells |-> "todo"] \in [Cells -> Ats]
      BY DEF Ats
    <3> QED
      BY <2>1, <3>1 DEF SweepStore!SweepAll, SweepStore!PassedIsCurrent, SweepInv
  <2>2. CASE SweepStore!Resume(p)
    <3>1. PICK h \in {0, ClassOf[disk]} :
            LET skip == {c \in Cells : SweepStore!AlreadyDone(results[c], h)} IN
            /\ SweepStore!HashAs(h)
            /\ sweeper' = [sweeper EXCEPT ![p].at = [c \in Cells |-> IF c \in skip THEN "no" ELSE "todo"]]
            /\ passed' = {[cell |-> c, row |-> results[c], disk |-> disk, hash |-> h] : c \in skip}
      BY <2>2 DEF SweepStore!Resume
    <3> DEFINE skip == {c \in Cells : SweepStore!AlreadyDone(results[c], h)}
               at == [c \in Cells |-> IF c \in skip THEN "no" ELSE "todo"]
    <3>2. at \in [Cells -> Ats] /\ \A c \in Cells : at[c] \in {"no", "todo"}
      BY DEF Ats
    <3>3. SweepStore!PassedIsCurrent'
      BY <3>1, DoneIsCurrent DEF SweepStore!PassedIsCurrent
    <3> QED
      BY <3>1, <3>2, <3>3, HashAsIs
  <2> QED
    BY <2>1, <2>2
<1>2. sweeper[p] \in Sweeping /\ sweeper[p].code # 0 /\ UNCHANGED <<disk, results, trials, unlogged>>
  BY DEF SweepInv, SweepStore!Resume, SweepStore!SweepAll
<1> DEFINE s == [sweeper[p] EXCEPT !.at = at]
<1>3. s \in Sweeping /\ s.at = at /\ s.code = sweeper[p].code
  BY <1>1, <1>2 DEF Sweeping
<1>4. sweeper' = [sweeper EXCEPT ![p] = s]
  BY <1>1
<1> HIDE DEF s
<1>5. \A c \in Cells : CellSound(s, c)
  BY <1>1, <1>2, <1>3 DEF CellSound
<1> QED
  BY <1>1, <1>2, <1>3, <1>4, <1>5, SweepCellMoves

LEMMA ProcessKeeps ==
    ASSUME SweepInv, NEW p \in Sweepers,
           SweepStore!Open(p) \/ SweepStore!Close(p) \/ SweepStore!Die(p)
    PROVE  SweepInv'
<1>1. UNCHANGED <<disk, results, trials, passed, unlogged>> /\ snags' \in 0..MaxSnags
  BY SnagIs DEF SweepStore!Open, SweepStore!Close, SweepStore!Die, SweepInv
<1>2. SweepStore!PassedIsCurrent'
  BY <1>1 DEF SweepInv, SweepStore!PassedIsCurrent
<1>3. CASE SweepStore!Open(p)
  <2>1. sweeper[p] \in Sweeping /\ sweeper[p].code = 0 /\ disk \in 1..(MaxEdits + 1)
    BY <1>3 DEF SweepInv, SweepStore!Open
  <2>2. disk \in 0..(MaxEdits + 1)
    BY <2>1, EditsAre
  <2> DEFINE s == [sweeper[p] EXCEPT !.code = disk]
  <2>3. s \in Sweeping /\ s.at = sweeper[p].at
    BY <2>1, <2>2 DEF Sweeping
  <2>4. sweeper' = [sweeper EXCEPT ![p] = s]
    BY <1>3 DEF SweepStore!Open
  <2> HIDE DEF s
  <2>5. \A c \in Cells : CellSound(s, c)
    BY <2>1, <2>3 DEF SweepInv, CellSound
  <2> QED
    BY <1>1, <1>2, <2>3, <2>4, <2>5, SweepCellMoves
<1>4. CASE sweeper' = [sweeper EXCEPT ![p] = SweepStore!Off]
  BY <1>1, <1>2, <1>4, OffIs, SweepCellMoves
<1> QED
  BY <1>3, <1>4 DEF SweepStore!Close, SweepStore!Die


LEMMA RunCellKeeps ==
    ASSUME SweepInv, NEW p \in Sweepers, NEW c \in Cells, SweepStore!RunCell(p, c)
    PROVE  SweepInv'
<1>1. /\ sweeper[p].at[c] = "todo" /\ UNCHANGED <<disk, results, trials, passed, unlogged>>
      /\ snags' \in 0..MaxSnags
  BY SnagIs DEF SweepStore!RunCell, SweepInv
<1>2. PICK x \in {"ok", "error"} : sweeper' = [sweeper EXCEPT ![p].at[c] = x]
  BY DEF SweepStore!RunCell
<1>3. sweeper[p] \in Sweeping /\ CellSound(sweeper[p], c) /\ \A d \in Cells : CellSound(sweeper[p], d)
  BY DEF SweepInv
<1> DEFINE s == [sweeper[p] EXCEPT !.at = [sweeper[p].at EXCEPT ![c] = x]]
<1>4. /\ s \in Sweeping /\ s.code = sweeper[p].code /\ s.hash = sweeper[p].hash
      /\ s.late = sweeper[p].late
      /\ \A d \in Cells : s.at[d] = IF d = c THEN x ELSE sweeper[p].at[d]
  BY <1>2, <1>3 DEF Sweeping, Ats
<1>5. sweeper' = [sweeper EXCEPT ![p] = s]
  BY <1>2
<1> HIDE DEF s
<1>6. \A d \in Cells : CellSound(s, d)
  BY <1>1, <1>3, <1>4 DEF CellSound
<1>7. SweepStore!PassedIsCurrent'
  BY <1>1 DEF SweepInv, SweepStore!PassedIsCurrent
<1> QED
  BY <1>1, <1>4, <1>5, <1>6, <1>7, SweepCellMoves

LEMMA HashCellKeeps ==
    ASSUME SweepInv, NEW p \in Sweepers, NEW c \in Cells, SweepStore!HashCell(p, c)
    PROVE  SweepInv'
<1>1. sweeper[p].at[c] \in {"ok", "error"} /\ UNCHANGED <<disk, results, trials, passed, unlogged>>
  BY DEF SweepStore!HashCell
<1> DEFINE x == IF sweeper[p].at[c] = "ok" THEN "hashed" ELSE "failed"
<1>2. PICK h \in {0, ClassOf[disk]} :
        /\ SweepStore!HashAs(h)
        /\ sweeper' = [sweeper EXCEPT ![p].hash[c] = h,
                                      ![p].late[c] = h # ClassOf[sweeper[p].code],
                                      ![p].at[c] = x]
  BY DEF SweepStore!HashCell
<1>3. x \in {"hashed", "failed"}
  OBVIOUS
<1> HIDE DEF x
<1>4. /\ sweeper[p] \in Sweeping /\ \A d \in Cells : CellSound(sweeper[p], d)
      /\ sweeper \in [Sweepers -> Sweeping]
  BY DEF SweepInv
<1>5. h \in Nat /\ snags' \in 0..MaxSnags
  BY <1>2, HashAsIs
<1> DEFINE late == (h # ClassOf[sweeper[p].code])
           s == [sweeper[p] EXCEPT !.hash = [sweeper[p].hash EXCEPT ![c] = h],
                                   !.late = [sweeper[p].late EXCEPT ![c] = late],
                                   !.at = [sweeper[p].at EXCEPT ![c] = x]]
<1>6. sweeper' = [sweeper EXCEPT ![p] = s]
  BY <1>2, <1>4 DEF Sweeping
<1>7. late \in BOOLEAN /\ (late <=> h # ClassOf[sweeper[p].code])
  OBVIOUS
<1> HIDE DEF late
<1>8. /\ s \in Sweeping /\ s.code = sweeper[p].code
      /\ s.hash[c] = h /\ s.late[c] = late /\ s.at[c] = x
      /\ \A d \in Cells : d # c => /\ s.at[d] = sweeper[p].at[d] /\ s.hash[d] = sweeper[p].hash[d]
                                   /\ s.late[d] = sweeper[p].late[d]
  BY <1>3, <1>4, <1>5, <1>7 DEF Sweeping, Ats
<1> HIDE DEF s
<1>9. \A d \in Cells : CellSound(s, d)
  <2>1. CellSound(s, c)
    BY <1>1, <1>3, <1>4, <1>7, <1>8 DEF CellSound
  <2>2. \A d \in Cells : d # c => CellSound(s, d)
    BY <1>4, <1>8 DEF CellSound
  <2> QED
    BY <2>1, <2>2
<1>10. SweepStore!PassedIsCurrent'
  BY <1>1 DEF SweepInv, SweepStore!PassedIsCurrent
<1> QED
  BY <1>1, <1>5, <1>6, <1>8, <1>9, <1>10, SweepCellMoves

LEMMA LogTrialKeeps ==
    ASSUME SweepInv, NEW p \in Sweepers, NEW c \in Cells, SweepStore!LogTrial(p, c)
    PROVE  SweepInv'
<1>1. /\ sweeper[p].at[c] = "hashed" /\ sweeper' = [sweeper EXCEPT ![p].at[c] = "logged"]
      /\ UNCHANGED <<disk, results, passed>>
  BY DEF SweepStore!LogTrial
<1>2. /\ sweeper[p] \in Sweeping /\ \A d \in Cells : CellSound(sweeper[p], d)
      /\ trials \in [Cells -> SUBSET SweepStore!Versions]
  BY DEF SweepInv
<1>3. sweeper[p].code \in SweepStore!Versions
  <2>1. sweeper[p].code # 0 /\ sweeper[p].code \in 0..(MaxEdits + 1)
    BY <1>1, <1>2 DEF CellSound, Sweeping
  <2> QED
    BY <2>1, EditsAre DEF SweepStore!Versions
<1>4. /\ snags' \in 0..MaxSnags
      /\ trials' \in [Cells -> SUBSET SweepStore!Versions]
      /\ \A d \in Cells : trials[d] \subseteq trials'[d]
      /\ unlogged \subseteq unlogged'
      /\ sweeper[p].code \in trials'[c] \/ <<c, sweeper[p].code>> \in unlogged'
  <2>1. CASE /\ trials' = [trials EXCEPT ![c] = SweepStore!Counted(@, sweeper[p].code)]
             /\ UNCHANGED <<unlogged, snags>>
    BY <1>2, <1>3, <2>1 DEF SweepStore!Counted, SweepInv
  <2>2. CASE /\ snags < MaxSnags /\ snags' = snags + 1
             /\ unlogged' = unlogged \union {<<c, sweeper[p].code>>}
             /\ UNCHANGED trials
    BY <1>2, <2>2, SnagIs
  <2> QED
    BY <2>1, <2>2 DEF SweepStore!LogTrial
<1> DEFINE after == [sweeper[p] EXCEPT !.at = [sweeper[p].at EXCEPT ![c] = "logged"]]
<1>5. /\ after \in Sweeping /\ after.code = sweeper[p].code /\ after.hash = sweeper[p].hash
      /\ after.late = sweeper[p].late
      /\ \A d \in Cells : after.at[d] = IF d = c THEN "logged" ELSE sweeper[p].at[d]
  BY <1>2 DEF Sweeping, Ats
<1>6. sweeper' = [sweeper EXCEPT ![p] = after]
  BY <1>1
<1> HIDE DEF after
<1>7. PICK s \in Sweeping : s = after
  BY <1>5
<1>8. \A d \in Cells : \A v : Known(d, v) => Known(d, v)'
  BY <1>4 DEF Known
<1>9. \A d \in Cells : CellSound(s, d)'
  <2>1. CellSound(s, c)'
    BY <1>1, <1>2, <1>4, <1>5, <1>7 DEF CellSound, Known
  <2>2. \A d \in Cells : d # c => CellSound(s, d)'
    BY <1>2, <1>5, <1>8, <1>7 DEF CellSound
  <2> QED
    BY <2>1, <2>2
<1>10. SweepStore!PassedIsCurrent'
  BY <1>1 DEF SweepInv, SweepStore!PassedIsCurrent
<1> QED
  BY <1>1, <1>4, <1>5, <1>6, <1>9, <1>10, <1>7, SweepMoves

LEMMA UpsertKeeps ==
    ASSUME SweepInv, NEW p \in Sweepers, NEW c \in Cells, SweepStore!Upsert(p, c)
    PROVE  SweepInv'
<1>0. PICK status \in SweepStore!Flagged(sweeper[p].at[c]) :
          results' = [results EXCEPT ![c] = [status |-> status, hash |-> sweeper[p].hash[c],
                         ran |-> sweeper[p].code, late |-> sweeper[p].late[c]]]
  BY DEF SweepStore!Upsert
<1> DEFINE row == [status |-> status, hash |-> sweeper[p].hash[c], ran |-> sweeper[p].code,
                   late |-> sweeper[p].late[c]]
<1>1. /\ sweeper[p].at[c] \in {"logged", "failed"} /\ results' = [results EXCEPT ![c] = row]
      /\ sweeper' = [sweeper EXCEPT ![p].at[c] = "no", ![p].hash[c] = 0, ![p].late[c] = FALSE]
      /\ UNCHANGED <<disk, trials, passed, unlogged, snags>>
  BY <1>0 DEF SweepStore!Upsert
<1>2. /\ sweeper[p] \in Sweeping /\ \A d \in Cells : CellSound(sweeper[p], d)
      /\ sweeper \in [Sweepers -> Sweeping] /\ results \in [Cells -> Rows]
      /\ \A d \in Cells : RowSound(results[d], d)
  BY DEF SweepInv
<1>3. /\ status \in {"ok", "degenerate", "disabled", "error"}
      /\ status = "ok" => sweeper[p].at[c] = "logged"
  BY <1>0 DEF SweepStore!Flagged
<1>4. row \in Rows /\ RowSound(row, c)
  <2>1. row \in Rows
    BY <1>2, <1>3 DEF Rows, Sweeping
  <2>2. CellSound(sweeper[p], c) /\ sweeper[p].late[c] \in BOOLEAN
    BY <1>2 DEF Sweeping
  <2>3. RowSound(row, c)
    BY <1>1, <1>3, <2>2 DEF RowSound, CellSound
  <2> QED
    BY <2>1, <2>3
<1> HIDE DEF row
<1>5. results' \in [Cells -> Rows] /\ \A d \in Cells : RowSound(results'[d], d)
  BY <1>1, <1>2, <1>4
<1> DEFINE s == [sweeper[p] EXCEPT !.at = [sweeper[p].at EXCEPT ![c] = "no"],
                                   !.hash = [sweeper[p].hash EXCEPT ![c] = 0],
                                   !.late = [sweeper[p].late EXCEPT ![c] = FALSE]]
<1>6. sweeper' = [sweeper EXCEPT ![p] = s]
  BY <1>1, <1>2 DEF Sweeping
<1>7. /\ s \in Sweeping /\ s.code = sweeper[p].code /\ s.at[c] = "no"
      /\ \A d \in Cells : d # c => /\ s.at[d] = sweeper[p].at[d] /\ s.hash[d] = sweeper[p].hash[d]
                                   /\ s.late[d] = sweeper[p].late[d]
  BY <1>2 DEF Sweeping, Ats
<1> HIDE DEF s
<1>8. /\ sweeper' \in [Sweepers -> Sweeping]
      /\ \A q \in Sweepers : sweeper'[q] = IF q = p THEN s ELSE sweeper[q]
  BY <1>2, <1>6, <1>7
<1>9. \A q \in Sweepers, d \in Cells : CellSound(sweeper'[q], d)
  <2>1. \A d \in Cells : CellSound(s, d)
    BY <1>2, <1>7 DEF CellSound
  <2> QED
    BY <1>8, <2>1 DEF SweepInv
<1>10. \A d, v : Known(d, v)' = Known(d, v)
  BY <1>1 DEF Known
<1>11. /\ \A d \in Cells : RowSound(results[d], d)'
       /\ \A q \in Sweepers, d \in Cells : CellSound(sweeper[q], d)'
  BY <1>5, <1>9, <1>10 DEF RowSound, CellSound
<1>12. SweepStore!PassedIsCurrent'
  BY <1>1 DEF SweepInv, SweepStore!PassedIsCurrent
<1> QED
  BY <1>1, <1>5, <1>8, <1>11, <1>12 DEF SweepInv

LEMMA EditKeeps == ASSUME SweepInv, SweepStore!Edit PROVE SweepInv'
<1>1. disk' \in 1..(MaxEdits + 1) /\ UNCHANGED <<results, sweeper, trials, passed, unlogged, snags>>
  BY ComponentsBounds DEF SweepInv, SweepStore!Edit
<1> QED
  BY <1>1 DEF SweepInv, CellSound, RowSound, Known, SweepStore!PassedIsCurrent

LEMMA SweepKeeps == ASSUME SweepInv, [SweepStore!Next]_SweepVars PROVE SweepInv'
<1>1. CASE UNCHANGED SweepVars
  BY <1>1 DEF SweepVars, SweepInv, CellSound, RowSound, Known, SweepStore!PassedIsCurrent
<1> QED
  BY <1>1, ProcessKeeps, ResumeKeeps, RunCellKeeps, HashCellKeeps, LogTrialKeeps, UpsertKeeps,
     EditKeeps DEF SweepStore!Next

LEMMA SweepCounted == ASSUME SweepInv PROVE SweepStore!TypeOK /\ SweepStore!StoredIsCounted
<1>1. SweepStore!TypeOK
  BY DEF SweepInv, SweepStore!TypeOK, Rows, Sweeping, Ats
<1>2. SweepStore!StoredIsCounted
  BY DEF SweepInv, RowSound, Known, SweepStore!StoredIsCounted
<1> QED
  BY <1>1, <1>2


-----------------------------------------------------------------------------
(* The request limit *)

Calls == [pc : {"look", "send", "done", "failed", "compare", "open", "write", "back"},
          attempt : 0..(Retries - 1), wake : Int, until : Nat, found : {0}, limited : BOOLEAN]

LimitBackoff(n) == RestBudget!Backoff(TRUE, n)
NetBackoff(n) == RestBudget!Backoff(FALSE, n)

\* A caller sends only when its own pause is over; before it goes to sleep the
\* pause is not longer than the one it will take.
CallSound(k) ==
    /\ k.pc \in {"send", "done", "failed"} => k.until <= clock
    /\ k.pc = "look" => k.until <= k.wake \/ k.until <= clock
    /\ k.pc \in {"compare", "open", "write", "back"} =>
          /\ k.attempt < Retries - 1
          /\ k.until <= clock + LimitBackoff(k.attempt)
    /\ k.pc \in {"compare", "open", "write"} => k.limited
    /\ k.pc = "back" /\ ~k.limited => k.until <= clock

BudgetInv ==
    /\ clock \in 0..MaxClock /\ pause \in {RestBudget!Torn} \union Nat
    /\ call \in [Callers -> Calls]
    /\ \A c \in Callers : CallSound(call[c])

LEMMA BackoffIs ==
    ASSUME NEW n \in 0..(Retries - 1)
    PROVE  LimitBackoff(n) \in Nat /\ NetBackoff(n) \in Nat
  BY ComponentsBounds DEF LimitBackoff, NetBackoff, RestBudget!Backoff

LEMMA BudgetInit == ASSUME RestBudget!Init PROVE BudgetInv
<1> DEFINE k == [pc |-> "look", attempt |-> 0, wake |-> 0, until |-> 0, found |-> 0, limited |-> FALSE]
<1>1. 0 \in Nat /\ 0 \in 0..MaxClock /\ 0 \in 0..(Retries - 1)
  BY ComponentsBounds
<1>2. k \in Calls
  BY <1>1 DEF Calls
<1>3. k.pc = "look" /\ k.until = 0 /\ k.wake = 0 /\ k.limited = FALSE
  OBVIOUS
<1>4. call = [c \in Callers |-> k] /\ clock = 0 /\ pause = 0
  BY DEF RestBudget!Init
<1> HIDE DEF k
<1>5. CallSound(k)
  BY <1>3, <1>4 DEF CallSound
<1> QED
  BY <1>1, <1>2, <1>4, <1>5 DEF BudgetInv

\* One caller moves.
LEMMA CallMoves ==
    ASSUME BudgetInv, NEW c \in Callers, NEW k \in Calls, call' = [call EXCEPT ![c] = k],
           UNCHANGED clock, pause' \in {RestBudget!Torn} \union Nat, CallSound(k)
    PROVE  BudgetInv'
<1>1. /\ call' \in [Callers -> Calls]
      /\ \A d \in Callers : call'[d] = IF d = c THEN k ELSE call[d]
  BY DEF BudgetInv
<1>2. \A d \in Callers : CallSound(call'[d])
  BY <1>1 DEF BudgetInv
<1>3. \A d \in Callers : CallSound(call[d])'
  BY <1>2 DEF CallSound
<1> QED
  BY <1>1, <1>3 DEF BudgetInv

LEMMA CallTypes ==
    ASSUME BudgetInv, NEW c \in Callers
    PROVE  /\ call[c] \in Calls /\ CallSound(call[c])
           /\ clock \in Nat /\ pause \in Int /\ Retries \in Nat /\ Retries >= 1
           /\ call[c].attempt \in 0..(Retries - 1) /\ call[c].wake \in Int /\ call[c].until \in Nat
           /\ LimitBackoff(call[c].attempt) \in Nat
           /\ NetBackoff(call[c].attempt) \in Nat
<1>1. call[c] \in Calls /\ CallSound(call[c])
  BY DEF BudgetInv
<1>2. call[c].attempt \in 0..(Retries - 1) /\ call[c].wake \in Int /\ call[c].until \in Nat
  BY <1>1 DEF Calls
<1>3. /\ LimitBackoff(call[c].attempt) \in Nat
      /\ NetBackoff(call[c].attempt) \in Nat
  BY <1>2, BackoffIs
<1>4. Retries \in Nat /\ Retries >= 1 /\ MaxClock \in Nat
  BY ComponentsBounds
<1>5. clock \in Nat /\ pause \in Int
  BY <1>4 DEF BudgetInv, RestBudget!Torn
<1> QED
  BY <1>1, <1>2, <1>3, <1>4, <1>5

LEMMA LookKeeps ==
    ASSUME BudgetInv, NEW c \in Callers, RestBudget!Look(c)
    PROVE  BudgetInv'
<1>0. /\ clock \in Nat /\ call[c].wake \in Int /\ call[c].until \in Nat /\ CallSound(call[c])
      /\ LimitBackoff(call[c].attempt) \in Nat
      /\ NetBackoff(call[c].attempt) \in Nat
  BY CallTypes
<1> DEFINE k == [call[c] EXCEPT !.pc = "send", !.wake = pause]
<1>1. /\ call[c].pc = "look" /\ clock >= call[c].wake /\ UNCHANGED <<clock, pause>>
      /\ call' = [call EXCEPT ![c] = k]
  BY <1>0 DEF RestBudget!Look, RestBudget!Step, RestBudget!Asleep
<1>2. k \in Calls /\ k.pc = "send" /\ k.until = call[c].until
  BY CallTypes DEF Calls
<1>3. CallSound(k)
  BY <1>0, <1>1, <1>2 DEF CallSound
<1> QED
  BY <1>1, <1>2, <1>3, CallMoves DEF BudgetInv

LEMMA AnswerKeeps ==
    ASSUME BudgetInv, NEW c \in Callers, RestBudget!Answered(c) \/ RestBudget!GivesUp(c)
    PROVE  BudgetInv'
<1>1. PICK to \in {"done", "failed"} :
        /\ call[c].pc = "send" /\ UNCHANGED <<clock, pause>>
        /\ call' = [call EXCEPT ![c] = [call[c] EXCEPT !.pc = to]]
  BY DEF RestBudget!Answered, RestBudget!GivesUp, RestBudget!Step
<1> DEFINE k == [call[c] EXCEPT !.pc = to]
<1>2. k \in Calls /\ k.pc = to /\ k.until = call[c].until
  BY CallTypes DEF Calls
<1>3. CallSound(k)
  BY <1>1, <1>2, CallTypes DEF CallSound
<1> QED
  BY <1>1, <1>2, <1>3, CallMoves DEF BudgetInv

LEMMA FailsKeeps ==
    ASSUME BudgetInv, NEW c \in Callers, RestBudget!Fails(c)
    PROVE  BudgetInv'
<1>0. /\ clock \in Nat /\ call[c].wake \in Int /\ call[c].until \in Nat /\ CallSound(call[c])
      /\ LimitBackoff(call[c].attempt) \in Nat
      /\ NetBackoff(call[c].attempt) \in Nat
  BY CallTypes
<1>1. PICK limited \in BOOLEAN :
        /\ call[c].pc = "send" /\ call[c].attempt < Retries - 1 /\ UNCHANGED <<clock, pause>>
        /\ call' = [call EXCEPT ![c] = [call[c] EXCEPT
              !.pc = IF limited THEN "compare" ELSE "back", !.limited = limited,
              !.until = IF limited THEN clock + LimitBackoff(call[c].attempt)
                        ELSE call[c].until]]
  BY DEF RestBudget!Fails, RestBudget!Step, LimitBackoff
<1> DEFINE to == IF limited THEN "compare" ELSE "back"
           until == IF limited THEN clock + LimitBackoff(call[c].attempt)
                    ELSE call[c].until
<1>2. /\ to \in {"compare", "back"} /\ until \in Nat /\ (limited <=> to = "compare")
      /\ until <= clock + LimitBackoff(call[c].attempt)
      /\ ~limited => until <= clock
  <2>1. call[c].until <= clock
    BY <1>0, <1>1 DEF CallSound
  <2>2. CASE limited = TRUE
    BY <1>0, <2>2
  <2>3. CASE limited = FALSE
    BY <1>0, <2>1, <2>3
  <2> QED
    BY <2>2, <2>3
<1> HIDE DEF to, until
<1> DEFINE k == [call[c] EXCEPT !.pc = to, !.limited = limited, !.until = until]
<1>3. /\ k \in Calls /\ k.pc = to /\ k.until = until /\ k.limited = limited
      /\ k.attempt = call[c].attempt
  BY <1>2, CallTypes DEF Calls
<1>4. call' = [call EXCEPT ![c] = k]
  BY <1>1 DEF to, until
<1> HIDE DEF k
<1>5. CallSound(k)
  BY <1>1, <1>2, <1>3 DEF CallSound
<1> QED
  BY <1>1, <1>3, <1>4, <1>5, CallMoves DEF BudgetInv

LEMMA SharesKeeps ==
    ASSUME BudgetInv, NEW c \in Callers,
           RestBudget!Compare(c) \/ RestBudget!Truncate(c) \/ RestBudget!Write(c)
    PROVE  BudgetInv'
<1>1. PICK to \in {"open", "write", "back"} :
        /\ call[c].pc \in {"compare", "open", "write"} /\ UNCHANGED clock
        /\ call' = [call EXCEPT ![c] = [call[c] EXCEPT !.pc = to]]
        /\ pause' \in {RestBudget!Torn} \union Nat
  BY CallTypes DEF RestBudget!Compare, RestBudget!Truncate, RestBudget!Write, RestBudget!Step,
                   BudgetInv
<1> DEFINE k == [call[c] EXCEPT !.pc = to]
<1>2. /\ k \in Calls /\ k.pc = to /\ k.until = call[c].until /\ k.limited = call[c].limited
      /\ k.attempt = call[c].attempt
  BY CallTypes DEF Calls
<1> HIDE DEF k
<1>3. CallSound(k)
  BY <1>1, <1>2, CallTypes DEF CallSound
<1> QED
  BY <1>1, <1>2, <1>3, CallMoves DEF k

LEMMA BackKeeps ==
    ASSUME BudgetInv, NEW c \in Callers, RestBudget!Back(c)
    PROVE  BudgetInv'
<1>0. /\ clock \in Nat /\ call[c].wake \in Int /\ call[c].until \in Nat /\ CallSound(call[c])
      /\ LimitBackoff(call[c].attempt) \in Nat
      /\ NetBackoff(call[c].attempt) \in Nat
  BY CallTypes
<1> DEFINE wake == clock + (IF call[c].limited THEN LimitBackoff(call[c].attempt)
                            ELSE NetBackoff(call[c].attempt))
<1>1. /\ call[c].pc = "back" /\ UNCHANGED <<clock, pause>>
      /\ call' = [call EXCEPT ![c] = [call[c] EXCEPT !.pc = "look", !.attempt = call[c].attempt + 1,
                                                     !.wake = wake]]
  BY DEF RestBudget!Back, RestBudget!Step, LimitBackoff, NetBackoff, RestBudget!Backoff
<1>2. call[c].limited \in BOOLEAN
  BY CallTypes DEF Calls
<1>3. wake \in Int /\ (call[c].until <= wake \/ call[c].until <= clock)
  BY <1>0, <1>1, <1>2 DEF CallSound
<1> HIDE DEF wake
<1> DEFINE k == [call[c] EXCEPT !.pc = "look", !.attempt = call[c].attempt + 1, !.wake = wake]
<1>4. call[c].attempt + 1 \in 0..(Retries - 1)
  <2>1. call[c].attempt < Retries - 1
    BY <1>0, <1>1 DEF CallSound
  <2>2. call[c].attempt \in 0..(Retries - 1)
    BY CallTypes
  <2> QED
    BY <2>1, <2>2, ComponentsBounds
<1>5. k \in Calls /\ k.pc = "look" /\ k.until = call[c].until /\ k.wake = wake
  BY <1>3, <1>4, CallTypes DEF Calls
<1> HIDE DEF k
<1>6. CallSound(k)
  BY <1>3, <1>5 DEF CallSound
<1> QED
  BY <1>1, <1>5, <1>6, CallMoves DEF k, BudgetInv

LEMMA TickKeeps == ASSUME BudgetInv, RestBudget!Tick PROVE BudgetInv'
<1>1. clock \in 0..MaxClock /\ clock' = clock + 1 /\ clock' \in 0..MaxClock /\ UNCHANGED <<pause, call>>
  BY ComponentsBounds DEF BudgetInv, RestBudget!Tick
<1>2. ASSUME NEW c \in Callers PROVE CallSound(call[c])'
  BY <1>1, CallTypes DEF CallSound
<1> QED
  BY <1>1, <1>2 DEF BudgetInv

LEMMA BudgetKeeps == ASSUME BudgetInv, [RestBudget!Next]_BudgetVars PROVE BudgetInv'
<1>1. CASE UNCHANGED BudgetVars
  BY <1>1 DEF BudgetVars, BudgetInv, CallSound
<1> QED
  BY <1>1, LookKeeps, AnswerKeeps, FailsKeeps, SharesKeeps, BackKeeps, TickKeeps
     DEF RestBudget!Next, RestBudget!CallStep

LEMMA BudgetPauses == ASSUME BudgetInv PROVE RestBudget!TypeOK /\ RestBudget!OwnPauseIsKept
<1>1. RestBudget!TypeOK
  BY CallTypes DEF BudgetInv, RestBudget!TypeOK, Calls
<1>2. RestBudget!OwnPauseIsKept
  BY CallTypes DEF CallSound, RestBudget!OwnPauseIsKept
<1> QED
  BY <1>1, <1>2


-----------------------------------------------------------------------------
(* The recorders *)

LEMMA DivMonotone ==
    ASSUME NEW a \in Nat, NEW m \in Nat, a <= m, NEW n \in Nat \ {0}
    PROVE  a \div n \in 0..(m \div n)
<1>1. a \div n \in Nat /\ m \div n \in Nat
  OBVIOUS
<1>2. a \div n <= m \div n
  OBVIOUS
<1> QED
  BY <1>1, <1>2

Recording == [pc : {"recv", "append", "write", "reconnect", "done"}, rows : SUBSET Nat,
              todo : SUBSET Recorder!FileDays, old : SUBSET Nat, last : BOOLEAN]

\* The file of the event's day has a row of its timestamp.
Kept(i) == stamps[i] \in Recorder!Stamps(partition[Recorder!DayOf(i)])

\* A recorder holds one file at most, and has read what is in it.
LocksSound ==
    /\ \A d \in Recorder!FileDays, r \in Recorders :
          held[d] = r => recorder[r].pc = "write" /\ recorder[r].old = partition[d]
    /\ \A d, e \in Recorder!FileDays : held[d] = held[e] /\ held[d] # Recorder!Nobody => d = e

\* Rows of a day that is not left to write are in its file.
RowsSound ==
    \A r \in Recorders : recorder[r].pc \in {"append", "write"} =>
        \A i \in recorder[r].rows : Recorder!DayOf(i) \in recorder[r].todo \/ Kept(i)

RecTypes ==
    /\ stamps \in Seq(Nat) /\ Len(stamps) <= MaxEvents
    /\ \A i \in DOMAIN stamps : stamps[i] < i
    /\ partition \in [Recorder!FileDays -> SUBSET DOMAIN stamps]
    /\ recorder \in [Recorders -> Recording]
    /\ \A r \in Recorders : recorder[r].rows \subseteq DOMAIN stamps /\ recorder[r].old \subseteq DOMAIN stamps
    /\ held \in [Recorder!FileDays -> Recorders \union {Recorder!Nobody}]
    /\ gone \subseteq DOMAIN stamps /\ mishaps \in 0..MaxMishaps

RecInv == RecTypes /\ LocksSound /\ RowsSound /\ Recorder!ReceivedIsKept

LEMMA FileDayIs ==
    ASSUME NEW t \in Nat, t <= MaxEvents
    PROVE  t \div PerDay \in Recorder!FileDays
  BY DivMonotone, ComponentsBounds DEF Recorder!FileDays

LEMMA DayIs ==
    ASSUME RecTypes, NEW i \in DOMAIN stamps
    PROVE  Recorder!DayOf(i) \in Recorder!FileDays
<1>1. stamps[i] \in Nat /\ i \in Nat /\ i <= MaxEvents /\ stamps[i] < i /\ MaxEvents \in Nat
  BY ComponentsBounds DEF RecTypes
<1>2. stamps[i] <= MaxEvents
  BY <1>1
<1> QED
  BY <1>1, <1>2, FileDayIs DEF Recorder!DayOf

LEMMA ListeningIs ==
    /\ Recorder!Listening \in Recording /\ Recorder!Listening.rows = {}
    /\ Recorder!Listening.old = {} /\ Recorder!Listening.pc = "recv"
    /\ Recorder!Listening.todo = {} /\ Recorder!Listening.last = FALSE
  BY DEF Recorder!Listening, Recording

LEMMA RecInit == ASSUME Recorder!Init PROVE RecInv
<1>1. /\ stamps = <<>> /\ partition = [d \in Recorder!FileDays |-> {}]
      /\ recorder = [r \in Recorders |-> Recorder!Listening]
      /\ held = [d \in Recorder!FileDays |-> Recorder!Nobody] /\ gone = {} /\ mishaps = 0
  BY DEF Recorder!Init
<1>2. stamps \in Seq(Nat) /\ Len(stamps) = 0 /\ DOMAIN stamps = {}
  BY <1>1
<1>3. 0 \in 0..MaxMishaps /\ 0 <= MaxEvents
  BY ComponentsBounds
<1>4. RecTypes
  BY <1>1, <1>2, <1>3, ListeningIs DEF RecTypes
<1>5. LocksSound
  BY <1>1, ComponentsBounds DEF LocksSound, Recorder!Nobody
<1>6. RowsSound /\ Recorder!ReceivedIsKept
  BY <1>1, <1>2, ListeningIs DEF RowsSound, Recorder!ReceivedIsKept
<1> QED
  BY <1>4, <1>5, <1>6 DEF RecInv

\* One recorder moves, and no event arrives: what it loses is in its file or gone.
Moved(r, s) ==
    /\ recorder' = [recorder EXCEPT ![r] = s]
    /\ s.rows \subseteq DOMAIN stamps /\ s.old \subseteq DOMAIN stamps
    /\ partition' \in [Recorder!FileDays -> SUBSET DOMAIN stamps]
    /\ held' \in [Recorder!FileDays -> Recorders \union {Recorder!Nobody}]
    /\ gone \subseteq gone' /\ gone' \subseteq DOMAIN stamps /\ mishaps' \in 0..MaxMishaps
    /\ \A i \in DOMAIN stamps : Kept(i) => Kept(i)'
    /\ \A d \in Recorder!FileDays : held'[d] = r => s.pc = "write" /\ s.old = partition'[d]
    /\ \A d \in Recorder!FileDays : held'[d] \notin {r, Recorder!Nobody} =>
          held'[d] = held[d] /\ partition'[d] = partition[d]
    /\ \A d, e \in Recorder!FileDays : held'[d] = r /\ held'[e] = r => d = e
    /\ s.pc \in {"append", "write"} =>
          \A i \in s.rows : Recorder!DayOf(i) \in s.todo \/ Kept(i)'
    /\ \A i \in recorder[r].rows : i \in s.rows \/ i \in gone' \/ Kept(i)'

LEMMA RecMoves ==
    ASSUME RecInv, UNCHANGED stamps, NEW r \in Recorders, NEW s \in Recording, Moved(r, s)
    PROVE  RecInv'
<1> USE DEF Moved
<1>1. /\ recorder' \in [Recorders -> Recording]
      /\ \A q \in Recorders : recorder'[q] = IF q = r THEN s ELSE recorder[q]
  BY DEF RecInv, RecTypes
<1>2. RecTypes'
  BY <1>1 DEF RecInv, RecTypes
<1>3. LocksSound'
  <2>1. ASSUME NEW d \in Recorder!FileDays, NEW q \in Recorders, held'[d] = q
        PROVE  recorder'[q].pc = "write" /\ recorder'[q].old = partition'[d]
    <3>1. CASE q = r
      BY <1>1, <2>1, <3>1
    <3>2. CASE q # r
      BY <1>1, <2>1, <3>2, ComponentsBounds DEF RecInv, LocksSound, Recorder!Nobody
    <3> QED
      BY <3>1, <3>2
  <2>2. ASSUME NEW d \in Recorder!FileDays, NEW e \in Recorder!FileDays,
               held'[d] = held'[e], held'[d] # Recorder!Nobody
        PROVE  d = e
    BY <2>2 DEF RecInv, LocksSound
  <2> QED
    BY <2>1, <2>2 DEF LocksSound
<1>4. \A i \in DOMAIN stamps : Recorder!DayOf(i)' = Recorder!DayOf(i)
  BY DEF Recorder!DayOf
<1>5. RowsSound'
  <2>1. SUFFICES ASSUME NEW q \in Recorders, recorder'[q].pc \in {"append", "write"},
                        NEW i \in recorder'[q].rows
                 PROVE  Recorder!DayOf(i)' \in recorder'[q].todo \/ Kept(i)'
    BY DEF RowsSound
  <2>2. i \in DOMAIN stamps
    BY <1>2 DEF RecTypes
  <2>3. CASE q = r
    BY <1>1, <1>4, <2>1, <2>2, <2>3
  <2>4. CASE q # r
    BY <1>1, <1>4, <2>1, <2>2, <2>4 DEF RecInv, RowsSound
  <2> QED
    BY <2>3, <2>4
<1>6. Recorder!ReceivedIsKept'
  <2>1. SUFFICES ASSUME NEW i \in DOMAIN stamps
                 PROVE  i \in gone' \/ (\E q \in Recorders : i \in recorder'[q].rows) \/ Kept(i)'
    BY DEF Recorder!ReceivedIsKept, Kept
  <2>2. i \in gone \/ (\E q \in Recorders : i \in recorder[q].rows) \/ Kept(i)
    BY DEF RecInv, Recorder!ReceivedIsKept, Kept
  <2>3. CASE \E q \in Recorders : i \in recorder[q].rows
    BY <1>1, <2>3
  <2> QED
    BY <2>2, <2>3
<1> QED
  BY <1>2, <1>3, <1>5, <1>6 DEF RecInv

\* The files do not change.
LEMMA FilesStay ==
    ASSUME UNCHANGED <<stamps, partition>>, NEW i
    PROVE  Kept(i)' <=> Kept(i)
  BY DEF Kept, Recorder!Stamps, Recorder!DayOf

LEMMA MishapIs == ASSUME RecInv, Recorder!Mishap PROVE mishaps' \in 0..MaxMishaps
  BY ComponentsBounds DEF RecInv, RecTypes, Recorder!Mishap

LEMMA ReleasedIs ==
    ASSUME RecInv, NEW r \in Recorders, held' = Recorder!Released(r)
    PROVE  /\ held' \in [Recorder!FileDays -> Recorders \union {Recorder!Nobody}]
           /\ \A d \in Recorder!FileDays :
                 held'[d] # r /\ (held'[d] \notin {r, Recorder!Nobody} => held'[d] = held[d])
<1>1. Recorder!Nobody # r
  BY ComponentsBounds DEF Recorder!Nobody
<1> QED
  BY <1>1 DEF RecInv, RecTypes, Recorder!Released


LEMMA RecorderIs ==
    ASSUME RecInv, NEW r \in Recorders
    PROVE  /\ recorder[r] \in Recording
           /\ recorder[r].rows \subseteq DOMAIN stamps /\ recorder[r].old \subseteq DOMAIN stamps
           /\ recorder[r].todo \subseteq Recorder!FileDays /\ recorder[r].last \in BOOLEAN
           /\ r # Recorder!Nobody
           /\ recorder[r].pc # "write" => \A d \in Recorder!FileDays : held[d] # r
  BY ComponentsBounds DEF RecInv, RecTypes, Recording, LocksSound, Recorder!Nobody

LEMMA RecStateIs ==
    ASSUME RecInv
    PROVE  /\ partition \in [Recorder!FileDays -> SUBSET DOMAIN stamps]
           /\ held \in [Recorder!FileDays -> Recorders \union {Recorder!Nobody}]
           /\ gone \subseteq DOMAIN stamps /\ mishaps \in 0..MaxMishaps
  BY DEF RecInv, RecTypes

\* The connection is closed, comes back, or a failed write leaves the buffer.
LEMMA ConnectionKeeps ==
    ASSUME RecInv, NEW r \in Recorders,
           Recorder!Disconnect(r) \/ Recorder!Reconnect(r) \/ Recorder!AppendFails(r)
    PROVE  RecInv'
<1>1. UNCHANGED <<stamps, partition, gone>> /\ mishaps' \in 0..MaxMishaps
  BY MishapIs DEF Recorder!Disconnect, Recorder!Reconnect, Recorder!AppendFails, RecInv, RecTypes
<1>2. /\ held' \in [Recorder!FileDays -> Recorders \union {Recorder!Nobody}]
      /\ \A d \in Recorder!FileDays :
            held'[d] # r /\ (held'[d] \notin {r, Recorder!Nobody} => held'[d] = held[d])
  <2>1. CASE held' = Recorder!Released(r)
    BY <2>1, ReleasedIs
  <2>2. CASE held' = held /\ recorder[r].pc # "write"
    BY <2>2, RecorderIs DEF RecInv, RecTypes
  <2> QED
    BY <2>1, <2>2 DEF Recorder!Disconnect, Recorder!Reconnect, Recorder!AppendFails, Recorder!At
<1>3. PICK s \in Recording :
        /\ recorder' = [recorder EXCEPT ![r] = s]
        /\ s.rows = recorder[r].rows /\ s.old \subseteq DOMAIN stamps
        /\ s.pc \in {"recv", "reconnect"}
  <2>1. CASE Recorder!AppendFails(r)
    <3> DEFINE s == [Recorder!Listening EXCEPT !.pc = "reconnect", !.rows = recorder[r].rows]
    <3>1. s \in Recording /\ s.rows = recorder[r].rows /\ s.old = {} /\ s.pc = "reconnect"
      BY RecorderIs DEF Recorder!Listening, Recording
    <3> QED
      BY <2>1, <3>1 DEF Recorder!AppendFails
  <2>2. CASE Recorder!Disconnect(r) \/ Recorder!Reconnect(r)
    <3>1. PICK pc \in {"recv", "reconnect"} : recorder' = [recorder EXCEPT ![r].pc = pc]
      BY <2>2 DEF Recorder!Disconnect, Recorder!Reconnect
    <3> DEFINE s == [recorder[r] EXCEPT !.pc = pc]
    <3>2. s \in Recording /\ s.rows = recorder[r].rows /\ s.old = recorder[r].old /\ s.pc = pc
      BY RecorderIs DEF Recording
    <3> QED
      BY <3>1, <3>2, RecorderIs
  <2> QED
    BY <2>1, <2>2
<1>4. \A i : Kept(i)' <=> Kept(i)
  BY <1>1, FilesStay
<1>5. /\ partition \in [Recorder!FileDays -> SUBSET DOMAIN stamps]
      /\ held \in [Recorder!FileDays -> Recorders \union {Recorder!Nobody}]
      /\ gone \subseteq DOMAIN stamps /\ mishaps \in 0..MaxMishaps
      /\ recorder[r].rows \subseteq DOMAIN stamps /\ recorder[r].old \subseteq DOMAIN stamps
      /\ recorder[r].pc # "write" => \A d \in Recorder!FileDays : held[d] # r
  BY RecStateIs, RecorderIs
<1>6. Moved(r, s)
  BY <1>1, <1>2, <1>3, <1>4, <1>5 DEF Moved
<1> QED
  BY <1>1, <1>2, <1>3, <1>4, <1>6, RecMoves

LEMMA DieKeeps ==
    ASSUME RecInv, NEW r \in Recorders, Recorder!Die(r)
    PROVE  RecInv'
<1> DEFINE s == [Recorder!Listening EXCEPT !.pc = "done"]
<1>1. /\ UNCHANGED <<stamps, partition>> /\ mishaps' \in 0..MaxMishaps
      /\ gone' = gone \union recorder[r].rows
      /\ held' = Recorder!Released(r) /\ recorder' = [recorder EXCEPT ![r] = s]
  BY MishapIs DEF Recorder!Die
<1>2. s \in Recording /\ s.rows = {} /\ s.old = {} /\ s.pc = "done"
  BY DEF Recorder!Listening, Recording
<1>3. \A i : Kept(i)' <=> Kept(i)
  BY <1>1, FilesStay
<1>4. /\ gone' \subseteq DOMAIN stamps
      /\ held' \in [Recorder!FileDays -> Recorders \union {Recorder!Nobody}]
      /\ \A d \in Recorder!FileDays :
            held'[d] # r /\ (held'[d] \notin {r, Recorder!Nobody} => held'[d] = held[d])
  BY <1>1, RecorderIs, RecStateIs, ReleasedIs
<1> HIDE DEF s
<1>5. /\ partition \in [Recorder!FileDays -> SUBSET DOMAIN stamps]
      /\ held \in [Recorder!FileDays -> Recorders \union {Recorder!Nobody}]
      /\ gone \subseteq DOMAIN stamps /\ mishaps \in 0..MaxMishaps
      /\ recorder[r].rows \subseteq DOMAIN stamps /\ recorder[r].old \subseteq DOMAIN stamps
      /\ recorder[r].pc # "write" => \A d \in Recorder!FileDays : held[d] # r
  BY RecStateIs, RecorderIs
<1>6. Moved(r, s)
  BY <1>1, <1>2, <1>3, <1>4, <1>5 DEF Moved
<1> QED
  BY <1>1, <1>2, <1>3, <1>4, <1>6, RecMoves

LEMMA FinishKeeps ==
    ASSUME RecInv, NEW r \in Recorders, Recorder!Finish(r)
    PROVE  RecInv'
<1> DEFINE days == Recorder!DaysOf(recorder[r].rows)
<1>1. /\ UNCHANGED <<stamps, partition, held, gone, mishaps>>
      /\ recorder[r].pc \in {"recv", "reconnect"}
      /\ recorder' = [recorder EXCEPT ![r] = [recorder[r] EXCEPT !.pc = "append", !.last = TRUE,
                                                                 !.todo = days]]
  BY DEF Recorder!Finish
<1>2. days \subseteq Recorder!FileDays /\ \A i \in recorder[r].rows : Recorder!DayOf(i) \in days
  BY RecorderIs, DayIs DEF Recorder!DaysOf, RecInv
<1> HIDE DEF days
<1> DEFINE s == [recorder[r] EXCEPT !.pc = "append", !.last = TRUE, !.todo = days]
<1>3. /\ s \in Recording /\ s.rows = recorder[r].rows /\ s.old = recorder[r].old
      /\ s.pc = "append" /\ s.todo = days
  <2>1. recorder[r] \in Recording
    BY RecorderIs
  <2> QED
    BY <1>2, <2>1 DEF Recording
<1>4. recorder' = [recorder EXCEPT ![r] = s]
  BY <1>1
<1>5. \A i : Kept(i)' <=> Kept(i)
  BY <1>1, FilesStay
<1> HIDE DEF s
<1>6. /\ partition \in [Recorder!FileDays -> SUBSET DOMAIN stamps]
      /\ held \in [Recorder!FileDays -> Recorders \union {Recorder!Nobody}]
      /\ gone \subseteq DOMAIN stamps /\ mishaps \in 0..MaxMishaps
      /\ recorder[r].rows \subseteq DOMAIN stamps /\ recorder[r].old \subseteq DOMAIN stamps
      /\ recorder[r].pc # "write" => \A d \in Recorder!FileDays : held[d] # r
  BY RecStateIs, RecorderIs
<1>7. Moved(r, s)
  BY <1>1, <1>2, <1>3, <1>4, <1>5, <1>6 DEF Moved
<1> QED
  BY <1>1, <1>2, <1>3, <1>4, <1>7, RecMoves

LEMMA ReadDayKeeps ==
    ASSUME RecInv, NEW r \in Recorders, Recorder!ReadDay(r)
    PROVE  RecInv'
<1>1. PICK d \in recorder[r].todo :
        /\ held[d] = Recorder!Nobody /\ held' = [held EXCEPT ![d] = r]
        /\ recorder' = [recorder EXCEPT ![r] = [recorder[r] EXCEPT !.pc = "write", !.old = partition[d]]]
  BY DEF Recorder!ReadDay
<1>2. recorder[r].pc = "append" /\ UNCHANGED <<stamps, partition, gone, mishaps>>
  BY DEF Recorder!ReadDay, Recorder!At
<1>3. d \in Recorder!FileDays /\ partition[d] \subseteq DOMAIN stamps /\ DOMAIN stamps \subseteq Nat
  BY RecorderIs DEF RecInv, RecTypes
<1> DEFINE s == [recorder[r] EXCEPT !.pc = "write", !.old = partition[d]]
<1>4. /\ s \in Recording /\ s.rows = recorder[r].rows /\ s.old = partition[d]
      /\ s.pc = "write" /\ s.todo = recorder[r].todo
  BY <1>3, RecorderIs DEF Recording
<1>5. recorder' = [recorder EXCEPT ![r] = s]
  BY <1>1
<1>6. \A i : Kept(i)' <=> Kept(i)
  BY <1>2, FilesStay
<1> HIDE DEF s
<1>7. /\ held' \in [Recorder!FileDays -> Recorders \union {Recorder!Nobody}]
      /\ \A e \in Recorder!FileDays : held'[e] = IF e = d THEN r ELSE held[e]
  BY <1>1, <1>3 DEF RecInv, RecTypes
<1>8. \A e \in Recorder!FileDays : held'[e] = r => e = d
  BY <1>2, <1>7, RecorderIs
<1>9. \A i \in s.rows : Recorder!DayOf(i) \in s.todo \/ Kept(i)'
  BY <1>2, <1>4, <1>6 DEF RecInv, RowsSound
<1>10. /\ partition \in [Recorder!FileDays -> SUBSET DOMAIN stamps]
       /\ held \in [Recorder!FileDays -> Recorders \union {Recorder!Nobody}]
       /\ gone \subseteq DOMAIN stamps /\ mishaps \in 0..MaxMishaps
       /\ recorder[r].rows \subseteq DOMAIN stamps /\ recorder[r].old \subseteq DOMAIN stamps
       /\ recorder[r].pc # "write" => \A e \in Recorder!FileDays : held[e] # r
  BY RecStateIs, RecorderIs
<1>11. /\ \A e \in Recorder!FileDays : held'[e] = r => s.pc = "write" /\ s.old = partition'[e]
       /\ \A e \in Recorder!FileDays : held'[e] \notin {r, Recorder!Nobody} =>
             held'[e] = held[e] /\ partition'[e] = partition[e]
       /\ \A e, f \in Recorder!FileDays : held'[e] = r /\ held'[f] = r => e = f
  BY <1>2, <1>4, <1>7, <1>8
<1>12. /\ s.rows \subseteq DOMAIN stamps /\ s.old \subseteq DOMAIN stamps
       /\ \A i \in recorder[r].rows : i \in s.rows
       /\ gone \subseteq gone' /\ gone' \subseteq DOMAIN stamps /\ mishaps' \in 0..MaxMishaps
  <2>1. s.rows \subseteq DOMAIN stamps
    BY <1>4, <1>10
  <2>2. s.old \subseteq DOMAIN stamps
    BY <1>3, <1>4
  <2>3. \A i \in recorder[r].rows : i \in s.rows
    BY <1>4
  <2>4. gone \subseteq gone' /\ gone' \subseteq DOMAIN stamps
    BY <1>2, <1>10
  <2>5. mishaps' \in 0..MaxMishaps
    BY <1>2, <1>10
  <2> QED
    BY <2>1, <2>2, <2>3, <2>4, <2>5
<1>13. Moved(r, s)
  BY <1>2, <1>5, <1>6, <1>7, <1>9, <1>10, <1>11, <1>12 DEF Moved
<1> QED
  BY <1>2, <1>4, <1>13, RecMoves

LEMMA AppendedKeeps ==
    ASSUME RecInv, NEW r \in Recorders, Recorder!Appended(r)
    PROVE  RecInv'
<1> DEFINE pc == IF recorder[r].last THEN "done" ELSE "recv"
           s == [Recorder!Listening EXCEPT !.pc = pc]
<1>1. /\ recorder[r].pc = "append" /\ recorder[r].todo = {}
      /\ UNCHANGED <<stamps, partition, held, gone, mishaps>>
      /\ recorder' = [recorder EXCEPT ![r] = s]
  BY DEF Recorder!Appended, Recorder!At
<1>2. pc \in {"done", "recv"}
  OBVIOUS
<1> HIDE DEF pc
<1>3. s \in Recording /\ s.rows = {} /\ s.old = {} /\ s.pc = pc
  BY <1>2 DEF Recorder!Listening, Recording
<1>4. \A i : Kept(i)' <=> Kept(i)
  BY <1>1, FilesStay
<1> HIDE DEF s
<1>5. \A i \in recorder[r].rows : Kept(i)
  BY <1>1 DEF RecInv, RowsSound
<1>6. /\ partition \in [Recorder!FileDays -> SUBSET DOMAIN stamps]
      /\ held \in [Recorder!FileDays -> Recorders \union {Recorder!Nobody}]
      /\ gone \subseteq DOMAIN stamps /\ mishaps \in 0..MaxMishaps
      /\ recorder[r].rows \subseteq DOMAIN stamps /\ recorder[r].old \subseteq DOMAIN stamps
      /\ recorder[r].pc # "write" => \A d \in Recorder!FileDays : held[d] # r
  BY RecStateIs, RecorderIs
<1>7. Moved(r, s)
  BY <1>1, <1>2, <1>3, <1>4, <1>5, <1>6 DEF Moved
<1> QED
  BY <1>1, <1>2, <1>3, <1>4, <1>7, RecMoves

LEMMA MergeIs ==
    ASSUME NEW old, NEW part, NEW S \in Recorder!Merge(old, part)
    PROVE  /\ S \subseteq old \union part
           /\ \A t \in Recorder!Stamps(old) : t \in Recorder!Stamps(S)
           /\ \A t \in Recorder!Stamps(part) : t \in Recorder!Stamps(S)
<1>1. CASE old = {}
  BY <1>1 DEF Recorder!Merge, Recorder!Stamps
<1>2. CASE old # {}
  <2>1. S \subseteq old \union part /\ Recorder!Stamps(S) = Recorder!Stamps(old \union part)
    BY <1>2 DEF Recorder!Merge
  <2> QED
    BY <2>1 DEF Recorder!Stamps
<1> QED
  BY <1>1, <1>2

LEMMA WriteDayKeeps ==
    ASSUME RecInv, NEW r \in Recorders, Recorder!WriteDay(r)
    PROVE  RecInv'
<1>1. PICK d \in Recorder!FileDays :
        /\ held[d] = r
        /\ \E S \in Recorder!Merge(recorder[r].old, {i \in recorder[r].rows : Recorder!DayOf(i) = d}) :
              partition' = [partition EXCEPT ![d] = S]
        /\ held' = [held EXCEPT ![d] = Recorder!Nobody]
        /\ recorder' = [recorder EXCEPT ![r] =
              [recorder[r] EXCEPT !.pc = "append", !.todo = recorder[r].todo \ {d}, !.old = {}]]
  BY DEF Recorder!WriteDay
<1> DEFINE part == {i \in recorder[r].rows : Recorder!DayOf(i) = d}
<1>2. PICK S \in Recorder!Merge(recorder[r].old, part) : partition' = [partition EXCEPT ![d] = S]
  BY <1>1
<1>3. recorder[r].pc = "write" /\ UNCHANGED <<stamps, gone, mishaps>>
  BY DEF Recorder!WriteDay, Recorder!At
<1>4. recorder[r].old = partition[d] /\ S \subseteq DOMAIN stamps
  BY <1>1, MergeIs, RecorderIs DEF RecInv, LocksSound
<1>5. /\ partition' \in [Recorder!FileDays -> SUBSET DOMAIN stamps]
      /\ \A e \in Recorder!FileDays : partition'[e] = IF e = d THEN S ELSE partition[e]
  BY <1>2, <1>4 DEF RecInv, RecTypes
<1>6. /\ held' \in [Recorder!FileDays -> Recorders \union {Recorder!Nobody}]
      /\ \A e \in Recorder!FileDays : held'[e] = IF e = d THEN Recorder!Nobody ELSE held[e]
      /\ \A e \in Recorder!FileDays : held'[e] # r
  BY <1>1, RecorderIs DEF RecInv, RecTypes, LocksSound
<1> DEFINE s == [recorder[r] EXCEPT !.pc = "append", !.todo = recorder[r].todo \ {d}, !.old = {}]
<1>7. /\ s \in Recording /\ s.rows = recorder[r].rows /\ s.old = {} /\ s.pc = "append"
      /\ s.todo = recorder[r].todo \ {d}
  <2>1. recorder[r] \in Recording /\ recorder[r].todo \ {d} \in SUBSET Recorder!FileDays
    BY RecorderIs
  <2> QED
    BY <2>1 DEF Recording
<1>8. recorder' = [recorder EXCEPT ![r] = s]
  BY <1>1
<1> HIDE DEF s
<1>9. ASSUME NEW i \in DOMAIN stamps PROVE Kept(i)' <=>
         stamps[i] \in Recorder!Stamps(IF Recorder!DayOf(i) = d THEN S ELSE partition[Recorder!DayOf(i)])
  <2>1. Recorder!DayOf(i)' = Recorder!DayOf(i) /\ Recorder!DayOf(i) \in Recorder!FileDays
    BY <1>3, DayIs DEF Recorder!DayOf, RecInv
  <2>2. partition'[Recorder!DayOf(i)] =
          IF Recorder!DayOf(i) = d THEN S ELSE partition[Recorder!DayOf(i)]
    BY <1>5, <2>1
  <2> QED
    BY <1>3, <2>1, <2>2 DEF Kept, Recorder!Stamps
<1>10. \A i \in DOMAIN stamps : Kept(i) => Kept(i)'
  BY <1>4, <1>9, MergeIs DEF Kept
<1>11. \A i \in part : Kept(i)'
  <2>1. \A i \in part : i \in DOMAIN stamps /\ stamps[i] \in Recorder!Stamps(part)
    BY RecorderIs DEF Recorder!Stamps
  <2> QED
    BY <1>9, <2>1, MergeIs
<1>12. \A i \in s.rows : Recorder!DayOf(i) \in s.todo \/ Kept(i)'
  <2>1. \A i \in recorder[r].rows : Recorder!DayOf(i) \in recorder[r].todo \/ Kept(i)
    BY <1>3 DEF RecInv, RowsSound
  <2> QED
    BY <1>7, <1>10, <1>11, <2>1, RecorderIs
<1> HIDE DEF part
<1>13. /\ partition \in [Recorder!FileDays -> SUBSET DOMAIN stamps]
       /\ held \in [Recorder!FileDays -> Recorders \union {Recorder!Nobody}]
       /\ gone \subseteq DOMAIN stamps /\ mishaps \in 0..MaxMishaps
       /\ recorder[r].rows \subseteq DOMAIN stamps /\ recorder[r].old \subseteq DOMAIN stamps
       /\ recorder[r].pc # "write" => \A e \in Recorder!FileDays : held[e] # r
  BY RecStateIs, RecorderIs
<1>14. /\ \A e \in Recorder!FileDays : held'[e] = r => s.pc = "write" /\ s.old = partition'[e]
       /\ \A e \in Recorder!FileDays : held'[e] \notin {r, Recorder!Nobody} =>
             held'[e] = held[e] /\ partition'[e] = partition[e]
       /\ \A e, f \in Recorder!FileDays : held'[e] = r /\ held'[f] = r => e = f
  BY <1>5, <1>6
<1>15. /\ s.rows \subseteq DOMAIN stamps /\ s.old \subseteq DOMAIN stamps
       /\ \A i \in recorder[r].rows : i \in s.rows
       /\ gone \subseteq gone' /\ gone' \subseteq DOMAIN stamps /\ mishaps' \in 0..MaxMishaps
  BY <1>3, <1>7, <1>13
<1>16. Moved(r, s)
  BY <1>3, <1>5, <1>6, <1>8, <1>10, <1>12, <1>14, <1>15 DEF Moved
<1> QED
  BY <1>3, <1>7, <1>16, RecMoves

LEMMA ReceiveKeeps ==
    ASSUME RecInv, NEW r \in Recorders, Recorder!Receive(r)
    PROVE  RecInv'
<1>1. PICK x \in Nat : stamps' = Append(stamps, x) /\ x <= Len(stamps)
  <2>1. PICK step \in {0, 1} :
          stamps' = Append(stamps, IF stamps = <<>> THEN 0 ELSE Recorder!Last(stamps) + step)
    BY DEF Recorder!Receive
  <2>2. stamps \in Seq(Nat) /\ \A i \in DOMAIN stamps : stamps[i] < i
    BY DEF RecInv, RecTypes
  <2>3. CASE stamps = <<>>
    BY <2>1, <2>2, <2>3
  <2>4. CASE stamps # <<>>
    <3>1. Len(stamps) \in DOMAIN stamps /\ Recorder!Last(stamps) = stamps[Len(stamps)]
      BY <2>2, <2>4 DEF Recorder!Last
    <3>2. stamps[Len(stamps)] \in Nat /\ stamps[Len(stamps)] < Len(stamps) /\ Len(stamps) \in Nat
      BY <2>2, <3>1
    <3>3. stamps[Len(stamps)] + step \in Nat /\ stamps[Len(stamps)] + step <= Len(stamps)
      BY <3>2
    <3> QED
      BY <2>1, <2>4, <3>1, <3>3
  <2> QED
    BY <2>3, <2>4
<1>2. /\ recorder[r].pc = "recv" /\ Len(stamps) < MaxEvents
      /\ UNCHANGED <<partition, held, gone, mishaps>>
  BY DEF Recorder!Receive, Recorder!At
<1>3. /\ stamps \in Seq(Nat) /\ Len(stamps) \in Nat /\ DOMAIN stamps = 1..Len(stamps)
      /\ \A i \in DOMAIN stamps : stamps[i] < i
  BY DEF RecInv, RecTypes
<1>4. /\ stamps' \in Seq(Nat) /\ Len(stamps') = Len(stamps) + 1
      /\ DOMAIN stamps' = DOMAIN stamps \union {Len(stamps')}
      /\ stamps'[Len(stamps')] = x /\ \A i \in DOMAIN stamps : stamps'[i] = stamps[i]
  BY <1>1, <1>3
<1>5. \A i \in DOMAIN stamps' : stamps'[i] \in Nat /\ stamps'[i] < i
  BY <1>1, <1>3, <1>4
<1>6. Len(stamps') <= MaxEvents
  BY <1>2, <1>3, <1>4, ComponentsBounds
<1>7. \A i \in DOMAIN stamps' : stamps'[i] \div PerDay \in Recorder!FileDays
  <2>1. \A i \in DOMAIN stamps' : stamps'[i] \in Nat /\ stamps'[i] <= MaxEvents
    BY <1>3, <1>4, <1>5, <1>6, ComponentsBounds
  <2> QED
    BY <2>1, FileDayIs
<1> DEFINE rows == recorder[r].rows \union {Len(stamps')}
           full == Cardinality(rows) >= FlushEvery
           pc == IF full THEN "append" ELSE recorder[r].pc
           todo == IF full THEN {stamps'[i] \div PerDay : i \in rows} ELSE {}
<1>8. recorder' = [recorder EXCEPT ![r] = [recorder[r] EXCEPT !.rows = rows, !.pc = pc, !.todo = todo]]
  BY DEF Recorder!Receive, Recorder!Cardinality, Cardinality
<1>9. rows \subseteq DOMAIN stamps' /\ recorder[r].rows \subseteq DOMAIN stamps
  BY <1>4, RecorderIs
<1>10. /\ pc \in {"append", "recv"} /\ todo \subseteq Recorder!FileDays
       /\ pc = "append" => \A i \in rows : stamps'[i] \div PerDay \in todo
  BY <1>2, <1>7, <1>9
<1> HIDE DEF full, pc, todo
<1>11. recorder' \in [Recorders -> Recording] /\ recorder'[r].rows = rows
  <2>1. DOMAIN stamps' \subseteq Nat
    BY <1>3, <1>4
  <2>2. [recorder[r] EXCEPT !.rows = rows, !.pc = pc, !.todo = todo] \in Recording
    <3>1. recorder[r] \in Recording /\ rows \in SUBSET Nat
      BY <1>9, <2>1, RecorderIs
    <3> HIDE DEF rows
    <3> QED
      BY <1>10, <3>1 DEF Recording
  <2>3. recorder \in [Recorders -> Recording]
    BY DEF RecInv, RecTypes
  <2> HIDE DEF rows
  <2>4. recorder' \in [Recorders -> Recording]
    BY <1>8, <2>2, <2>3
  <2>5. recorder'[r].rows = rows
    BY <1>8, <2>3 DEF Recording
  <2> QED
    BY <2>4, <2>5
<1>12. /\ recorder'[r].pc = pc /\ recorder'[r].todo = todo /\ recorder'[r].old = recorder[r].old
       /\ \A q \in Recorders : q # r => recorder'[q] = recorder[q]
  BY <1>8 DEF RecInv, RecTypes, Recording
<1> HIDE DEF rows
<1>13. RecTypes'
  <2>1. \A q \in Recorders : recorder'[q].rows \subseteq DOMAIN stamps' /\ recorder'[q].old \subseteq DOMAIN stamps'
    BY <1>4, <1>9, <1>11, <1>12, RecorderIs
  <2>2. partition' \in [Recorder!FileDays -> SUBSET DOMAIN stamps'] /\ gone' \subseteq DOMAIN stamps'
    BY <1>2, <1>4, RecStateIs
  <2> QED
    BY <1>2, <1>4, <1>5, <1>6, <1>11, <2>1, <2>2, RecStateIs DEF RecTypes
<1>14. LocksSound'
  BY <1>2, <1>12, RecorderIs DEF RecInv, LocksSound
<1>15. \A i \in DOMAIN stamps : Recorder!DayOf(i)' = Recorder!DayOf(i) /\ (Kept(i)' <=> Kept(i))
  <2>1. SUFFICES ASSUME NEW i \in DOMAIN stamps
                 PROVE  Recorder!DayOf(i)' = Recorder!DayOf(i) /\ (Kept(i)' <=> Kept(i))
    OBVIOUS
  <2>2. Recorder!DayOf(i)' = Recorder!DayOf(i)
    BY <1>4 DEF Recorder!DayOf
  <2>3. partition[Recorder!DayOf(i)] \subseteq DOMAIN stamps
    BY DayIs DEF RecInv, RecTypes
  <2>4. Recorder!Stamps(partition[Recorder!DayOf(i)])' = Recorder!Stamps(partition[Recorder!DayOf(i)])
    BY <1>2, <1>4, <2>2, <2>3 DEF Recorder!Stamps
  <2> QED
    BY <1>4, <2>2, <2>4 DEF Kept
<1>16. RowsSound'
  <2>1. \A i \in rows : pc = "append" => Recorder!DayOf(i)' \in todo
    BY <1>10 DEF Recorder!DayOf
  <2>2. ASSUME NEW q \in Recorders, q # r, recorder'[q].pc \in {"append", "write"}, NEW i \in recorder'[q].rows
        PROVE  Recorder!DayOf(i)' \in recorder'[q].todo \/ Kept(i)'
    BY <1>12, <1>15, <2>2, RecorderIs DEF RecInv, RowsSound
  <2> QED
    BY <1>10, <1>11, <1>12, <2>1, <2>2 DEF RowsSound
<1>17. Recorder!ReceivedIsKept'
  <2>1. SUFFICES ASSUME NEW i \in DOMAIN stamps'
                 PROVE  i \in gone' \/ (\E q \in Recorders : i \in recorder'[q].rows) \/ Kept(i)'
    BY DEF Recorder!ReceivedIsKept, Kept
  <2>2. CASE i = Len(stamps')
    BY <1>11, <2>2 DEF rows
  <2>3. CASE i \in DOMAIN stamps
    <3>1. i \in gone \/ (\E q \in Recorders : i \in recorder[q].rows) \/ Kept(i)
      BY <2>3 DEF RecInv, Recorder!ReceivedIsKept, Kept
    <3>2. \A q \in Recorders : recorder[q].rows \subseteq recorder'[q].rows
      BY <1>11, <1>12 DEF rows
    <3> QED
      BY <1>2, <1>15, <2>3, <3>1, <3>2
  <2> QED
    BY <1>4, <2>2, <2>3
<1> QED
  BY <1>13, <1>14, <1>16, <1>17 DEF RecInv

LEMMA RecKeeps == ASSUME RecInv, [Recorder!Next]_RecVars PROVE RecInv'
<1>1. CASE UNCHANGED RecVars
  <2>1. UNCHANGED <<stamps, partition, recorder, held, gone, mishaps>>
    BY <1>1 DEF RecVars
  <2>2. \A i : (Kept(i)' <=> Kept(i)) /\ Recorder!DayOf(i)' = Recorder!DayOf(i)
    BY <2>1, FilesStay DEF Recorder!DayOf
  <2>3. Recorder!ReceivedIsKept'
    BY <2>1, <2>2 DEF RecInv, Recorder!ReceivedIsKept, Kept
  <2> QED
    BY <2>1, <2>2, <2>3 DEF RecInv, RecTypes, LocksSound, RowsSound
<1> QED
  BY <1>1, ReceiveKeeps, ReadDayKeeps, WriteDayKeeps, AppendedKeeps, ConnectionKeeps, FinishKeeps,
     DieKeeps DEF Recorder!Next

LEMMA RecTypeOK == ASSUME RecInv PROVE Recorder!TypeOK
<1>1. DOMAIN stamps \subseteq 1..MaxEvents
  BY ComponentsBounds DEF RecInv, RecTypes
<1> QED
  BY <1>1, RecorderIs, RecStateIs DEF Recorder!TypeOK, Recording

-----------------------------------------------------------------------------
(* The cache of aggregated trades *)

Works == [pc : {"idle", "wait", "fetch", "save"}, base : SUBSET AggTrades!Ids, from : Nat,
          new : SUBSET AggTrades!Ids, end : Nat, n : Nat]
Imports == [on : BOOLEAN, days : SUBSET Nat, pending : SUBSET AggTrades!Ids, n : Nat,
            flush : BOOLEAN, base : SUBSET AggTrades!Ids]

Busy(w) == work[w].pc \in {"fetch", "save"}

AggTypes ==
    /\ trade \in AggTrades!Ids /\ agg \in SUBSET AggTrades!Ids
    /\ holder \in Workers \union {"none"}
    /\ work \in [Workers -> Works]
    /\ import \in Imports
    /\ unseen \in [Workers -> SUBSET AggTrades!Ids] /\ missed \in SUBSET AggTrades!Ids

\* The worker that holds the lock knows the cache, but for what was imported.
LockSound ==
    \A w \in Workers : Busy(w) =>
        /\ holder = w
        /\ agg \subseteq work[w].base \union work[w].new \union unseen[w]

\* What a worker fetched goes from the end of what it loaded to its cursor.
FetchSound(k) ==
    IF k.pc \in {"fetch", "save"}
    THEN \E s \in Nat : /\ s <= k.from /\ k.new = s..(k.from - 1)
                        /\ k.base # {} => s = AggTrades!Max(k.base) + 1
    ELSE k.base = {} /\ k.new = {}

\* A flush knows the cache, but for what downloads saved since it loaded it.
FlushKnows == import.flush => agg \subseteq import.base \union missed

AggInv == AggTypes /\ LockSound /\ FlushKnows /\ \A w \in Workers : FetchSound(work[w])

LEMMA IdsMax ==
    ASSUME NEW S \in SUBSET AggTrades!Ids, S # {}
    PROVE  /\ AggTrades!Max(S) \in S /\ \A y \in S : AggTrades!Max(S) >= y
           /\ AggTrades!Min(S) \in S /\ \A y \in S : AggTrades!Min(S) <= y
<1>1. S \in SUBSET Nat /\ MaxTrade \in Nat /\ \A y \in S : y <= MaxTrade
  BY ComponentsBounds DEF AggTrades!Ids
<1>2. \E x \in S : \A y \in S : x >= y
  BY <1>1, GreatestExists
<1>3. \E x \in S : \A y \in S : x <= y
  BY <1>1, LeastExists
<1> QED
  BY <1>2, <1>3 DEF AggTrades!Max, AggTrades!Min

LEMMA AggNumbers ==
    /\ AggTrades!Ids = 0..MaxTrade /\ MaxTrade \in Nat /\ PerDay \in Nat \ {0} /\ RestDays \in Nat
    /\ FullTrades \in Nat \ {0} /\ "none" \notin Workers
  BY ComponentsBounds DEF AggTrades!Ids

LEMMA CursorIs ==
    ASSUME AggTypes
    PROVE  /\ AggTrades!CursorFrom(agg) \in Nat
           /\ agg # {} => AggTrades!CursorFrom(agg) = AggTrades!Max(agg) + 1
<1>1. CASE agg = {}
  <2> DEFINE a == trade - RestDays * PerDay
  <2>1. a \in Int
    BY AggNumbers DEF AggTypes
  <2> HIDE DEF a
  <2>2. \E x \in {0, a} : \A y \in {0, a} : x >= y
    BY <2>1
  <2>3. AggTrades!Max({0, a}) \in {0, a} /\ \A y \in {0, a} : AggTrades!Max({0, a}) >= y
    BY <2>2 DEF AggTrades!Max
  <2>4. AggTrades!Max({0, a}) \in Nat
    BY <2>1, <2>3
  <2> QED
    BY <1>1, <2>4 DEF AggTrades!CursorFrom, a
<1>2. CASE agg # {}
  <2>1. AggTrades!Max(agg) \in AggTrades!Ids
    BY <1>2, IdsMax DEF AggTypes
  <2>2. AggTrades!Max(agg) + 1 \in Nat
    BY <2>1, AggNumbers
  <2> QED
    BY <1>2, <2>2 DEF AggTrades!CursorFrom
<1> QED
  BY <1>1, <1>2

\* The trades from the cursor on, and those of them that one answer holds.
Ahead(from, newest) == {t \in AggTrades!Ids : from <= t /\ t <= newest}
Portion(there) == {t \in there : AggTrades!Cardinality({u \in there : u < t}) < FullTrades}

\* The trades of one answer follow each other from the cursor on.
LEMMA BatchIs ==
    ASSUME NEW from \in Nat, NEW newest \in AggTrades!Ids,
           NEW batch, batch = Portion(Ahead(from, newest))
    PROVE  /\ batch \subseteq AggTrades!Ids
           /\ batch # {} => /\ AggTrades!Max(batch) \in Nat /\ AggTrades!Max(batch) >= from
                            /\ batch = from..AggTrades!Max(batch)
<1> DEFINE there == Ahead(from, newest)
<1>0. /\ there = {t \in AggTrades!Ids : from <= t /\ t <= newest}
      /\ batch = {t \in there : AggTrades!Cardinality({u \in there : u < t}) < FullTrades}
  BY DEF Ahead, Portion
<1> HIDE DEF there
<1>1. batch \subseteq AggTrades!Ids /\ there \subseteq AggTrades!Ids
  BY <1>0
<1>2. IsFiniteSet(there)
  <2>1. IsFiniteSet(0..MaxTrade)
    BY AggNumbers, FS_Interval
  <2> QED
    BY <1>1, <2>1, AggNumbers, FS_Subset
<1>3. ASSUME batch # {}
      PROVE  /\ AggTrades!Max(batch) \in Nat /\ AggTrades!Max(batch) >= from
             /\ batch = from..AggTrades!Max(batch)
  <2> DEFINE m == AggTrades!Max(batch)
  <2>1. m \in batch /\ \A y \in batch : m >= y
    BY <1>1, <1>3, IdsMax
  <2> HIDE DEF m
  <2>2. m \in there /\ m \in Nat /\ m >= from /\ m <= newest
    BY <1>0, <2>1, AggNumbers
  <2>3. ASSUME NEW t \in from..m PROVE t \in batch
    <3>1. t \in there
      BY <1>0, <2>2, AggNumbers
    <3> DEFINE A == {u \in there : u < t}
               B == {u \in there : u < m}
    <3>2. A \subseteq B
      <4>1. \A u \in there : u < t => u < m
        BY <1>1, <2>2, AggNumbers
      <4> QED
        BY <4>1
    <3>3. IsFiniteSet(B)
      BY <1>2, FS_Subset
    <3>4. IsFiniteSet(A) /\ Cardinality(A) <= Cardinality(B)
      BY <3>2, <3>3, FS_Subset
    <3>5. Cardinality(A) \in Nat /\ Cardinality(B) \in Nat
      BY <3>3, <3>4, FS_CardinalityType
    <3>6. Cardinality(B) < FullTrades
      BY <1>0, <2>1 DEF AggTrades!Cardinality, Cardinality
    <3> HIDE DEF A, B
    <3>7. Cardinality(A) < FullTrades
      BY <3>4, <3>5, <3>6, AggNumbers
    <3> QED
      BY <1>0, <3>1, <3>7 DEF A, AggTrades!Cardinality, Cardinality
  <2>4. \A t \in batch : t \in from..m
    BY <1>0, <1>1, <2>1, <2>2, AggNumbers
  <2> QED
    BY <2>2, <2>3, <2>4 DEF m
<1> QED
  BY <1>1, <1>3

\* A hole of what was loaded and fetched is a hole of what was loaded.
LEMMA NoNewHole ==
    ASSUME NEW base \in SUBSET AggTrades!Ids, NEW new \in SUBSET AggTrades!Ids,
           NEW s \in Nat, NEW from \in Nat, new = s..(from - 1),
           base # {} => s = AggTrades!Max(base) + 1
    PROVE  AggTrades!Holes(base \union new) \subseteq AggTrades!Holes(base)
<1> DEFINE both == base \union new
<1>1. both \in SUBSET AggTrades!Ids /\ AggTrades!Ids \subseteq Nat
  BY AggNumbers
<1>2. SUFFICES ASSUME both # {}, NEW h \in Nat, h >= AggTrades!Min(both), h <= AggTrades!Max(both),
                      h \notin both
               PROVE  h \in AggTrades!Holes(base)
  <2>1. SUFFICES ASSUME NEW h \in AggTrades!Holes(both) PROVE h \in AggTrades!Holes(base)
    OBVIOUS
  <2>2. both # {} /\ h \in (AggTrades!Min(both)..AggTrades!Max(both)) \ both
    BY <2>1 DEF AggTrades!Holes
  <2>3. AggTrades!Min(both) \in Nat /\ AggTrades!Max(both) \in Nat
    BY <1>1, <2>2, IdsMax
  <2>4. h \in Nat /\ h >= AggTrades!Min(both) /\ h <= AggTrades!Max(both) /\ h \notin both
    BY <2>2, <2>3
  <2> QED
    BY <1>2, <2>2, <2>4
<1>3. /\ AggTrades!Min(both) \in both /\ AggTrades!Max(both) \in both
      /\ AggTrades!Min(both) \in Nat /\ AggTrades!Max(both) \in Nat
  BY <1>1, <1>2, IdsMax
<1>4. CASE base = {}
  <2>1. AggTrades!Min(both) \in s..(from - 1) /\ AggTrades!Max(both) \in s..(from - 1)
    BY <1>3, <1>4
  <2>2. h \in s..(from - 1)
    BY <1>2, <1>3, <2>1
  <2> QED
    BY <1>2, <2>2
<1>5. CASE base # {}
  <2>1. /\ AggTrades!Max(base) \in base /\ \A y \in base : AggTrades!Max(base) >= y
        /\ AggTrades!Min(base) \in base /\ \A y \in base : AggTrades!Min(base) <= y
    BY <1>5, IdsMax
  <2>2. AggTrades!Max(base) \in Nat /\ AggTrades!Min(base) \in Nat /\ s = AggTrades!Max(base) + 1
    BY <1>1, <1>5, <2>1
  <2>3. AggTrades!Min(base) <= AggTrades!Min(both)
    <3>1. CASE AggTrades!Min(both) \in base
      BY <2>1, <3>1
    <3>2. CASE AggTrades!Min(both) \in s..(from - 1)
      BY <1>3, <2>1, <2>2, <3>2
    <3> QED
      BY <1>3, <3>1, <3>2
  <2>4. h <= AggTrades!Max(base)
    <3>1. SUFFICES ASSUME h > AggTrades!Max(base) PROVE FALSE
      BY <2>2
    <3>2. AggTrades!Max(both) \notin base
      BY <1>2, <1>3, <2>1, <2>2, <3>1
    <3>3. AggTrades!Max(both) \in s..(from - 1)
      BY <1>3, <3>2
    <3>4. h \in s..(from - 1)
      BY <1>2, <1>3, <2>2, <3>1, <3>3
    <3> QED
      BY <1>2, <3>4
  <2>5. h \in AggTrades!Min(base)..AggTrades!Max(base)
    BY <1>2, <1>3, <2>2, <2>3, <2>4
  <2> QED
    BY <1>2, <1>5, <2>5 DEF AggTrades!Holes
<1> QED
  BY <1>4, <1>5

LEMMA AggGapless == ASSUME AggInv PROVE AggTrades!TypeOK /\ AggTrades!RestLeavesNoGap
<1>1. AggTrades!TypeOK
  BY DEF AggInv, AggTypes, AggTrades!TypeOK, Works, Imports
<1>2. ASSUME NEW w \in Workers
      PROVE  AggTrades!Holes(work[w].base \union work[w].new) \subseteq AggTrades!Holes(work[w].base)
  <2>1. work[w] \in Works /\ FetchSound(work[w])
    BY DEF AggInv, AggTypes
  <2>2. CASE work[w].pc \in {"fetch", "save"}
    <3>1. PICK s \in Nat : /\ work[w].new = s..(work[w].from - 1)
                           /\ work[w].base # {} => s = AggTrades!Max(work[w].base) + 1
      BY <2>1, <2>2 DEF FetchSound
    <3> QED
      BY <2>1, <3>1, NoNewHole DEF Works
  <2>3. CASE work[w].pc \notin {"fetch", "save"}
    BY <2>1, <2>3 DEF FetchSound
  <2> QED
    BY <2>2, <2>3
<1> QED
  BY <1>1, <1>2 DEF AggTrades!RestLeavesNoGap

LEMMA NoWorkIs ==
    /\ AggTrades!NoWork \in Works /\ AggTrades!NoWork.pc = "idle" /\ AggTrades!NoWork.base = {}
    /\ AggTrades!NoWork.new = {} /\ FetchSound(AggTrades!NoWork)
  BY DEF AggTrades!NoWork, Works, FetchSound

LEMMA NoImportIs == AggTrades!NoImport \in Imports /\ ~AggTrades!NoImport.flush
  BY DEF AggTrades!NoImport, Imports

LEMMA AggInit == ASSUME AggTrades!Init PROVE AggInv
<1>1. trade \in AggTrades!Ids
  BY ComponentsBounds DEF AggTrades!Init, AggTrades!Ids
<1>2. import \in Imports /\ ~import.flush
  BY NoImportIs DEF AggTrades!Init
<1>3. work = [w \in Workers |-> AggTrades!NoWork]
  BY DEF AggTrades!Init
<1>4. AggTypes
  BY <1>1, <1>2, <1>3, NoWorkIs DEF AggTrades!Init, AggTypes
<1>5. LockSound
  BY <1>3, NoWorkIs DEF LockSound, Busy
<1> QED
  BY <1>2, <1>3, <1>4, <1>5, NoWorkIs DEF AggInv, FlushKnows

\* One worker moves; it holds the lock if it is busy then, and nobody else did;
\* what it saves while a flush is on is missed.
LEMMA WorkMoves ==
    ASSUME AggInv, NEW w \in Workers, NEW k \in Works, work' = [work EXCEPT ![w] = k],
           UNCHANGED <<trade, import>>, agg' \in SUBSET AggTrades!Ids,
           missed' \in SUBSET AggTrades!Ids, missed \subseteq missed',
           import.flush => agg' \ agg \subseteq missed',
           holder' \in Workers \union {"none"},
           unseen' \in [Workers -> SUBSET AggTrades!Ids], FetchSound(k),
           \A v \in Workers : v # w => ~Busy(v) \/ (holder' = holder /\ UNCHANGED <<agg, unseen>>),
           k.pc \in {"fetch", "save"} =>
              holder' = w /\ agg' \subseteq k.base \union k.new \union unseen'[w]
    PROVE  AggInv'
<1>1. /\ work' \in [Workers -> Works]
      /\ \A v \in Workers : work'[v] = IF v = w THEN k ELSE work[v]
  BY DEF AggInv, AggTypes
<1>2. AggTypes'
  BY <1>1 DEF AggInv, AggTypes, AggTrades!Ids
<1>3. LockSound'
  <2>1. SUFFICES ASSUME NEW v \in Workers, work'[v].pc \in {"fetch", "save"}
                 PROVE  holder' = v /\ agg' \subseteq work'[v].base \union work'[v].new \union unseen'[v]
    BY DEF LockSound, Busy
  <2>2. CASE v = w
    BY <1>1, <2>1, <2>2
  <2>3. CASE v # w
    <3>1. work'[v] = work[v] /\ Busy(v)
      BY <1>1, <2>1, <2>3 DEF Busy
    <3> QED
      BY <2>3, <3>1 DEF AggInv, LockSound
  <2> QED
    BY <2>2, <2>3
<1>4. \A v \in Workers : FetchSound(work'[v])
  BY <1>1 DEF AggInv
<1>5. \A v \in Workers : FetchSound(work[v])'
  BY <1>4 DEF FetchSound, AggTrades!Max
<1>6. FlushKnows'
  BY DEF AggInv, FlushKnows
<1> QED
  BY <1>2, <1>3, <1>5, <1>6 DEF AggInv

\* The others are not busy while a worker is, or may take the lock.
LEMMA AloneIs ==
    ASSUME AggInv, NEW w \in Workers, holder \in {"none", w}
    PROVE  \A v \in Workers : v # w => ~Busy(v)
  BY AggNumbers DEF AggInv, LockSound

LEMMA WantKeeps ==
    ASSUME AggInv, NEW w \in Workers, AggTrades!Want(w)
    PROVE  AggInv'
<1> DEFINE k == [AggTrades!NoWork EXCEPT !.pc = "wait"]
<1>1. k \in Works /\ k.pc = "wait" /\ FetchSound(k)
  BY DEF AggTrades!NoWork, Works, FetchSound
<1> HIDE DEF k
<1>2. work' = [work EXCEPT ![w] = k]
  BY DEF AggTrades!Want, k
<1>3. UNCHANGED <<trade, import, agg, holder, unseen, missed>>
  BY DEF AggTrades!Want
<1> QED
  BY <1>1, <1>2, <1>3, WorkMoves DEF AggInv, AggTypes

LEMMA LockKeeps ==
    ASSUME AggInv, NEW w \in Workers, AggTrades!Lock(w)
    PROVE  AggInv'
<1>1. UNCHANGED <<trade, import, agg, missed>> /\ work[w].pc = "wait" /\ holder \in {"none", w}
  BY DEF AggTrades!Lock, AggTrades!LockIs
<1>2. CASE AggTrades!Fresh
  <2>1. work' = [work EXCEPT ![w] = AggTrades!NoWork] /\ UNCHANGED <<holder, unseen>>
    BY <1>2 DEF AggTrades!Lock
  <2> QED
    BY <1>1, <2>1, NoWorkIs, WorkMoves DEF AggInv, AggTypes
<1>3. CASE ~AggTrades!Fresh
  <2> DEFINE k == [pc |-> "fetch", base |-> agg, from |-> AggTrades!CursorFrom(agg),
                   new |-> {}, end |-> trade, n |-> 0]
  <2>1. /\ holder' = w /\ work' = [work EXCEPT ![w] = k]
        /\ unseen' = [unseen EXCEPT ![w] = {}]
    BY <1>3 DEF AggTrades!Lock
  <2>2. AggTrades!CursorFrom(agg) \in Nat /\ (agg # {} => AggTrades!CursorFrom(agg) = AggTrades!Max(agg) + 1)
    BY CursorIs DEF AggInv
  <2>3. k \in Works
    BY <2>2, AggNumbers DEF AggInv, AggTypes, Works
  <2>4. FetchSound(k)
    <3>1. {} = AggTrades!CursorFrom(agg)..(AggTrades!CursorFrom(agg) - 1)
      BY <2>2
    <3> QED
      BY <2>2, <3>1 DEF FetchSound
  <2>5. k.pc \in {"fetch", "save"} => agg' \subseteq k.base \union k.new \union unseen'[w]
    BY <1>1
  <2> HIDE DEF k
  <2>6. /\ unseen' \in [Workers -> SUBSET AggTrades!Ids] /\ agg' \in SUBSET AggTrades!Ids
        /\ missed' \in SUBSET AggTrades!Ids
    BY <1>1, <2>1 DEF AggInv, AggTypes
  <2>7. \A v \in Workers : v # w => ~Busy(v)
    BY <1>1, AloneIs
  <2> QED
    BY <1>1, <2>1, <2>3, <2>4, <2>5, <2>6, <2>7, WorkMoves
<1> QED
  BY <1>2, <1>3

\* What a download writes is noted while a flush is on.
LEMMA TradesSaved ==
    ASSUME AggInv, NEW S \in SUBSET AggTrades!Ids, AggTrades!Saved(S)
    PROVE  /\ agg' = S /\ missed' \in SUBSET AggTrades!Ids /\ missed \subseteq missed'
           /\ import.flush => agg' \ agg \subseteq missed'
  BY DEF AggTrades!Saved, AggInv, AggTypes

\* A download is written back, and ends.
LEMMA StoreIs ==
    ASSUME AggInv, NEW w \in Workers, Busy(w), AggTrades!Store(w), UNCHANGED <<trade, import, unseen>>
    PROVE  AggInv' /\ agg \ agg' \subseteq unseen[w]
<1> DEFINE all == work[w].base \union work[w].new
<1>1. /\ work' = [work EXCEPT ![w] = AggTrades!NoWork] /\ holder' \in Workers \union {"none"}
      /\ IF all = {} THEN UNCHANGED <<agg, missed>> ELSE AggTrades!Saved(all)
  BY DEF AggTrades!Store, AggInv, AggTypes
<1>2. all \in SUBSET AggTrades!Ids
  BY DEF AggInv, AggTypes, Works
<1>3. /\ agg' \in SUBSET AggTrades!Ids /\ missed' \in SUBSET AggTrades!Ids /\ missed \subseteq missed'
      /\ import.flush => agg' \ agg \subseteq missed'
      /\ agg' = IF all = {} THEN agg ELSE all
  <2> HIDE DEF all
  <2>1. CASE all = {}
    BY <1>1, <2>1 DEF AggInv, AggTypes
  <2>2. CASE all # {}
    BY <1>1, <1>2, <2>2, TradesSaved
  <2> QED
    BY <2>1, <2>2
<1>4. \A v \in Workers : v # w => ~Busy(v)
  BY AloneIs DEF AggInv, LockSound
<1>5. AggInv'
  BY <1>1, <1>3, <1>4, NoWorkIs, WorkMoves DEF AggInv, AggTypes
<1> QED
  BY <1>3, <1>5 DEF AggInv, LockSound

\* A worker gives up, and nothing is written.
LEMMA DropIs ==
    ASSUME AggInv, NEW w \in Workers, Busy(w), UNCHANGED <<trade, agg, import, unseen, missed>>,
           holder' = IF holder = w THEN "none" ELSE holder,
           work' = [work EXCEPT ![w] = AggTrades!NoWork]
    PROVE  AggInv' /\ agg \ agg' \subseteq unseen[w]
<1>1. \A v \in Workers : v # w => ~Busy(v)
  BY AloneIs DEF AggInv, LockSound
<1>2. holder' \in Workers \union {"none"}
  BY DEF AggInv, AggTypes
<1> QED
  BY <1>1, <1>2, NoWorkIs, WorkMoves DEF AggInv, AggTypes

LEMMA SaveTradesKeeps ==
    ASSUME AggInv, NEW w \in Workers, AggTrades!SaveTrades(w)
    PROVE  AggInv' /\ Busy(w) /\ agg \ agg' \subseteq unseen[w]
<1>1. Busy(w) /\ AggTrades!Store(w) /\ UNCHANGED <<trade, import, unseen>>
  BY DEF AggTrades!SaveTrades, Busy
<1> QED
  BY <1>1, StoreIs

LEMMA FetchTradesFailsKeeps ==
    ASSUME AggInv, NEW w \in Workers, AggTrades!FetchTradesFails(w)
    PROVE  AggInv' /\ Busy(w) /\ agg \ agg' \subseteq unseen[w]
<1>1. Busy(w) /\ UNCHANGED <<trade, import, unseen>>
  BY DEF AggTrades!FetchTradesFails, Busy
<1>2. CASE work[w].new # {}
  <2>1. AggTrades!Store(w)
    BY <1>2 DEF AggTrades!FetchTradesFails
  <2> QED
    BY <1>1, <2>1, StoreIs
<1>3. CASE work[w].new = {}
  <2>1. /\ holder' = IF holder = w THEN "none" ELSE holder
        /\ work' = [work EXCEPT ![w] = AggTrades!NoWork] /\ UNCHANGED <<agg, missed>>
    BY <1>3 DEF AggTrades!FetchTradesFails
  <2> QED
    BY <1>1, <2>1, DropIs
<1> QED
  BY <1>2, <1>3

LEMMA WorkerDiesKeeps ==
    ASSUME AggInv, NEW w \in Workers, AggTrades!WorkerDies(w)
    PROVE  AggInv' /\ Busy(w) /\ agg \ agg' \subseteq unseen[w]
<1>1. /\ Busy(w) /\ UNCHANGED <<trade, agg, import, unseen, missed>>
      /\ holder' = IF holder = w THEN "none" ELSE holder
      /\ work' = [work EXCEPT ![w] = AggTrades!NoWork]
  BY DEF AggTrades!WorkerDies, Busy
<1> QED
  BY <1>1, DropIs

LEMMA FetchTradesKeeps ==
    ASSUME AggInv, NEW w \in Workers, AggTrades!FetchTrades(w)
    PROVE  AggInv' /\ Busy(w) /\ agg \ agg' \subseteq unseen[w]
<1> DEFINE there == {t \in AggTrades!Ids : work[w].from <= t /\ t <= trade}
           batch == {t \in there : AggTrades!Cardinality({u \in there : u < t}) < FullTrades}
           reached == batch # {} /\ AggTrades!Max(batch) >= work[w].end
           n == work[w].n + 1
           k == [work[w] EXCEPT !.new = work[w].new \union batch, !.n = n,
                    !.from = IF batch = {} THEN work[w].from ELSE AggTrades!Max(batch) + 1,
                    !.pc = IF reached \/ AggTrades!Cardinality(batch) < FullTrades THEN "save" ELSE "fetch"]
<1>1. /\ work[w].pc = "fetch" /\ work' = [work EXCEPT ![w] = k]
      /\ AggTrades!Saved(work[w].base \union work[w].new \union batch) \/ UNCHANGED <<agg, missed>>
      /\ UNCHANGED <<trade, holder, import, unseen>>
  BY DEF AggTrades!FetchTrades
<1>2. /\ Busy(w) /\ work[w] \in Works /\ FetchSound(work[w]) /\ trade \in AggTrades!Ids
      /\ work[w].from \in Nat /\ holder = w
      /\ agg \subseteq work[w].base \union work[w].new \union unseen[w]
  BY <1>1 DEF AggInv, AggTypes, LockSound, Busy, Works
<1>3. /\ batch \subseteq AggTrades!Ids
      /\ batch # {} => /\ AggTrades!Max(batch) \in Nat /\ AggTrades!Max(batch) >= work[w].from
                       /\ batch = work[w].from..AggTrades!Max(batch)
  <2>1. batch = Portion(Ahead(work[w].from, trade))
    BY DEF Ahead, Portion
  <2> HIDE DEF batch
  <2> QED
    BY <1>2, <2>1, BatchIs
<1>4. /\ k.new = work[w].new \union batch /\ k.base = work[w].base /\ k.pc \in {"fetch", "save"}
      /\ k.from = (IF batch = {} THEN work[w].from ELSE AggTrades!Max(batch) + 1)
      /\ k \in Works
  <2>1. n \in Nat
    BY <1>2 DEF Works
  <2>2. (IF batch = {} THEN work[w].from ELSE AggTrades!Max(batch) + 1) \in Nat
    BY <1>2, <1>3
  <2> HIDE DEF batch, n, reached
  <2> QED
    BY <1>2, <1>3, <2>1, <2>2 DEF Works
<1> HIDE DEF batch, k
<1>5. FetchSound(k)
  <2>1. PICK s \in Nat : /\ s <= work[w].from /\ work[w].new = s..(work[w].from - 1)
                         /\ work[w].base # {} => s = AggTrades!Max(work[w].base) + 1
    BY <1>1, <1>2 DEF FetchSound
  <2>2. s <= k.from /\ k.new = s..(k.from - 1)
    <3>1. CASE batch = {}
      BY <1>4, <2>1, <3>1
    <3>2. CASE batch # {}
      <4>1. k.from = AggTrades!Max(batch) + 1 /\ k.from \in Nat /\ k.from > work[w].from
        BY <1>2, <1>3, <1>4, <3>2
      <4>2. batch = work[w].from..(k.from - 1)
        BY <1>3, <3>2, <4>1
      <4>3. k.new = (s..(work[w].from - 1)) \union (work[w].from..(k.from - 1))
        BY <1>4, <2>1, <4>2
      <4> QED
        BY <1>2, <2>1, <4>1, <4>3
    <3> QED
      BY <3>1, <3>2
  <2> QED
    BY <1>4, <2>1, <2>2 DEF FetchSound
<1>6. /\ agg' \in {work[w].base \union work[w].new \union batch, agg}
      /\ agg' \in SUBSET AggTrades!Ids /\ missed' \in SUBSET AggTrades!Ids /\ missed \subseteq missed'
      /\ import.flush => agg' \ agg \subseteq missed'
  <2>1. work[w].base \union work[w].new \union batch \in SUBSET AggTrades!Ids
    BY <1>2, <1>3 DEF Works
  <2>2. CASE AggTrades!Saved(work[w].base \union work[w].new \union batch)
    BY <2>1, <2>2, TradesSaved
  <2>3. CASE UNCHANGED <<agg, missed>>
    BY <2>3 DEF AggInv, AggTypes
  <2> QED
    BY <1>1, <2>2, <2>3
<1>7. agg' \subseteq k.base \union k.new \union unseen'[w]
  BY <1>1, <1>2, <1>4, <1>6
<1>8. \A v \in Workers : v # w => ~Busy(v)
  BY <1>2, AloneIs
<1>9. holder' \in Workers \union {"none"} /\ unseen' \in [Workers -> SUBSET AggTrades!Ids]
  BY <1>1 DEF AggInv, AggTypes
<1>10. AggInv'
  BY <1>1, <1>2, <1>4, <1>5, <1>6, <1>7, <1>8, <1>9, WorkMoves
<1> QED
  BY <1>2, <1>6, <1>10

\* The import moves and leaves the cache alone: it begins no flush, or loads the
\* cache for one, or goes on with the one that it has begun.
LEMMA ImportMoves ==
    ASSUME AggInv, UNCHANGED <<trade, holder, work, agg, unseen>>, import' \in Imports,
           missed' \in SUBSET AggTrades!Ids,
           import'.flush => import'.base = agg
    PROVE  AggInv'
<1>1. AggTypes'
  BY DEF AggInv, AggTypes, AggTrades!Ids
<1>2. LockSound' /\ FlushKnows'
  BY DEF AggInv, LockSound, FlushKnows, Busy
<1>3. \A w \in Workers : FetchSound(work[w])'
  BY DEF AggInv, FetchSound, AggTrades!Max
<1> QED
  BY <1>1, <1>2, <1>3 DEF AggInv

\* A flush that begins has just loaded the cache.
LEMMA LoadedIs ==
    ASSUME AggInv, NEW i \in Imports, AggTrades!Loaded(i)
    PROVE  import' \in Imports /\ import'.base = agg /\ missed' \in SUBSET AggTrades!Ids
  BY DEF AggTrades!Loaded, Imports, AggInv, AggTypes

LEMMA DayIds ==
    ASSUME AggInv, NEW d
    PROVE  AggTrades!IdsOf(d) \in SUBSET AggTrades!Ids
  BY AggNumbers DEF AggTrades!IdsOf, AggInv, AggTypes

LEMMA StartImportKeeps ==
    ASSUME AggInv, NEW d \in 0..AggTrades!Today, AggTrades!StartImport(d)
    PROVE  AggInv' /\ agg' = agg
<1>1. UNCHANGED <<trade, holder, work, agg, unseen, missed>>
  BY DEF AggTrades!StartImport
<1>2. AggTrades!Today \in Nat
  BY AggNumbers DEF AggInv, AggTypes, AggTrades!Today, AggTrades!DayOf
<1>3. PICK complete : import' = [AggTrades!NoImport EXCEPT !.on = TRUE, !.days = (d..AggTrades!Today) \ complete]
  BY DEF AggTrades!StartImport
<1>4. (d..AggTrades!Today) \ complete \in SUBSET Nat
  BY <1>2
<1>5. import' \in Imports /\ ~import'.flush
  <2> DEFINE days == (d..AggTrades!Today) \ complete
  <2> HIDE DEF days
  <2>1. days \in SUBSET Nat /\ import' = [AggTrades!NoImport EXCEPT !.on = TRUE, !.days = days]
    BY <1>3, <1>4 DEF days
  <2> QED
    BY <2>1 DEF AggTrades!NoImport, Imports
<1> QED
  BY <1>1, <1>5, ImportMoves DEF AggInv, AggTypes

LEMMA ImportDayKeeps ==
    ASSUME AggInv, AggTrades!ImportDay
    PROVE  AggInv' /\ agg' = agg
<1> DEFINE d == AggTrades!Min(import.days)
           rest == [import EXCEPT !.days = @ \ {d}]
           more == [rest EXCEPT !.pending = @ \union AggTrades!IdsOf(d), !.n = import.n + 1]
<1>1. UNCHANGED <<trade, holder, work, agg, unseen>> /\ ~import.flush
  BY DEF AggTrades!ImportDay
<1>2. import \in Imports /\ AggTrades!IdsOf(d) \in SUBSET AggTrades!Ids
  BY DayIds DEF AggInv, AggTypes
<1>3. rest \in Imports /\ rest.flush = import.flush
  BY <1>2 DEF Imports
<1>4. more \in Imports /\ more.flush = import.flush
  <2> HIDE DEF d, rest
  <2>1. rest.pending \in SUBSET AggTrades!Ids /\ import.n + 1 \in Nat
    BY <1>2, <1>3 DEF Imports
  <2> QED
    BY <1>2, <1>3, <2>1 DEF Imports
<1>5. \/ AggTrades!Loaded(more)
      \/ import' = more /\ UNCHANGED missed
      \/ import' = rest /\ UNCHANGED missed
  BY DEF AggTrades!ImportDay
<1> HIDE DEF d, rest, more
<1>6. import' \in Imports /\ missed' \in SUBSET AggTrades!Ids /\ (import'.flush => import'.base = agg)
  <2>1. CASE AggTrades!Loaded(more)
    BY <1>4, <2>1, LoadedIs
  <2>2. CASE import' \in {more, rest} /\ UNCHANGED missed
    BY <1>1, <1>3, <1>4, <2>2 DEF AggInv, AggTypes
  <2> QED
    BY <1>5, <2>1, <2>2
<1> QED
  BY <1>1, <1>6, ImportMoves

LEMMA LastFlushKeeps ==
    ASSUME AggInv, AggTrades!LastFlush
    PROVE  AggInv' /\ agg' = agg
<1>1. /\ UNCHANGED <<trade, holder, work, agg, unseen>> /\ ~import.flush
      /\ AggTrades!Loaded(import) /\ import \in Imports
  BY DEF AggTrades!LastFlush, AggInv, AggTypes
<1> QED
  BY <1>1, LoadedIs, ImportMoves

\* A flush loses what downloads saved since it loaded the cache, and nothing else.
LEMMA FlushSaveKeeps ==
    ASSUME AggInv, AggTrades!FlushSave
    PROVE  AggInv' /\ agg \ agg' \subseteq missed /\ import.flush /\ ~import'.flush
<1>1. /\ import.flush /\ UNCHANGED <<trade, holder, work>>
      /\ agg' = import.base \union import.pending
      /\ unseen' = [w \in Workers |-> unseen[w] \union (agg' \ agg)]
      /\ import' = [import EXCEPT !.flush = FALSE, !.base = {}, !.pending = {}]
      /\ missed' = {}
  BY DEF AggTrades!FlushSave
<1>2. import \in Imports /\ agg \subseteq import.base \union missed
  BY <1>1 DEF AggInv, AggTypes, FlushKnows
<1>3. import' \in Imports /\ ~import'.flush
  BY <1>1, <1>2 DEF Imports
<1>4. /\ agg' \in SUBSET AggTrades!Ids
      /\ unseen' \in [Workers -> SUBSET AggTrades!Ids]
      /\ \A w \in Workers : agg' \subseteq agg \union unseen'[w] /\ unseen[w] \subseteq unseen'[w]
  <2>1. agg' \in SUBSET AggTrades!Ids
    BY <1>1, <1>2 DEF Imports
  <2>2. PICK S \in SUBSET AggTrades!Ids : S = agg'
    BY <2>1
  <2>3. unseen' = [w \in Workers |-> unseen[w] \union (S \ agg)]
    BY <1>1, <2>2
  <2> QED
    BY <2>2, <2>3 DEF AggInv, AggTypes
<1>5. AggTypes'
  BY <1>1, <1>3, <1>4 DEF AggInv, AggTypes, AggTrades!Ids
<1>6. LockSound'
  <2>1. SUFFICES ASSUME NEW w \in Workers, Busy(w)
                 PROVE  holder = w /\ agg' \subseteq work[w].base \union work[w].new \union unseen'[w]
    BY <1>1 DEF LockSound, Busy
  <2>2. holder = w /\ agg \subseteq work[w].base \union work[w].new \union unseen[w]
    BY <2>1 DEF AggInv, LockSound
  <2> QED
    BY <1>4, <2>2
<1>7. \A w \in Workers : FetchSound(work[w])'
  BY <1>1 DEF AggInv, FetchSound, AggTrades!Max
<1>8. AggInv'
  BY <1>3, <1>5, <1>6, <1>7 DEF AggInv, FlushKnows
<1> QED
  BY <1>1, <1>2, <1>3, <1>8

\* The import ends, or dies.
LEMMA ImportGone ==
    ASSUME AggInv, UNCHANGED <<trade, holder, work, agg, unseen>>,
           import' = AggTrades!NoImport, missed' \in {missed, {}}
    PROVE  AggInv' /\ agg' = agg
  BY NoImportIs, ImportMoves DEF AggInv, AggTypes

LEMMA NewTradeKeeps ==
    ASSUME AggInv, UNCHANGED <<agg, holder, work, import, unseen, missed>>,
           trade' = trade \/ AggTrades!NewTrade
    PROVE  AggInv'
<1>1. trade' \in AggTrades!Ids
  BY AggNumbers DEF AggInv, AggTypes, AggTrades!NewTrade
<1>2. AggTypes' /\ LockSound' /\ FlushKnows'
  BY <1>1 DEF AggInv, AggTypes, LockSound, FlushKnows, Busy, AggTrades!Ids
<1>3. \A w \in Workers : FetchSound(work[w])'
  BY DEF AggInv, FetchSound, AggTrades!Max
<1> QED
  BY <1>2, <1>3 DEF AggInv

\* What was imported behind the back of a worker that is busy.
Unnoticed == UNION {unseen[w] : w \in {v \in Workers : work[v].pc \in {"fetch", "save"}}}

\* What the cache may lose in a step.
Loss == IF import.flush /\ ~import'.flush THEN missed ELSE Unnoticed

LEMMA AggKeeps ==
    ASSUME AggInv, [AggTrades!Next]_AggVars
    PROVE  AggInv' /\ agg \ agg' \subseteq Loss
<1>1. ASSUME NEW w \in Workers,
             \/ AggTrades!Want(w) \/ AggTrades!Lock(w) \/ AggTrades!FetchTrades(w)
             \/ AggTrades!SaveTrades(w) \/ AggTrades!FetchTradesFails(w) \/ AggTrades!WorkerDies(w)
      PROVE  AggInv' /\ agg \ agg' \subseteq Loss
  <2>1. import' = import
    BY <1>1 DEF AggTrades!Want, AggTrades!Lock, AggTrades!FetchTrades, AggTrades!SaveTrades,
                AggTrades!FetchTradesFails, AggTrades!WorkerDies
  <2>2. CASE AggTrades!Want(w)
    BY <2>2, WantKeeps DEF AggTrades!Want
  <2>3. CASE AggTrades!Lock(w)
    BY <2>3, LockKeeps DEF AggTrades!Lock
  <2>4. ASSUME Busy(w), agg \ agg' \subseteq unseen[w] PROVE agg \ agg' \subseteq Loss
    BY <2>1, <2>4 DEF Loss, Unnoticed, Busy
  <2>5. CASE AggTrades!FetchTrades(w)
    BY <2>4, <2>5, FetchTradesKeeps
  <2>6. CASE AggTrades!SaveTrades(w)
    BY <2>4, <2>6, SaveTradesKeeps
  <2>7. CASE AggTrades!FetchTradesFails(w)
    BY <2>4, <2>7, FetchTradesFailsKeeps
  <2>8. CASE AggTrades!WorkerDies(w)
    BY <2>4, <2>8, WorkerDiesKeeps
  <2> QED
    BY <1>1, <2>2, <2>3, <2>5, <2>6, <2>7, <2>8
<1>2. ASSUME NEW d \in 0..AggTrades!Today, AggTrades!StartImport(d)
      PROVE  AggInv' /\ agg \ agg' \subseteq Loss
  BY <1>2, StartImportKeeps
<1>3. CASE AggTrades!ImportDay
  BY <1>3, ImportDayKeeps
<1>4. CASE AggTrades!LastFlush
  BY <1>4, LastFlushKeeps
<1>5. CASE AggTrades!FlushSave
  BY <1>5, FlushSaveKeeps DEF Loss
<1>6. CASE AggTrades!EndImport \/ AggTrades!ImportDies
  BY <1>6, ImportGone DEF AggTrades!EndImport, AggTrades!ImportDies
<1>7. CASE AggTrades!NewTrade
  BY <1>7, NewTradeKeeps DEF AggTrades!NewTrade
<1>8. CASE UNCHANGED AggVars
  BY <1>8, NewTradeKeeps DEF AggVars
<1> QED
  BY <1>1, <1>2, <1>3, <1>4, <1>5, <1>6, <1>7, <1>8 DEF AggTrades!Next

-----------------------------------------------------------------------------
(* The cache of funding rates *)

Pulls == [pc : {"idle", "fetch", "merge", "done", "refused"}, days : Nat, base : SUBSET Nat,
          since : Int, new : SUBSET Nat, out : SUBSET Nat]

FundTypes ==
    /\ rate \in FirstRate..MaxRate /\ rates \in SUBSET (0..rate)
    /\ pull \in Pulls
    /\ pull.base \subseteq 0..rate /\ pull.new \subseteq 0..rate
    /\ pull.pc \in {"fetch", "merge"} => pull.days \in Days

\* The rates of a series that lie in its last period.
InPeriod(S, days) == S \cap ((FundingHistory!Max(S) - days)..FundingHistory!Max(S))

FundInv == FundTypes /\ FundingHistory!ReturnedIsCovered

LEMMA FundNumbers ==
    /\ FirstRate \in Nat /\ MaxRate \in Nat /\ Listed \in Nat /\ CoverageMin \in Nat
    /\ \A days \in Days : days \in Nat /\ days > 0
  BY ComponentsBounds

LEMMA RatesMax ==
    ASSUME NEW S \in SUBSET (0..rate), S # {}, rate \in Nat
    PROVE  /\ FundingHistory!Max(S) \in S /\ \A y \in S : FundingHistory!Max(S) >= y
           /\ FundingHistory!Max(S) \in Nat /\ FundingHistory!Max(S) <= rate
<1>1. S \in SUBSET Nat /\ \A y \in S : y <= rate
  OBVIOUS
<1>2. \E x \in S : \A y \in S : x >= y
  BY <1>1, GreatestExists
<1>3. FundingHistory!Max(S) \in S /\ \A y \in S : FundingHistory!Max(S) >= y
  BY <1>2 DEF FundingHistory!Max
<1> QED
  BY <1>1, <1>3

\* A share of a whole in percent, rounded down, and the share that it stands for.
LEMMA ShareOf ==
    ASSUME NEW n \in Nat, NEW days \in Nat, days > 0, NEW min \in Nat, (n * 100) \div days >= min
    PROVE  n * 100 >= min * days
<1> DEFINE q == (n * 100) \div days
           r == (n * 100) % days
<1>1. n * 100 \in Nat
  OBVIOUS
<1>2. n * 100 = days * q + r /\ q \in Int /\ r \in Nat
  BY <1>1
<1> HIDE DEF q, r
<1>3. q >= min
  BY DEF q
<1>4. days * q >= days * min
  BY <1>2, <1>3
<1>5. days * q \in Int /\ days * min \in Int /\ days * min = min * days /\ n * 100 \in Int
  BY <1>2
<1> QED
  BY <1>2, <1>4, <1>5

\* What covers enough has its share of the rates of the period that ends with
\* its newest rate, whether it is stale or not.
LEMMA EnoughIs ==
    ASSUME FundTypes, NEW S \in SUBSET (0..rate), NEW days \in Days, FundingHistory!Enough(S, days)
    PROVE  Cardinality(InPeriod(S, days)) * 100 >= CoverageMin * days
<1>1. rate \in Nat /\ days \in Nat /\ days > 0 /\ CoverageMin \in Nat
  BY FundNumbers DEF FundTypes
<1>2. IsFiniteSet(S)
  <2>1. IsFiniteSet(0..rate)
    BY <1>1, FS_Interval
  <2> QED
    BY <2>1, FS_Subset
<1>3. IsFiniteSet(InPeriod(S, days)) /\ Cardinality(InPeriod(S, days)) \in Nat
  <2>1. InPeriod(S, days) \subseteq S
    BY DEF InPeriod
  <2>2. IsFiniteSet(InPeriod(S, days))
    BY <1>2, <2>1, FS_Subset
  <2> QED
    BY <2>2, FS_CardinalityType
<1>4. CASE S = {}
  <2>1. CoverageMin = 0
    BY <1>1, <1>4 DEF FundingHistory!Enough, FundingHistory!Coverage
  <2> QED
    BY <1>1, <1>3, <2>1
<1>5. CASE S # {}
  <2> DEFINE end == IF FundingHistory!StaleRates(S) THEN FundingHistory!Max(S) ELSE rate
             from == IF FundingHistory!StaleRates(S) THEN end - days ELSE end - days + 1
             C == S \cap (from..end)
  <2>1. (Cardinality(C) * 100) \div days >= CoverageMin
    BY <1>5 DEF FundingHistory!Enough, FundingHistory!Coverage, FundingHistory!Cardinality, Cardinality
  <2>2. /\ FundingHistory!Max(S) \in S /\ FundingHistory!Max(S) \in Nat /\ FundingHistory!Max(S) <= rate
        /\ \A y \in S : FundingHistory!Max(S) >= y
    BY <1>1, <1>5, RatesMax
  <2>3. C \subseteq InPeriod(S, days)
    <3>1. SUFFICES ASSUME NEW c \in C PROVE c \in InPeriod(S, days)
      OBVIOUS
    <3>2. c \in S /\ c \in Nat /\ c >= from /\ c <= FundingHistory!Max(S)
      BY <1>1, <2>2, <3>1
    <3>3. from >= FundingHistory!Max(S) - days
      BY <1>1, <2>2 DEF FundingHistory!StaleRates
    <3>4. from \in Int
      BY <1>1, <2>2
    <3> HIDE DEF from
    <3> QED
      BY <1>1, <2>2, <3>2, <3>3, <3>4 DEF InPeriod
  <2> HIDE DEF C
  <2>4. IsFiniteSet(C) /\ Cardinality(C) <= Cardinality(InPeriod(S, days))
    BY <1>3, <2>3, FS_Subset
  <2>5. Cardinality(C) \in Nat
    BY <2>4, FS_CardinalityType
  <2>6. Cardinality(C) * 100 >= CoverageMin * days
    BY <1>1, <2>1, <2>5, ShareOf
  <2>7. CoverageMin * days \in Int
    BY <1>1
  <2> QED
    BY <1>3, <2>4, <2>5, <2>6, <2>7
<1> QED
  BY <1>4, <1>5

LEMMA FundInit == ASSUME FundingHistory!Init PROVE FundInv
<1>1. pull \in Pulls /\ pull.pc = "idle" /\ pull.base = {} /\ pull.new = {}
  BY DEF FundingHistory!Init, Pulls
<1>2. FundTypes
  BY <1>1, FundNumbers, ComponentsBounds DEF FundingHistory!Init, FundTypes
<1> QED
  BY <1>1, <1>2 DEF FundInv, FundingHistory!ReturnedIsCovered

\* A download moves: what it returns is measured, or was returned before.
LEMMA PullMoves ==
    ASSUME FundInv, NEW p \in Pulls, pull' = p, rate' = rate, rates' \in SUBSET (0..rate),
           p.base \subseteq 0..rate, p.new \subseteq 0..rate,
           p.pc \in {"fetch", "merge"} => p.days \in Days,
           p.pc = "done" =>
              p.days \in Days /\ p.out \subseteq 0..rate /\ FundingHistory!Enough(p.out, p.days)
    PROVE  FundInv'
<1>1. FundTypes'
  BY DEF FundInv, FundTypes
<1>2. CASE p.pc = "done"
  <2>1. Cardinality(InPeriod(p.out, p.days)) * 100 >= CoverageMin * p.days
    BY <1>2, EnoughIs DEF FundInv
  <2>2. FundingHistory!ReturnedIsCovered'
    BY <2>1 DEF FundingHistory!ReturnedIsCovered, InPeriod, FundingHistory!Max,
                FundingHistory!Cardinality, Cardinality
  <2> QED
    BY <1>1, <2>2 DEF FundInv
<1>3. CASE p.pc # "done"
  BY <1>1, <1>3 DEF FundInv, FundingHistory!ReturnedIsCovered
<1> QED
  BY <1>2, <1>3

LEMMA AskKeeps ==
    ASSUME FundInv, NEW days \in Days, FundingHistory!Ask(days)
    PROVE  FundInv'
<1> DEFINE cached == /\ rates # {} /\ FundingHistory!Min(rates) <= FundingHistory!NeededFrom(days)
                     /\ ~FundingHistory!StaleRates(rates)
           p == [pc |-> IF ~cached THEN "fetch"
                        ELSE IF FundingHistory!Enough(rates, days) THEN "done" ELSE "refused",
                 days |-> days, base |-> rates, since |-> FundingHistory!Cursor(rates, days), new |-> {},
                 out |-> IF cached /\ FundingHistory!Enough(rates, days) THEN rates ELSE {}]
<1>1. pull' = p /\ rate' = rate /\ rates' = rates
  BY DEF FundingHistory!Ask
<1>2. rate \in Nat /\ days \in Nat /\ rates \in SUBSET (0..rate)
  BY FundNumbers DEF FundInv, FundTypes
<1>3. FundingHistory!Cursor(rates, days) \in Int
  <2>1. rates # {} => FundingHistory!Max(rates) \in Int
    BY <1>2, RatesMax
  <2> QED
    BY <1>2, <2>1 DEF FundingHistory!Cursor, FundingHistory!NeededFrom
<1>4. p \in Pulls
  BY <1>2, <1>3 DEF Pulls
<1>5. p.pc = "done" => FundingHistory!Enough(p.out, p.days)
  OBVIOUS
<1>6. p.base \subseteq 0..rate /\ p.new \subseteq 0..rate /\ p.days \in Days /\ p.out \subseteq 0..rate
  BY <1>2
<1> HIDE DEF p
<1> QED
  BY <1>1, <1>2, <1>4, <1>5, <1>6, PullMoves

LEMMA FetchRatesKeeps ==
    ASSUME FundInv, FundingHistory!FetchRates
    PROVE  FundInv'
<1> DEFINE there == {r \in Listed..rate : r >= pull.since}
           batch == {r \in there : FundingHistory!Cardinality({q \in there : q < r}) < Full}
           more == FundingHistory!Cardinality(batch) = Full
<1>1. /\ pull.pc = "fetch" /\ rate' = rate /\ rates' = rates
      /\ pull' = [pull EXCEPT !.new = pull.new \union batch, !.pc = IF more THEN "fetch" ELSE "merge",
                    !.since = IF batch = {} THEN pull.since ELSE FundingHistory!Max(batch) + 1]
  BY DEF FundingHistory!FetchRates
<1>2. rate \in Nat /\ pull \in Pulls /\ pull.new \subseteq 0..rate /\ pull.base \subseteq 0..rate
      /\ rates \in SUBSET (0..rate) /\ pull.days \in Days
  BY <1>1, FundNumbers DEF FundInv, FundTypes
<1>3. batch \subseteq 0..rate
  BY <1>2, FundNumbers
<1> HIDE DEF batch, more
<1>4. batch # {} => FundingHistory!Max(batch) \in Nat
  <2> HIDE DEF there
  <2> QED
    BY <1>2, <1>3, RatesMax
<1>5. PICK p : p = pull'
  OBVIOUS
<1>6. /\ p \in Pulls /\ p.pc \in {"fetch", "merge"} /\ p.base = pull.base /\ p.days = pull.days
      /\ p.new = pull.new \union batch
  <2>1. (IF batch = {} THEN pull.since ELSE FundingHistory!Max(batch) + 1) \in Int
    BY <1>2, <1>4 DEF Pulls
  <2>2. batch \subseteq Nat
    BY <1>2, <1>3
  <2> QED
    BY <1>1, <1>2, <1>5, <2>1, <2>2 DEF Pulls
<1> QED
  BY <1>1, <1>2, <1>3, <1>5, <1>6, PullMoves

\* A download that ends without a result.
LEMMA StoppedKeeps ==
    ASSUME FundInv, NEW pc \in {"idle", "refused"}, pull' = [pull EXCEPT !.pc = pc], rate' = rate,
           rates' \in {rates, pull.base \union pull.new}
    PROVE  FundInv'
<1>1. pull \in Pulls /\ pull.new \subseteq 0..rate /\ pull.base \subseteq 0..rate
      /\ rates \in SUBSET (0..rate)
  BY DEF FundInv, FundTypes
<1>2. PICK p : p = pull'
  OBVIOUS
<1>3. p \in Pulls /\ p.pc = pc /\ p.base = pull.base /\ p.new = pull.new
  BY <1>1, <1>2 DEF Pulls
<1>4. rates' \in SUBSET (0..rate)
  BY <1>1
<1> QED
  BY <1>1, <1>2, <1>3, <1>4, PullMoves

LEMMA FinishRatesKeeps ==
    ASSUME FundInv, FundingHistory!FinishRates
    PROVE  FundInv'
<1> DEFINE merged == pull.base \union pull.new
<1>1. pull.pc = "merge" /\ rate' = rate
  BY DEF FundingHistory!FinishRates
<1>2. pull \in Pulls /\ pull.new \subseteq 0..rate /\ pull.base \subseteq 0..rate
      /\ rates \in SUBSET (0..rate) /\ pull.days \in Days /\ rate \in Nat
  BY <1>1, FundNumbers DEF FundInv, FundTypes
<1>3. CASE FundingHistory!Enough(merged, pull.days)
  <2>1. rates' = merged /\ pull' = [pull EXCEPT !.pc = "done", !.out = merged]
    BY <1>3 DEF FundingHistory!FinishRates, FundingHistory!MergedRates
  <2>2. PICK p : p = pull'
    OBVIOUS
  <2>3. merged \subseteq 0..rate /\ merged \subseteq Nat
    BY <1>2
  <2> HIDE DEF merged
  <2>4. /\ p \in Pulls /\ p.base = pull.base /\ p.new = pull.new /\ p.out = merged
        /\ p.days = pull.days /\ p.pc = "done"
    BY <1>2, <2>1, <2>2, <2>3 DEF Pulls
  <2> QED
    BY <1>1, <1>2, <1>3, <2>1, <2>2, <2>3, <2>4, PullMoves
<1>4. CASE ~FundingHistory!Enough(merged, pull.days)
  <2>1. rates' = rates /\ pull' = [pull EXCEPT !.pc = "refused"]
    BY <1>4 DEF FundingHistory!FinishRates, FundingHistory!MergedRates
  <2> QED
    BY <1>1, <2>1, StoppedKeeps
<1> QED
  BY <1>3, <1>4

LEMMA FundKeeps == ASSUME FundInv, [FundingHistory!Next]_FundingVars PROVE FundInv'
<1>1. ASSUME NEW days \in Days, FundingHistory!Ask(days) PROVE FundInv'
  BY <1>1, AskKeeps
<1>2. CASE FundingHistory!FetchRates
  BY <1>2, FetchRatesKeeps
<1>3. CASE FundingHistory!FetchRatesFails
  <2>1. /\ pull' = [pull EXCEPT !.pc = "idle"] /\ rate' = rate
        /\ rates' \in {rates, pull.base \union pull.new}
    BY <1>3 DEF FundingHistory!FetchRatesFails
  <2> QED
    BY <2>1, StoppedKeeps
<1>4. CASE FundingHistory!FinishRates
  BY <1>4, FinishRatesKeeps
<1>5. CASE FundingHistory!CrashRates
  <2>1. pull' = [pull EXCEPT !.pc = "idle"] /\ rate' = rate /\ rates' \in {rates}
    BY <1>5 DEF FundingHistory!CrashRates
  <2> QED
    BY <2>1, StoppedKeeps
<1>6. ASSUME pull' = pull, rates' = rates, rate' = rate \/ (rate < MaxRate /\ rate' = rate + 1)
      PROVE  FundInv'
  <2>1. rate' \in FirstRate..MaxRate /\ 0..rate \subseteq 0..rate'
    BY <1>6, FundNumbers DEF FundInv, FundTypes
  <2>2. FundTypes'
    BY <1>6, <2>1 DEF FundInv, FundTypes
  <2>3. FundingHistory!ReturnedIsCovered'
    BY <1>6 DEF FundInv, FundingHistory!ReturnedIsCovered, FundingHistory!Max
  <2> QED
    BY <2>2, <2>3 DEF FundInv
<1>7. CASE FundingHistory!NewRate
  BY <1>6, <1>7 DEF FundingHistory!NewRate
<1>8. CASE UNCHANGED FundingVars
  BY <1>6, <1>8 DEF FundingVars
<1> QED
  BY <1>1, <1>2, <1>3, <1>4, <1>5, <1>7, <1>8 DEF FundingHistory!Next

LEMMA FundCovered == ASSUME FundInv PROVE FundingHistory!TypeOK /\ FundingHistory!ReturnedIsCovered
<1>1. 0..rate \subseteq 0..MaxRate
  BY FundNumbers DEF FundInv, FundTypes
<1> QED
  BY <1>1 DEF FundInv, FundTypes, FundingHistory!TypeOK, Pulls

\* A download works on the cache as it is: nobody else writes it.
RatesInv == pull.pc \in {"fetch", "merge"} => rates = pull.base

LEMMA StepKeepsRates ==
    ASSUME FundInv, RatesInv, [FundingHistory!Next]_FundingVars
    PROVE  RatesInv' /\ rates \subseteq rates'
<1>0. pull \in Pulls
  BY DEF FundInv, FundTypes
<1>1. ASSUME NEW days \in Days, FundingHistory!Ask(days) PROVE RatesInv' /\ rates \subseteq rates'
  BY <1>1 DEF FundingHistory!Ask, RatesInv
<1>2. CASE FundingHistory!FetchRates
  <2>1. pull.pc = "fetch" /\ rates' = rates
    BY <1>2 DEF FundingHistory!FetchRates
  <2>2. ASSUME NEW pc, NEW since, NEW new,
               pull' = [pull EXCEPT !.new = new, !.pc = pc, !.since = since]
        PROVE  pull'.base = pull.base
    BY <1>0, <2>2 DEF Pulls
  <2>3. pull'.base = pull.base
    BY <1>2, <2>2 DEF FundingHistory!FetchRates
  <2> QED
    BY <2>1, <2>3 DEF RatesInv
<1>3. CASE FundingHistory!FetchRatesFails
  <2>1. pull'.pc = "idle"
    BY <1>0, <1>3 DEF FundingHistory!FetchRatesFails, Pulls
  <2>2. rates \subseteq rates'
    BY <1>3 DEF FundingHistory!FetchRatesFails, RatesInv
  <2> QED
    BY <2>1, <2>2 DEF RatesInv
<1>4. CASE FundingHistory!FinishRates
  <2>1. pull'.pc \in {"done", "refused"}
    BY <1>0, <1>4 DEF FundingHistory!FinishRates, Pulls
  <2>2. rates \subseteq rates'
    BY <1>4 DEF FundingHistory!FinishRates, FundingHistory!MergedRates, RatesInv
  <2> QED
    BY <2>1, <2>2 DEF RatesInv
<1>5. CASE FundingHistory!CrashRates
  <2>1. pull'.pc = "idle" /\ rates' = rates
    BY <1>0, <1>5 DEF FundingHistory!CrashRates, Pulls
  <2> QED
    BY <2>1 DEF RatesInv
<1>6. CASE FundingHistory!NewRate
  BY <1>6 DEF FundingHistory!NewRate, RatesInv
<1>7. CASE UNCHANGED FundingVars
  BY <1>7 DEF FundingVars, RatesInv
<1> QED
  BY <1>1, <1>2, <1>3, <1>4, <1>5, <1>6, <1>7 DEF FundingHistory!Next

-----------------------------------------------------------------------------
(* Side by side *)

AllInv ==
    /\ IInv /\ KlinesInv /\ FundInv /\ AggInv /\ RecInv /\ BudgetInv /\ SweepInv /\ OosInv
    /\ which \in {"paper", "klines", "funding", "agg", "recorder", "budget", "sweep", "oos"}

\* One component moves, by a step of its own, and the others stay.
LEMMA EachMoves ==
    ASSUME [AllNext]_AllVars
    PROVE  /\ [Next]_paperVars /\ [Klines!Next]_KlineVars /\ [FundingHistory!Next]_FundingVars
           /\ [AggTrades!Next]_AggVars /\ [Recorder!Next]_RecVars /\ [RestBudget!Next]_BudgetVars
           /\ [SweepStore!Next]_SweepVars /\ [OosRegistry!Next]_OosVars
           /\ which' = which
<1>1. CASE KlineStep
  BY <1>1 DEF KlineStep, OtherVars
<1>2. CASE FundingStep
  BY <1>2 DEF FundingStep, OtherVars
<1>3. CASE AggStep
  BY <1>3 DEF AggStep, OtherVars
<1>4. CASE RecorderStep
  BY <1>4 DEF RecorderStep, OtherVars
<1>5. CASE BudgetStep
  BY <1>5 DEF BudgetStep, OtherVars
<1>6. CASE PaperStep
  BY <1>6 DEF PaperStep, DataVars
<1>7. CASE SweepStep
  BY <1>7 DEF SweepStep, DataVars
<1>8. CASE OosStep
  BY <1>8 DEF OosStep, DataVars
<1>9. CASE UNCHANGED AllVars
  BY <1>9 DEF AllVars, DataVars, OtherVars
<1> QED
  BY <1>1, <1>2, <1>3, <1>4, <1>5, <1>6, <1>7, <1>8, <1>9 DEF AllNext

LEMMA AllBegins == AllInit => AllInv
<1> SUFFICES ASSUME AllInit PROVE AllInv
  OBVIOUS
<1>1. /\ Init /\ Klines!Init /\ FundingHistory!Init /\ AggTrades!Init /\ Recorder!Init
      /\ RestBudget!Init /\ SweepStore!Init /\ OosRegistry!Init
      /\ which \in {"paper", "klines", "funding", "agg", "recorder", "budget", "sweep", "oos"}
  BY DEF AllInit
<1>2. IInv /\ KlinesInv /\ FundInv /\ AggInv
  BY <1>1, InitSound, KlinesInit, FundInit, AggInit
<1>3. RecInv /\ BudgetInv /\ SweepInv /\ OosInv
  BY <1>1, RecInit, BudgetInit, SweepInit, OosInit
<1> QED
  BY <1>1, <1>2, <1>3 DEF AllInv

LEMMA AllKeeps ==
    ASSUME AllInv, [AllNext]_AllVars
    PROVE  AllInv' /\ agg \ agg' \subseteq Loss
<1>1. /\ [Next]_paperVars /\ [Klines!Next]_KlineVars /\ [FundingHistory!Next]_FundingVars
      /\ [AggTrades!Next]_AggVars /\ [Recorder!Next]_RecVars /\ [RestBudget!Next]_BudgetVars
      /\ [SweepStore!Next]_SweepVars /\ [OosRegistry!Next]_OosVars
      /\ which' = which
  BY EachMoves
<1>2. IInv' /\ KlinesInv' /\ FundInv'
  BY <1>1, NextSound, KlinesKeeps, FundKeeps DEF AllInv
<1>3. AggInv' /\ agg \ agg' \subseteq Loss
  BY <1>1, AggKeeps DEF AllInv
<1>4. RecInv' /\ BudgetInv'
  BY <1>1, RecKeeps, BudgetKeeps DEF AllInv
<1>5. SweepInv' /\ OosInv'
  BY <1>1, SweepKeeps, OosKeeps DEF AllInv
<1> QED
  BY <1>1, <1>2, <1>3, <1>4, <1>5 DEF AllInv

\* Every component keeps its inductive invariant.
THEOREM ComponentsSound == AllSpec => []AllInv
<1>1. AllInv /\ [AllNext]_AllVars => AllInv'
  BY AllKeeps
<1> QED
  BY <1>1, AllBegins, PTL DEF AllSpec

\* Every component keeps its types.
THEOREM ComponentsTyped == AllSpec => []ComponentsTypeOK
<1>1. AllInv => ComponentsTypeOK
  <2> SUFFICES ASSUME AllInv PROVE ComponentsTypeOK
    OBVIOUS
  <2>1. TypeOK /\ Klines!TypeOK /\ FundingHistory!TypeOK /\ AggTrades!TypeOK
    BY InvTyped, KlinesTypeOK, FundCovered, AggGapless DEF AllInv
  <2>2. Recorder!TypeOK /\ RestBudget!TypeOK /\ SweepStore!TypeOK /\ OosRegistry!TypeOK
    BY RecTypeOK, BudgetPauses, SweepCounted, OosBurned DEF AllInv
  <2> QED
    BY <2>1, <2>2 DEF ComponentsTypeOK
<1> QED
  BY <1>1, ComponentsSound, PTL

\* A window of data that was given away stays burned: whoever enforces the
\* registry next is refused (oos_registry.py).
THEOREM BurnedForGood == AllSpec => []BurnedStaysBurned
<1>1. AllInv => BurnedStaysBurned
  BY OosBurned DEF AllInv, BurnedStaysBurned
<1> QED
  BY <1>1, ComponentsSound, PTL

\* A resumed sweep passes over a result only if its code had the strategy class
\* that is on disk; what is outside the class the hash does not see (sweep_store.py).
THEOREM ResumeIsCurrent == AllSpec => []PassedIsCurrent
<1>1. AllInv => PassedIsCurrent
  BY DEF AllInv, SweepInv, PassedIsCurrent
<1> QED
  BY <1>1, ComponentsSound, PTL

\* A stored result was counted as a trial first, or its counting had failed.
THEOREM StoredWasCounted == AllSpec => []StoredIsCounted
<1>1. AllInv => StoredIsCounted
  BY SweepCounted DEF AllInv, StoredIsCounted
<1> QED
  BY <1>1, ComponentsSound, PTL

\* A caller that was told to pause does not send before the pause is over.
THEOREM PausesAreKept == AllSpec => []OwnPauseIsKept
<1>1. AllInv => OwnPauseIsKept
  BY BudgetPauses DEF AllInv, OwnPauseIsKept
<1> QED
  BY <1>1, ComponentsSound, PTL

\* What a recorder received and neither holds nor lost in a mishap is in the file
\* of its day, through every read, merge and write of several recorders.
THEOREM NothingReceivedIsLost == AllSpec => []ReceivedIsKept
<1>1. AllInv => ReceivedIsKept
  BY DEF AllInv, RecInv, ReceivedIsKept
<1> QED
  BY <1>1, ComponentsSound, PTL

\* What a REST download is about to save has no hole that the cache did not have.
THEOREM RestIsGapless == AllSpec => []RestLeavesNoGap
<1>1. AllInv => RestLeavesNoGap
  BY AggGapless DEF AllInv, RestLeavesNoGap
<1> QED
  BY <1>1, ComponentsSound, PTL

\* A download that ends has every bar of its period that the exchange has, whatever
\* failed or crashed before, and none that was open but the last one and those
\* that an unordered merge or a full answer left so (downloader.py).
THEOREM PeriodIsCovered == AllSpec => []DownloadCoversPeriod
<1>1. AllInv => DownloadCoversPeriod
  BY KlinesCovered DEF AllInv, DownloadCoversPeriod
<1> QED
  BY <1>1, ComponentsSound, PTL

\* The rates that a download returns are the demanded share of its period.
THEOREM CoverageIsKept == AllSpec => []ReturnedIsCovered
<1>1. AllInv => ReturnedIsCovered
  BY DEF AllInv, FundInv, ReturnedIsCovered
<1> QED
  BY <1>1, ComponentsSound, PTL

\* The cache of trades loses a trade in two ways only: a download saves over what
\* an import wrote since it loaded the cache, or a flush of the import saves over
\* what a download wrote since that (downloader.py, binance_vision.py).
THEOREM OnlyRacesLose == AllSpec => LostOnlyToRace
<1>1. AllInv /\ [AllNext]_AllVars
        => [agg \ agg' \subseteq
              IF import.flush /\ ~import'.flush THEN missed
              ELSE UNION {unseen[w] : w \in {v \in Workers : work[v].pc \in {"fetch", "save"}}}]_AggVars
  BY AllKeeps DEF Loss, Unnoticed
<1> QED
  BY <1>1, ComponentsSound, PTL DEF AllSpec, LostOnlyToRace, AggTrades!LostOnlyToRace, AggVars, AggTrades!aggVars

\* What is cached is not lost: no bar of the klines, none replaced by an older copy
\* but by an unordered merge, and no funding rate, whatever fetch fails half way,
\* crashes or is refused (downloader.py, storage.py).
THEOREM CachesStay == AllSpec => CachesAreKept
<1> DEFINE BothKept == KeptInv /\ RatesInv
<1>1. AllInit => BothKept
  BY KeptBegins DEF AllInit, FundingHistory!Init, RatesInv
<1>2. ASSUME AllInv, BothKept, [AllNext]_AllVars
      PROVE  BothKept' /\ BarsKept /\ rates \subseteq rates'
  <2>1. [Klines!Next]_KlineVars /\ [FundingHistory!Next]_FundingVars
    BY <1>2, EachMoves
  <2>2. KeptInv' /\ BarsKept
    BY <1>2, <2>1, StepKeepsBars DEF AllInv
  <2>3. RatesInv' /\ rates \subseteq rates'
    BY <1>2, <2>1, StepKeepsRates DEF AllInv
  <2> QED
    BY <2>2, <2>3
<1>3. AllInv /\ BothKept /\ [AllNext]_AllVars => BothKept'
  BY <1>2
<1>4. AllInv /\ BothKept /\ [AllNext]_AllVars
        => [\A b \in Klines!Bars :
                /\ klines[b] # "none" => klines'[b] # "none"
                /\ klines[b] = "closed" => klines'[b] = "closed" \/ b \in stuck']_KlineVars
  BY <1>2 DEF BarsKept
<1>5. AllInv /\ BothKept /\ [AllNext]_AllVars => [rates \subseteq rates']_FundingVars
  BY <1>2
<1> HIDE DEF BothKept
<1> QED
  BY <1>1, <1>3, <1>4, <1>5, ComponentsSound, PTL
     DEF AllSpec, CachesAreKept, Klines!BarsAreKept, FundingHistory!RatesAreKept,
         KlineVars, Klines!klinesVars, FundingVars, FundingHistory!fundingVars
=============================================================================
