----------------------------- MODULE DemoReplay -----------------------------
(***************************************************************************)
(* How the replay server walks a recorded game (Server/savefile.pas and    *)
(* the playback loop of Server/tasv.pas).  A demo is too long to hold in   *)
(* memory: TSaveFile.Create scans it once and leaves a mark (a file        *)
(* offset and the number of the move found there) each time MEM_SIZE bytes *)
(* have gone by; GetMove keeps the page between two marks and loads        *)
(* another when the index leaves it.                                       *)
(*                                                                         *)
(* A file is the sequence of its moves' lengths.  An offset is always the  *)
(* boundary of a record, so it is written as the number of records before  *)
(* it, and a record read into memory is known by its place in the file.    *)
(***************************************************************************)
EXTENDS Integers, Sequences, SequencesExt

CONSTANTS
    MemSize,      \* MEM_SIZE, in the unit of the lengths
    Lengths,      \* the lengths of a move
    MaxMoves      \* bound: moves in a file

ASSUME DemoAssumption == MemSize \in Nat /\ Lengths \subseteq Nat \ {0} /\ MaxMoves \in Nat

VARIABLES
    demo,         \* the file, which nothing writes to
    phase,        \* "scan", "ready", "play", "over", "error"
    scanned,      \* i of TSaveFile.Create; totalmoves when the scan is done
    curmem,       \* bytes since the last mark
    marks,        \* TContLoad.Marks
    page,         \* TContLoad.Moves, startline and curmark
    loop,         \* TAServer.loop: the index of the next move to send
    played,       \* history: the records sent since the replay began or was moved
    moved         \* history: SetPos was called

demoVars == <<demo, phase, scanned, curmem, marks, page, loop, played, moved>>

NoPage == [moves |-> <<>>, startline |-> 0, curmark |-> 0]

DemoInit ==
    /\ demo \in BoundedSeq(Lengths, MaxMoves)
    /\ phase = "scan"
    /\ scanned = 0
    /\ curmem = 0
    /\ marks = <<[fileofs |-> 0, line |-> 0]>>
    /\ page = NoPage
    /\ loop = 0
    /\ played = <<>>
    /\ moved = FALSE

-----------------------------------------------------------------------------
(* The scan *)

\* The mark left when the record numbered i fills a page: fileofs is already
\* past that record, i does not count it yet.
PageMark(i) == [fileofs |-> i + 1, line |-> i]

\* One round of the loop over ReadRec.
ScanMove ==
    /\ phase = "scan"
    /\ scanned < Len(demo)
    /\ LET mem == curmem + demo[scanned + 1]
       IN IF mem > MemSize
          THEN /\ marks' = Append(marks, PageMark(scanned))
               /\ curmem' = 0
          ELSE /\ curmem' = mem
               /\ UNCHANGED marks
    /\ scanned' = scanned + 1
    /\ UNCHANGED <<demo, phase, page, loop, played, moved>>

\* Faulty variant: the last page is as long as the file.
EndMarksLong(n) == <<[fileofs |-> n, line |-> n], [fileofs |-> n, line |-> n]>>

\* The two marks that close the file of n records.
EndMarks(n) == <<[fileofs |-> n, line |-> n - 1], [fileofs |-> n, line |-> n]>>

ScanEnd ==
    /\ phase = "scan"
    /\ scanned = Len(demo)
    /\ marks' = marks \o EndMarks(scanned)
    /\ page' = [page EXCEPT !.curmark = Len(marks)]
    /\ phase' = "ready"
    /\ UNCHANGED <<demo, scanned, curmem, loop, played, moved>>

-----------------------------------------------------------------------------
(* The pages.  marks are numbered from 1 here and from 0 in the code. *)

Covers(m, index) == marks[m].line <= index /\ index < marks[m + 1].line

\* Faulty variant: the records of the page before are not disposed of.
LoadedOnTop(m) ==
    [moves |-> page.moves \o
               [k \in 1 .. (marks[m + 1].line - marks[m].line) |-> marks[m].fileofs + k - 1],
     startline |-> marks[m].line,
     curmark |-> m]

\* InitReplay(mark): the records from the mark's offset on, as many as there
\* are lines before the next mark.
Loaded(m) ==
    [moves |-> [k \in 1 .. (marks[m + 1].line - marks[m].line) |-> marks[m].fileofs + k - 1],
     startline |-> marks[m].line,
     curmark |-> m]

\* ReadRec failed: the exception of InitReplay.
ReadError(p) == \E k \in DOMAIN p.moves : p.moves[k] >= Len(demo)

\* The page GetMove(index) looks into, or none: the last two marks are not
\* searched.
PageOf(index) ==
    IF Covers(page.curmark, index)
    THEN page
    ELSE LET found == {m \in 1 .. Len(marks) - 2 : Covers(m, index)}
         IN IF found = {} THEN NoPage ELSE Loaded(CHOOSE m \in found : \A o \in found : m <= o)

Serves(index) == index < scanned /\ PageOf(index) # NoPage

-----------------------------------------------------------------------------
(* The playback *)

\* InitReplay without argument, before the first GetMove.
Start ==
    /\ phase = "ready"
    /\ page' = Loaded(1)
    /\ phase' = IF ReadError(page') THEN "error" ELSE "play"
    /\ UNCHANGED <<demo, scanned, curmem, marks, loop, played, moved>>

\* One round of the loop of DoTimer: the move is sent, the index advances, and
\* the game is over when there was none or it was the last.
SendMove ==
    /\ phase = "play"
    /\ Serves(loop)
    /\ LET p == PageOf(loop)
           k == loop - p.startline + 1
       IN IF ReadError(p) \/ k \notin DOMAIN p.moves
          THEN phase' = "error" /\ UNCHANGED <<page, loop, played>>
          ELSE /\ page' = p
               /\ played' = Append(played, p.moves[k])
               /\ loop' = loop + 1
               /\ phase' = IF loop + 1 = scanned THEN "over" ELSE "play"
    /\ UNCHANGED <<demo, scanned, curmem, marks, moved>>

NoMove ==
    /\ phase = "play"
    /\ ~Serves(loop)
    /\ loop' = loop + 1
    /\ phase' = "over"
    /\ UNCHANGED <<demo, scanned, curmem, marks, page, played, moved>>

\* SetPos: the progress bar is dragged, to totalmoves - 1 at most.  (In time
\* mode the code goes on to the next move with a serial number, which is the
\* same as dragging the bar there; that it dereferences nil when there is none
\* is left out.)
SetPos(i) ==
    /\ phase = "play"
    /\ loop' = i
    /\ played' = <<>>
    /\ moved' = TRUE
    /\ UNCHANGED <<demo, phase, scanned, curmem, marks, page>>

DemoNext ==
    \/ ScanMove
    \/ ScanEnd
    \/ Start
    \/ SendMove
    \/ NoMove
    \/ \E i \in 0 .. scanned - 1 : SetPos(i)

DemoSpec == DemoInit /\ [][DemoNext]_demoVars

-----------------------------------------------------------------------------
(* Properties *)

\* The variables keep their types.
DemoTypeOK ==
    /\ demo \in Seq(Lengths)
    /\ phase \in {"scan", "ready", "play", "over", "error"}
    /\ scanned \in 0 .. Len(demo)
    /\ curmem \in 0 .. MemSize
    /\ \A m \in DOMAIN marks : marks[m] \in [fileofs : 0 .. Len(demo), line : -1 .. Len(demo)]
    /\ page.startline \in 0 .. Len(demo)
    /\ page.curmark \in 0 .. Len(marks)
    /\ loop \in 0 .. Len(demo) + 1
    /\ moved \in BOOLEAN

\* Whatever the lengths of the moves and wherever the watcher drags the bar,
\* the replay never reads past the end of the file and never asks a page for a
\* move it does not hold (InitReplay's exception, TList's range error).
ReadsWithinPage == phase # "error"

\* Between two drags of the bar no move is sent twice or out of order, pages
\* joining without an overlap, and a replay that runs from the start to "Game
\* over" has sent every move of the file but one at the most.
LosesAtMostOne ==
    /\ \A a, b \in DOMAIN played : a < b => played[a] < played[b]
    /\ (phase = "over" /\ ~moved) => Len(played) + 1 >= Len(demo)

\* What savefile.pas:69 says of GetMove ("the index is to be global") and the
\* code does not keep: the move sent for an index is the record of that number.
\* The mark of a page is written after fileofs has passed record i and before
\* i counts it, so from the second page on every index serves the next record
\* and the one at the first boundary is never sent.
IndexIsGlobal ==
    [][played' # played /\ played' # <<>> => Last(played') = loop]_demoVars
=============================================================================
