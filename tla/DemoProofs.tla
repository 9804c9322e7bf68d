------------------------------ MODULE DemoProofs ----------------------------
(***************************************************************************)
(* That the replay server never reads outside its pages and loses one move *)
(* at most, for a file of any length with moves of any size; that a packet *)
(* comes out of the file as it went in, and no event is sent before the    *)
(* units after a drag of the bar, for packets of any shape and any number  *)
(* of units; and that Decompress undoes Compress, for packets of any       *)
(* length and every format.  What the recursive functions compute is shown *)
(* by going over their steps one by one (UpTo).                            *)
(***************************************************************************)
EXTENDS DemoReplay, DemoPackets, PacketCompression, SequenceTheorems, FiniteSetTheorems,
        DataLemmas, TLAPS

Mark == [fileofs : Int, line : Int]

\* The first mark is the start of the file; the scan leaves the others in order,
\* each one record behind its offset.
ScanInv ==
    /\ marks \in Seq(Mark) /\ Len(marks) >= 1
    /\ marks[1].fileofs = 0 /\ marks[1].line = 0
    /\ phase = "scan" =>
          /\ page = NoPage /\ loop = 0 /\ played = <<>> /\ moved = FALSE
          /\ \A m \in 2 .. Len(marks) :
                /\ marks[m].fileofs = marks[m].line + 1
                /\ marks[m].line \in 0 .. scanned - 1
          /\ \A m, k \in 1 .. Len(marks) : m <= k => marks[m].line <= marks[k].line

\* The scan is over: the last two marks close the file, and are no pages.
MarksInv ==
    phase # "scan" =>
        /\ scanned = Len(demo) /\ Len(marks) >= 3
        /\ \A m \in 2 .. Len(marks) - 2 : marks[m].fileofs = marks[m].line + 1
        /\ \A m \in 1 .. Len(marks) - 2 : marks[m].line >= 0
        /\ \A m \in 2 .. Len(marks) - 1 : marks[m].line <= scanned - 1
        /\ marks[Len(marks) - 1].line = scanned - 1
        /\ scanned > 0 =>
              \A m, k \in 1 .. Len(marks) - 1 : m <= k => marks[m].line <= marks[k].line

\* The page in memory is one of those between two marks.
PageInv ==
    /\ phase = "ready" => page.startline = 0 /\ loop = 0 /\ played = <<>> /\ moved = FALSE
    /\ phase \in {"play", "over"} =>
          page.curmark \in 1 .. Len(marks) - 2 /\ page = Loaded(page.curmark)
    /\ phase = "play" => loop \in 0 .. scanned

\* What has been sent lies before what is sent next: the record at the index, or,
\* from the second page on, the one after it.
PlayedInv ==
    /\ played \in Seq(Int)
    /\ \A a \in DOMAIN played :
          phase = "play" => played[a] < loop \/ (played[a] = loop /\ loop > marks[2].line)
    /\ phase = "play" /\ ~moved => Len(played) = loop

DemoInv ==
    DemoTypeOK /\ ScanInv /\ MarksInv /\ PageInv /\ PlayedInv /\ ReadsWithinPage /\ LosesAtMostOne

-----------------------------------------------------------------------------
(* Pages *)

LEMMA MarkTypes ==
    ASSUME ScanInv, NEW m \in 1 .. Len(marks)
    PROVE  marks[m].fileofs \in Int /\ marks[m].line \in Int
<1>1. marks[m] \in Mark
  <2>1. marks \in Seq(Mark)
    BY DEF ScanInv
  <2> QED
    BY <2>1
<1> QED
  BY <1>1 DEF Mark

\* A page serves the record of the index it is asked for, or the next, and all
\* its records are in the file.
LEMMA LoadedFacts ==
    ASSUME DemoTypeOK, ScanInv, MarksInv, phase # "scan", NEW m \in 1 .. Len(marks) - 2
    PROVE  /\ ~ReadError(Loaded(m))
           /\ Loaded(m).curmark = m
           /\ Loaded(m).startline = marks[m].line
           /\ Loaded(m).startline \in 0 .. Len(demo)
           /\ \A index \in Nat : Covers(m, index) =>
                 LET k == index - Loaded(m).startline + 1
                 IN  /\ k \in DOMAIN Loaded(m).moves
                     /\ Loaded(m).moves[k] = IF m = 1 THEN index ELSE index + 1
<1> DEFINE d == marks[m + 1].line - marks[m].line
           moves == [k \in 1 .. d |-> marks[m].fileofs + k - 1]
<1>0. /\ Len(marks) \in Nat /\ Len(demo) \in Nat
  BY DEF ScanInv, DemoTypeOK
<1>1. /\ Len(marks) \in Nat /\ Len(marks) >= 3 /\ Len(demo) \in Nat
      /\ m \in 1 .. Len(marks) /\ m + 1 \in 2 .. Len(marks) - 1
  BY <1>0 DEF MarksInv
<1>2. /\ marks[m].line \in Int /\ marks[m].fileofs \in Int /\ marks[m + 1].line \in Int
  BY <1>1, MarkTypes
<1>3. marks[m].line >= 0 /\ marks[m + 1].line <= Len(demo) - 1
  BY <1>1 DEF MarksInv
<1>4. marks[m].fileofs = IF m = 1 THEN marks[m].line ELSE marks[m].line + 1
  <2>1. CASE m = 1
    BY <2>1 DEF ScanInv
  <2>2. CASE m # 1
    <3>1. m \in 2 .. Len(marks) - 2
      BY <1>1, <2>2
    <3> QED
      BY <2>2, <3>1 DEF MarksInv
  <2> QED
    BY <2>1, <2>2
<1>5. Loaded(m) = [moves |-> moves, startline |-> marks[m].line, curmark |-> m]
  BY DEF Loaded
<1>6. ASSUME NEW k \in 1 .. d PROVE moves[k] < Len(demo)
  <2>1. k \in Int /\ k <= marks[m + 1].line - marks[m].line
    BY <1>2
  <2>2. moves[k] = marks[m].fileofs + k - 1
    OBVIOUS
  <2>3. marks[m].fileofs <= marks[m].line + 1
    BY <1>2, <1>4
  <2>4. marks[m].fileofs + k - 1 <= marks[m + 1].line
    BY <1>2, <2>1, <2>3
  <2>5. marks[m].fileofs + k - 1 < Len(demo)
    BY <1>1, <1>2, <1>3, <2>1, <2>4
  <2> HIDE DEF moves
  <2> QED
    BY <2>2, <2>5
<1>7. ~ReadError(Loaded(m))
  <2>1. \A k \in 1 .. d : moves[k] \in Int
    BY <1>2
  <2>2. DOMAIN moves = 1 .. d
    OBVIOUS
  <2>3. Loaded(m).moves = moves
    BY <1>5
  <2> HIDE DEF moves
  <2> QED
    BY <1>1, <1>6, <2>1, <2>2, <2>3 DEF ReadError
<1>8. marks[m].line \in 0 .. Len(demo)
  <2>1. CASE m = 1
    BY <1>1, <2>1 DEF ScanInv
  <2>2. CASE m # 1
    <3>1. m \in 2 .. Len(marks) - 1
      BY <1>1, <2>2
    <3> QED
      BY <1>1, <1>2, <1>3, <3>1 DEF MarksInv
  <2> QED
    BY <2>1, <2>2
<1>9. ASSUME NEW index \in Nat, Covers(m, index)
      PROVE  LET k == index - marks[m].line + 1
             IN  k \in 1 .. d /\ moves[k] = IF m = 1 THEN index ELSE index + 1
  <2>1. marks[m].line <= index /\ index < marks[m + 1].line
    BY <1>9 DEF Covers
  <2>2. index - marks[m].line + 1 \in 1 .. d
    BY <1>2, <2>1
  <2> QED
    BY <1>2, <1>4, <2>2
<1> QED
  BY <1>5, <1>7, <1>8, <1>9

\* GetMove finds a page that covers the index, or none.
LEMMA PageOfFacts ==
    ASSUME ScanInv, MarksInv, PageInv, phase = "play", NEW index \in Nat
    PROVE  /\ PageOf(index) # NoPage =>
                 \E m \in 1 .. Len(marks) - 2 : Covers(m, index) /\ PageOf(index) = Loaded(m)
           /\ (\E m \in 1 .. Len(marks) - 2 : Covers(m, index)) => PageOf(index) # NoPage
<1> DEFINE found == {m \in 1 .. Len(marks) - 2 : Covers(m, index)}
<1>1. \A m \in 1 .. Len(marks) - 2 : Loaded(m) # NoPage
  <2>1. ASSUME NEW m \in 1 .. Len(marks) - 2 PROVE Loaded(m).curmark = m /\ m # 0
    BY DEF Loaded
  <2>2. NoPage.curmark = 0
    BY DEF NoPage
  <2> QED
    BY <2>1, <2>2
<1>2. CASE Covers(page.curmark, index)
  <2>1. PageOf(index) = Loaded(page.curmark) /\ page.curmark \in 1 .. Len(marks) - 2
    BY <1>2 DEF PageOf, PageInv
  <2> QED
    BY <1>1, <1>2, <2>1
<1>3. CASE ~Covers(page.curmark, index) /\ found = {}
  BY <1>3 DEF PageOf
<1>4. CASE ~Covers(page.curmark, index) /\ found # {}
  <2> DEFINE least == CHOOSE m \in found : \A o \in found : m <= o
  <2>1. found \in SUBSET Nat
    BY DEF ScanInv
  <2> HIDE DEF found
  <2>2. \E m \in found : \A o \in found : m <= o
    BY <1>4, <2>1, LeastNumber
  <2>3. least \in found
    BY <2>2
  <2>4. PageOf(index) = Loaded(least)
    BY <1>4 DEF PageOf, found
  <2> HIDE DEF least
  <2> QED
    BY <1>1, <2>3, <2>4 DEF found
<1> QED
  BY <1>2, <1>3, <1>4

\* Every move but the last is on a page.
LEMMA Covered ==
    ASSUME DemoTypeOK, ScanInv, MarksInv, phase # "scan", NEW index \in Nat, index < scanned - 1
    PROVE  \E m \in 1 .. Len(marks) - 2 : Covers(m, index)
<1> DEFINE T == {m \in 1 .. Len(marks) - 1 : marks[m].line > index}
<1>1. Len(marks) \in Nat /\ Len(marks) >= 3
  BY DEF ScanInv, MarksInv
<1>2. Len(marks) - 1 \in T
  <2>1. marks[Len(marks) - 1].line = scanned - 1 /\ scanned \in Int
    BY DEF MarksInv, DemoTypeOK
  <2> QED
    BY <1>1, <2>1
<1>3. T \in SUBSET Nat /\ T # {}
  BY <1>1, <1>2
<1>4. PICK k \in T : \A y \in T : k <= y
  <2> HIDE DEF T
  <2> QED
    BY <1>3, LeastNumber
<1>5. k # 1
  BY <1>4 DEF ScanInv
<1>6. k - 1 \in 1 .. Len(marks) - 2 /\ k - 1 \in 1 .. Len(marks)
  BY <1>1, <1>4, <1>5
<1>7. ~(marks[k - 1].line > index)
  <2>1. k - 1 \notin T
    BY <1>1, <1>4
  <2> QED
    BY <1>1, <1>6, <2>1
<1>8. marks[k - 1].line \in Int
  BY <1>6, MarkTypes
<1>9. (k - 1) + 1 = k /\ marks[k].line > index
  BY <1>1, <1>4
<1>10. Covers(k - 1, index)
  BY <1>7, <1>8, <1>9 DEF Covers
<1> QED
  BY <1>6, <1>10
-----------------------------------------------------------------------------
(* The scan *)

LEMMA InitHolds == DemoInit => DemoInv
<1> SUFFICES ASSUME DemoInit PROVE DemoInv
  OBVIOUS
<1>1. demo \in Seq(Lengths)
  <2>1. PICK n \in 0 .. MaxMoves : demo \in [1 .. n -> Lengths]
    BY DEF DemoInit, BoundedSeq, SeqOf
  <2>2. n \in Nat
    BY DemoAssumption
  <2> QED
    BY <2>1, <2>2
<1>2. DemoTypeOK
  <2>1. Len(demo) \in Nat /\ Len(marks) = 1 /\ DOMAIN marks = {1}
    BY <1>1 DEF DemoInit
  <2>2. marks[1] = [fileofs |-> 0, line |-> 0]
    BY DEF DemoInit
  <2>3. \A m \in DOMAIN marks : marks[m] \in [fileofs : 0 .. Len(demo), line : -1 .. Len(demo)]
    BY <2>1, <2>2
  <2>4. page.startline = 0 /\ page.curmark = 0
    BY DEF DemoInit, NoPage
  <2>5. scanned \in 0 .. Len(demo) /\ curmem \in 0 .. MemSize /\ loop \in 0 .. Len(demo) + 1
    BY <2>1, DemoAssumption DEF DemoInit
  <2> QED
    <3>1. phase \in {"scan", "ready", "play", "over", "error"} /\ moved \in BOOLEAN
      BY DEF DemoInit
    <3>2. page.startline \in 0 .. Len(demo) /\ page.curmark \in 0 .. Len(marks)
      BY <2>1, <2>4
    <3> QED
      BY <1>1, <2>3, <2>5, <3>1, <3>2 DEF DemoTypeOK
<1>3. ScanInv
  BY DEF DemoInit, ScanInv, Mark
<1>4. MarksInv /\ PageInv /\ PlayedInv /\ ReadsWithinPage /\ LosesAtMostOne
  BY DEF DemoInit, MarksInv, PageInv, PlayedInv, ReadsWithinPage, LosesAtMostOne
<1> QED
  BY <1>2, <1>3, <1>4 DEF DemoInv

LEMMA ScanMoveKeeps == DemoInv /\ ScanMove => DemoInv'
<1> SUFFICES ASSUME DemoInv, ScanMove PROVE DemoInv'
  OBVIOUS
<1> USE DEF DemoInv
<1>1. /\ phase = "scan" /\ scanned < Len(demo) /\ scanned' = scanned + 1
      /\ UNCHANGED <<demo, phase, page, loop, played, moved>>
  BY DEF ScanMove
<1>2. scanned \in Nat /\ Len(demo) \in Nat /\ demo \in Seq(Lengths) /\ curmem \in Nat
  BY DemoAssumption DEF DemoTypeOK
<1>3. PICK g : g = PageMark(scanned)
  OBVIOUS
<1>4. g \in Mark /\ g.fileofs = scanned + 1 /\ g.line = scanned
      /\ g \in [fileofs : 0 .. Len(demo), line : -1 .. Len(demo)]
  BY <1>1, <1>2, <1>3 DEF PageMark, Mark
<1>5. marks' = Append(marks, g) \/ marks' = marks
  BY <1>3 DEF ScanMove
<1>6. curmem' \in 0 .. MemSize
  <2>1. demo[scanned + 1] \in Nat
    <3>1. scanned + 1 \in 1 .. Len(demo)
      BY <1>1, <1>2
    <3>2. demo[scanned + 1] \in Lengths
      BY <1>2, <3>1
    <3> QED
      BY <3>2, DemoAssumption
  <2> QED
    BY <1>2, <2>1, DemoAssumption DEF ScanMove
<1>7. marks \in Seq(Mark) /\ Len(marks) \in Nat /\ Len(marks) >= 1
  BY DEF ScanInv
<1>8. DemoTypeOK'
  <2>1. (\A m \in DOMAIN marks : marks[m] \in [fileofs : 0 .. Len(demo), line : -1 .. Len(demo)])'
    <3>1. \A m \in 1 .. Len(marks) :
             marks[m] \in [fileofs : 0 .. Len(demo), line : -1 .. Len(demo)]
      BY <1>7 DEF DemoTypeOK
    <3>2. ASSUME marks' = Append(marks, g), NEW m \in 1 .. Len(marks) + 1
          PROVE  marks'[m] \in [fileofs : 0 .. Len(demo), line : -1 .. Len(demo)]
      <4>1. CASE m = Len(marks) + 1
        <5>1. marks'[m] = g
          BY <1>4, <1>7, <3>2, <4>1
        <5> QED
          BY <1>4, <5>1
      <4>2. CASE m # Len(marks) + 1
        <5>1. m \in 1 .. Len(marks)
          BY <1>7, <4>2
        <5>2. marks'[m] = marks[m]
          BY <1>4, <1>7, <3>2, <5>1
        <5> QED
          BY <3>1, <5>1, <5>2
      <4> QED
        BY <4>1, <4>2
    <3>3. marks' = Append(marks, g) => DOMAIN marks' = 1 .. Len(marks) + 1
      BY <1>4, <1>7
    <3>4. demo' = demo
      BY <1>1
    <3>5. CASE marks' = marks
      BY <1>7, <3>1, <3>4, <3>5
    <3>6. CASE marks' = Append(marks, g)
      BY <3>2, <3>3, <3>4, <3>6
    <3> QED
      BY <1>5, <3>5, <3>6
  <2>2. page.curmark' \in 0 .. Len(marks')
    BY <1>1, <1>4, <1>5, <1>7 DEF DemoTypeOK
  <2>3. scanned' \in 0 .. Len(demo')
    BY <1>1, <1>2
  <2> QED
    BY <1>1, <1>6, <2>1, <2>2, <2>3 DEF DemoTypeOK
<1>9. ScanInv'
  <2>1. CASE marks' = marks
    <3>1. \A m \in 2 .. Len(marks) :
             marks[m].fileofs = marks[m].line + 1 /\ marks[m].line \in 0 .. scanned
      BY <1>1, <1>2 DEF ScanInv
    <3> QED
      BY <1>1, <1>2, <2>1, <3>1 DEF ScanInv
  <2>2. CASE marks' = Append(marks, g)
    <3>1. marks' \in Seq(Mark) /\ Len(marks') = Len(marks) + 1
      BY <1>4, <1>7, <2>2
    <3>2. \A m \in 1 .. Len(marks) : marks'[m] = marks[m]
      BY <1>4, <1>7, <2>2
    <3>3. marks'[Len(marks) + 1] = g
      BY <1>4, <1>7, <2>2
    <3>4. \A m \in 1 .. Len(marks) : marks[m].line \in Int /\ marks[m].line <= scanned
      <4> TAKE m \in 1 .. Len(marks)
      <4>1. CASE m = 1
        BY <1>2, <4>1 DEF ScanInv
      <4>2. CASE m # 1
        <5>1. m \in 2 .. Len(marks)
          BY <1>7, <4>2
        <5> QED
          BY <1>1, <1>2, <5>1 DEF ScanInv
      <4> QED
        BY <4>1, <4>2
    <3>5. ASSUME NEW m \in 2 .. Len(marks')
          PROVE  marks'[m].fileofs = marks'[m].line + 1 /\ marks'[m].line \in 0 .. scanned' - 1
      <4>1. CASE m = Len(marks) + 1
        BY <1>1, <1>2, <1>4, <3>3, <4>1
      <4>2. CASE m # Len(marks) + 1
        <5>1. m \in 2 .. Len(marks) /\ marks'[m] = marks[m]
          BY <1>7, <3>1, <3>2, <4>2
        <5>2. marks[m].fileofs = marks[m].line + 1 /\ marks[m].line \in 0 .. scanned - 1
          BY <1>1, <5>1 DEF ScanInv
        <5> QED
          BY <1>1, <1>2, <5>1, <5>2
      <4> QED
        BY <4>1, <4>2
    <3>6. ASSUME NEW m \in 1 .. Len(marks'), NEW k \in 1 .. Len(marks'), m <= k
          PROVE  marks'[m].line <= marks'[k].line
      <4>1. CASE k # Len(marks) + 1
        <5>1. m \in 1 .. Len(marks) /\ k \in 1 .. Len(marks)
          BY <1>7, <3>1, <3>6, <4>1
        <5>2. marks[m].line <= marks[k].line
          BY <1>1, <3>6, <5>1 DEF ScanInv
        <5> QED
          BY <3>2, <5>1, <5>2
      <4>2. CASE k = Len(marks) + 1 /\ m # k
        <5>1. m \in 1 .. Len(marks)
          BY <1>7, <3>1, <4>2
        <5> QED
          BY <1>4, <3>2, <3>3, <3>4, <4>2, <5>1
      <4>3. CASE m = Len(marks) + 1 /\ m = k
        BY <1>2, <1>4, <3>3, <4>3
      <4> QED
        BY <4>1, <4>2, <4>3
    <3>7. marks'[1] = marks[1]
      BY <1>7, <3>2
    <3> QED
      BY <1>1, <1>7, <3>1, <3>5, <3>6, <3>7 DEF ScanInv
  <2> QED
    BY <1>5, <2>1, <2>2
<1>10. MarksInv' /\ PageInv' /\ ReadsWithinPage'
  BY <1>1 DEF MarksInv, PageInv, ReadsWithinPage
<1>11. PlayedInv' /\ LosesAtMostOne'
  BY <1>1 DEF PlayedInv, LosesAtMostOne
<1> QED
  BY <1>8, <1>9, <1>10, <1>11

LEMMA ScanEndKeeps == DemoInv /\ ScanEnd => DemoInv'
<1> SUFFICES ASSUME DemoInv, ScanEnd PROVE DemoInv'
  OBVIOUS
<1> USE DEF DemoInv
<1>1. /\ phase = "scan" /\ phase' = "ready" /\ scanned = Len(demo)
      /\ marks' = marks \o EndMarks(scanned)
      /\ page' = [page EXCEPT !.curmark = Len(marks)]
      /\ UNCHANGED <<demo, scanned, curmem, loop, played, moved>>
  BY DEF ScanEnd
<1>2. scanned \in Nat /\ Len(demo) \in Nat /\ demo \in Seq(Lengths)
  BY DEF DemoTypeOK
<1>3. marks \in Seq(Mark) /\ Len(marks) \in Nat /\ Len(marks) >= 1
  BY DEF ScanInv
<1> DEFINE L == Len(marks)
<1>4. PICK e : e = EndMarks(scanned)
  OBVIOUS
<1>5. PICK e1, e2 : /\ e = <<e1, e2>>
                    /\ e1 = [fileofs |-> scanned, line |-> scanned - 1]
                    /\ e2 = [fileofs |-> scanned, line |-> scanned]
  BY <1>4 DEF EndMarks
<1>6. /\ e1 \in [fileofs : 0 .. Len(demo), line : -1 .. Len(demo)]
      /\ e2 \in [fileofs : 0 .. Len(demo), line : -1 .. Len(demo)]
      /\ e1 \in Mark /\ e2 \in Mark /\ e1.line = scanned - 1
  BY <1>1, <1>2, <1>5 DEF Mark
<1>7. e \in Seq(Mark) /\ Len(e) = 2 /\ e[1] = e1 /\ e[2] = e2
  BY <1>5, <1>6
<1>8. marks' = marks \o e
  BY <1>1, <1>4
<1>9. /\ marks' \in Seq(Mark) /\ Len(marks') = L + 2
      /\ \A m \in 1 .. L : marks'[m] = marks[m]
      /\ marks'[L + 1] = e1 /\ marks'[L + 2] = e2
  <2>1. /\ marks \o e \in Seq(Mark) /\ Len(marks \o e) = Len(marks) + Len(e)
        /\ \A m \in 1 .. Len(marks) + Len(e) :
              (marks \o e)[m] = IF m <= Len(marks) THEN marks[m] ELSE e[m - Len(marks)]
    BY <1>3, <1>7, ConcatProperties
  <2>2. \A m \in 1 .. L : m \in 1 .. Len(marks) + Len(e) /\ m <= Len(marks)
    BY <1>3, <1>7
  <2>3. L + 1 \in 1 .. Len(marks) + Len(e) /\ ~(L + 1 <= Len(marks)) /\ L + 1 - Len(marks) = 1
    BY <1>3, <1>7
  <2>4. L + 2 \in 1 .. Len(marks) + Len(e) /\ ~(L + 2 <= Len(marks)) /\ L + 2 - Len(marks) = 2
    BY <1>3, <1>7
  <2>5. (marks \o e)[L + 1] = e1 /\ (marks \o e)[L + 2] = e2
    BY <1>7, <2>1, <2>3, <2>4
  <2>6. \A m \in 1 .. L : (marks \o e)[m] = marks[m]
    BY <2>1, <2>2
  <2>7. Len(marks) + Len(e) = L + 2
    BY <1>7
  <2> QED
    BY <1>8, <2>1, <2>5, <2>6, <2>7
<1>10. /\ page' = [moves |-> <<>>, startline |-> 0, curmark |-> L]
       /\ loop = 0 /\ played = <<>> /\ moved = FALSE
  BY <1>1 DEF ScanInv, NoPage
<1>11. DemoTypeOK'
  <2>1. ASSUME NEW m \in 1 .. L + 2
        PROVE  marks'[m] \in [fileofs : 0 .. Len(demo), line : -1 .. Len(demo)]
    <3>1. CASE m = L + 1 \/ m = L + 2
      BY <1>6, <1>9, <3>1
    <3>2. CASE m # L + 1 /\ m # L + 2
      <4>1. m \in 1 .. L /\ m \in DOMAIN marks
        BY <1>3, <3>2
      <4> QED
        BY <1>9, <4>1 DEF DemoTypeOK
    <3> QED
      BY <3>1, <3>2
  <2>2. DOMAIN marks' = 1 .. L + 2
    BY <1>9
  <2>3. page'.startline = 0 /\ page'.curmark \in 0 .. Len(marks')
    BY <1>3, <1>9, <1>10
  <2> QED
    BY <1>1, <1>2, <1>10, <2>1, <2>2, <2>3 DEF DemoTypeOK
<1>12. ScanInv'
  BY <1>1, <1>3, <1>9 DEF ScanInv
<1>13. MarksInv'
  <2>1. ASSUME NEW m \in 2 .. L
        PROVE  /\ marks'[m].fileofs = marks'[m].line + 1
               /\ marks'[m].line \in 0 .. scanned - 1
    <3>1. marks'[m] = marks[m]
      BY <1>3, <1>9
    <3> QED
      BY <1>1, <3>1 DEF ScanInv
  <2>2. marks'[1].line = 0
    BY <1>12 DEF ScanInv
  <2>3. ASSUME NEW m \in 1 .. L PROVE marks'[m].line >= 0 /\ marks'[m].line \in Int
    <3>1. m = 1 \/ m \in 2 .. L
      BY <1>3
    <3> QED
      BY <1>2, <2>1, <2>2, <3>1
  <2>4. ASSUME NEW m \in 2 .. L + 1 PROVE marks'[m].line <= scanned - 1
    <3>1. m = L + 1 \/ m \in 2 .. L
      BY <1>3
    <3> QED
      BY <1>2, <1>6, <1>9, <2>1, <3>1
  <2>5. ASSUME scanned > 0, NEW m \in 1 .. L + 1, NEW k \in 1 .. L + 1, m <= k
        PROVE  marks'[m].line <= marks'[k].line
    <3>1. CASE k # L + 1
      <4>1. m \in 1 .. L /\ k \in 1 .. L
        BY <1>3, <2>5, <3>1
      <4>2. marks[m].line <= marks[k].line
        BY <1>1, <2>5, <4>1 DEF ScanInv
      <4> QED
        BY <1>9, <4>1, <4>2
    <3>2. CASE k = L + 1
      <4>1. marks'[k].line = scanned - 1
        BY <1>6, <1>9, <3>2
      <4>2. m = 1 \/ m \in 2 .. L + 1
        BY <1>3
      <4>3. marks'[m].line <= scanned - 1
        BY <1>2, <2>2, <2>4, <2>5, <4>2
      <4> QED
        BY <4>1, <4>3
    <3> QED
      BY <3>1, <3>2
  <2>6. Len(marks') - 2 = L /\ Len(marks') - 1 = L + 1 /\ Len(marks') >= 3
    BY <1>3, <1>9
  <2>7. marks'[L + 1].line = scanned - 1
    BY <1>6, <1>9
  <2> HIDE DEF L
  <2> QED
    BY <1>1, <2>1, <2>3, <2>4, <2>5, <2>6, <2>7 DEF MarksInv
<1>14. PageInv' /\ ReadsWithinPage'
  BY <1>1, <1>10 DEF PageInv, ReadsWithinPage
<1>15. PlayedInv' /\ LosesAtMostOne'
  BY <1>1, <1>10 DEF PlayedInv, LosesAtMostOne
<1> QED
  BY <1>11, <1>12, <1>13, <1>14, <1>15

-----------------------------------------------------------------------------
(* The playback *)

\* What the playback leaves alone.
LEMMA FileKept ==
    ASSUME DemoInv, phase # "scan", phase' # "scan", UNCHANGED <<demo, scanned, curmem, marks>>
    PROVE  ScanInv' /\ MarksInv'
  BY DEF DemoInv, ScanInv, MarksInv

LEMMA StartKeeps == DemoInv /\ Start => DemoInv'
<1> SUFFICES ASSUME DemoInv, Start PROVE DemoInv'
  OBVIOUS
<1>1. /\ phase = "ready" /\ page' = Loaded(1)
      /\ phase' = IF ReadError(page') THEN "error" ELSE "play"
      /\ UNCHANGED <<demo, scanned, curmem, marks, loop, played, moved>>
  BY DEF Start
<1>2. DemoTypeOK /\ ScanInv /\ MarksInv /\ PageInv /\ PlayedInv /\ LosesAtMostOne
  BY DEF DemoInv
<1>3. Len(marks) \in Nat /\ Len(marks) >= 3 /\ 1 \in 1 .. Len(marks) - 2
  BY <1>1, <1>2 DEF MarksInv, ScanInv
<1>4. /\ ~ReadError(Loaded(1)) /\ Loaded(1).curmark = 1
      /\ Loaded(1).startline \in 0 .. Len(demo)
  BY <1>1, <1>2, <1>3, LoadedFacts
<1>5. ReadError(page') = ReadError(Loaded(1))
  BY <1>1
<1>6. phase' = "play"
  BY <1>1, <1>4, <1>5
<1>7. loop = 0 /\ played = <<>> /\ moved = FALSE
  BY <1>1, <1>2 DEF PageInv
<1>8. ScanInv' /\ MarksInv'
  BY <1>1, <1>6, FileKept
<1>9. DemoTypeOK'
  BY <1>1, <1>2, <1>3, <1>4, <1>6 DEF DemoTypeOK
<1>10. PageInv'
  <2>1. Loaded(1)' = Loaded(1)
    BY <1>1 DEF Loaded
  <2>2. scanned \in Nat
    BY <1>2 DEF DemoTypeOK
  <2> QED
    BY <1>1, <1>3, <1>4, <1>6, <1>7, <2>1, <2>2 DEF PageInv
<1>11. PlayedInv' /\ LosesAtMostOne' /\ ReadsWithinPage'
  BY <1>1, <1>6, <1>7 DEF PlayedInv, LosesAtMostOne, ReadsWithinPage
<1> QED
  BY <1>8, <1>9, <1>10, <1>11 DEF DemoInv

LEMMA SendMoveKeeps == DemoInv /\ SendMove => DemoInv'
<1> SUFFICES ASSUME DemoInv, SendMove PROVE DemoInv'
  OBVIOUS
<1>1. /\ phase = "play" /\ loop < scanned /\ PageOf(loop) # NoPage
      /\ UNCHANGED <<demo, scanned, curmem, marks, moved>>
  BY DEF SendMove, Serves
<1>2. DemoTypeOK /\ ScanInv /\ MarksInv /\ PageInv /\ PlayedInv /\ LosesAtMostOne
  BY DEF DemoInv
<1>3. /\ loop \in Nat /\ scanned \in Nat /\ scanned = Len(demo) /\ loop + 1 <= scanned
      /\ Len(marks) \in Nat /\ Len(marks) >= 3
  BY <1>1, <1>2 DEF PageInv, MarksInv, ScanInv, DemoTypeOK
<1>4. PICK m \in 1 .. Len(marks) - 2 : Covers(m, loop) /\ PageOf(loop) = Loaded(m)
  BY <1>1, <1>2, <1>3, PageOfFacts
<1> DEFINE k == loop - Loaded(m).startline + 1
<1>5. PICK record : record = Loaded(m).moves[k]
  OBVIOUS
<1>6. /\ ~ReadError(Loaded(m)) /\ Loaded(m).curmark = m
      /\ Loaded(m).startline \in 0 .. Len(demo)
      /\ k \in DOMAIN Loaded(m).moves
      /\ record = IF m = 1 THEN loop ELSE loop + 1
  BY <1>1, <1>2, <1>3, <1>4, <1>5, LoadedFacts
<1>7. /\ page' = Loaded(m) /\ loop' = loop + 1
      /\ phase' = IF loop + 1 = scanned THEN "over" ELSE "play"
      /\ played' = Append(played, record)
  BY <1>4, <1>5, <1>6 DEF SendMove
<1>8. phase' \in {"play", "over"} /\ phase # "scan"
  BY <1>1, <1>7
<1>9. ScanInv' /\ MarksInv'
  BY <1>1, <1>8, FileKept
<1>10. DemoTypeOK'
  <2>1. page'.startline \in 0 .. Len(demo) /\ page'.curmark \in 0 .. Len(marks)
    BY <1>3, <1>6, <1>7
  <2>2. loop' \in 0 .. Len(demo) + 1
    BY <1>3, <1>7
  <2> QED
    BY <1>1, <1>2, <1>8, <2>1, <2>2 DEF DemoTypeOK
<1>11. PageInv'
  <2>1. Loaded(m)' = Loaded(m)
    BY <1>1 DEF Loaded
  <2>2. loop' \in 0 .. scanned
    BY <1>3, <1>7
  <2> QED
    BY <1>1, <1>6, <1>7, <1>8, <2>1, <2>2 DEF PageInv
<1>12. m # 1 => loop >= marks[2].line
  <2>1. ASSUME m # 1 PROVE loop >= marks[2].line
    <3>1. 2 \in 1 .. Len(marks) - 1 /\ m \in 1 .. Len(marks) - 1 /\ 2 <= m /\ scanned > 0
      BY <1>1, <1>3, <2>1
    <3>2. marks[2].line <= marks[m].line
      BY <1>1, <1>2, <3>1 DEF MarksInv
    <3>3. marks[2].line \in Int /\ marks[m].line \in Int
      BY <1>2, <1>3, <3>1, MarkTypes
    <3>4. marks[m].line <= loop
      BY <1>4 DEF Covers
    <3> QED
      BY <1>3, <3>2, <3>3, <3>4
  <2> QED
    BY <2>1
<1>13. m = 1 => loop < marks[2].line
  BY <1>4 DEF Covers
<1>14. marks[2].line \in Int
  BY <1>2, <1>3, MarkTypes
<1>15. played \in Seq(Int) /\ Len(played) \in Nat
  BY <1>2 DEF PlayedInv
<1>16. record \in Int
  BY <1>3, <1>6
<1>17. /\ played' \in Seq(Int) /\ Len(played') = Len(played) + 1
       /\ \A a \in 1 .. Len(played) : played'[a] = played[a]
       /\ played'[Len(played) + 1] = record
  BY <1>7, <1>15, <1>16
<1>18. ASSUME NEW a \in 1 .. Len(played)
       PROVE  played[a] \in Int /\ played[a] <= loop /\ played[a] < record
  <2>1. played[a] \in Int
    BY <1>15
  <2>2. played[a] < loop \/ (played[a] = loop /\ loop > marks[2].line)
    BY <1>1, <1>2, <1>15 DEF PlayedInv
  <2>3. CASE played[a] < loop
    BY <1>3, <1>6, <2>1, <2>3
  <2>4. CASE played[a] = loop /\ loop > marks[2].line
    <3>1. m # 1
      BY <1>3, <1>13, <1>14, <2>4
    <3> QED
      BY <1>3, <1>6, <2>1, <2>4, <3>1
  <2> QED
    BY <2>2, <2>3, <2>4
<1>19. ~moved => Len(played') = loop'
  BY <1>1, <1>2, <1>3, <1>7, <1>15, <1>17 DEF PlayedInv
<1>20. PlayedInv'
  <2>1. ASSUME NEW a \in 1 .. Len(played) + 1
        PROVE  played'[a] < loop' \/ (played'[a] = loop' /\ loop' > marks[2].line)
    <3>1. CASE a = Len(played) + 1
      BY <1>3, <1>6, <1>7, <1>12, <1>14, <1>17, <3>1
    <3>2. CASE a # Len(played) + 1
      <4>1. a \in 1 .. Len(played)
        BY <1>15, <3>2
      <4> QED
        BY <1>3, <1>7, <1>17, <1>18, <4>1
    <3> QED
      BY <3>1, <3>2
  <2>2. DOMAIN played' = 1 .. Len(played) + 1
    BY <1>15, <1>17
  <2> QED
    BY <1>1, <1>17, <1>19, <2>1, <2>2 DEF PlayedInv
<1>21. LosesAtMostOne'
  <2>1. ASSUME NEW a \in 1 .. Len(played) + 1, NEW b \in 1 .. Len(played) + 1, a < b
        PROVE  played'[a] < played'[b]
    <3>1. a \in 1 .. Len(played)
      BY <1>15, <2>1
    <3>2. CASE b = Len(played) + 1
      BY <1>17, <1>18, <3>1, <3>2
    <3>3. CASE b # Len(played) + 1
      <4>1. b \in 1 .. Len(played)
        BY <1>15, <3>3
      <4>2. played[a] < played[b]
        BY <1>2, <1>15, <2>1, <3>1, <4>1 DEF LosesAtMostOne
      <4> QED
        BY <1>17, <3>1, <4>1, <4>2
    <3> QED
      BY <3>2, <3>3
  <2>2. DOMAIN played' = 1 .. Len(played) + 1
    BY <1>15, <1>17
  <2>3. (phase' = "over" /\ ~moved) => Len(played') + 1 >= Len(demo)
    BY <1>3, <1>7, <1>19
  <2> QED
    BY <1>1, <2>1, <2>2, <2>3 DEF LosesAtMostOne
<1>22. ReadsWithinPage'
  BY <1>8 DEF ReadsWithinPage
<1> QED
  BY <1>9, <1>10, <1>11, <1>20, <1>21, <1>22 DEF DemoInv

LEMMA NoMoveKeeps == DemoInv /\ NoMove => DemoInv'
<1> SUFFICES ASSUME DemoInv, NoMove PROVE DemoInv'
  OBVIOUS
<1>1. /\ phase = "play" /\ phase' = "over" /\ ~Serves(loop) /\ loop' = loop + 1
      /\ UNCHANGED <<demo, scanned, curmem, marks, page, played, moved>>
  BY DEF NoMove
<1>2. DemoTypeOK /\ ScanInv /\ MarksInv /\ PageInv /\ PlayedInv /\ LosesAtMostOne
  BY DEF DemoInv
<1>3. /\ loop \in Nat /\ scanned \in Nat /\ scanned = Len(demo) /\ loop <= scanned
  BY <1>1, <1>2 DEF PageInv, MarksInv, DemoTypeOK
<1>4. ScanInv' /\ MarksInv'
  BY <1>1, FileKept
<1>5. DemoTypeOK'
  BY <1>1, <1>2, <1>3 DEF DemoTypeOK
<1>6. PageInv'
  <2>1. ASSUME NEW m PROVE Loaded(m)' = Loaded(m)
    BY <1>1 DEF Loaded
  <2>2. page.curmark \in 1 .. Len(marks) - 2 /\ page = Loaded(page.curmark)
    BY <1>1, <1>2 DEF PageInv
  <2>3. PICK c : c = page.curmark
    OBVIOUS
  <2>4. page'.curmark = c /\ page' = Loaded(c) /\ Loaded(c)' = Loaded(c)
    BY <1>1, <2>1, <2>2, <2>3
  <2>5. (page = Loaded(page.curmark))'
    BY <1>1, <2>2 DEF Loaded
  <2> QED
    BY <1>1, <2>2, <2>5 DEF PageInv
<1>7. loop >= scanned - 1
  <2>1. CASE loop >= scanned
    BY <1>3, <2>1
  <2>2. CASE loop < scanned
    <3>1. PageOf(loop) = NoPage
      BY <1>1, <2>2 DEF Serves
    <3>2. ~(\E m \in 1 .. Len(marks) - 2 : Covers(m, loop))
      BY <1>1, <1>2, <1>3, <3>1, PageOfFacts
    <3>3. ~(loop < scanned - 1)
      BY <1>1, <1>2, <1>3, <3>2, Covered
    <3> QED
      BY <1>3, <3>3
  <2> QED
    BY <1>3, <2>1, <2>2
<1>8. ~moved => Len(played) + 1 >= Len(demo)
  BY <1>1, <1>2, <1>3, <1>7 DEF PlayedInv
<1>9. PlayedInv' /\ LosesAtMostOne' /\ ReadsWithinPage'
  BY <1>1, <1>2, <1>8 DEF PlayedInv, LosesAtMostOne, ReadsWithinPage
<1> QED
  BY <1>4, <1>5, <1>6, <1>9 DEF DemoInv

LEMMA SetPosKeeps == \A i \in 0 .. scanned - 1 : DemoInv /\ SetPos(i) => DemoInv'
<1> SUFFICES ASSUME NEW i \in 0 .. scanned - 1, DemoInv, SetPos(i) PROVE DemoInv'
  OBVIOUS
<1>1. /\ phase = "play" /\ loop' = i /\ played' = <<>> /\ moved' = TRUE
      /\ UNCHANGED <<demo, phase, scanned, curmem, marks, page>>
  BY DEF SetPos
<1>2. DemoTypeOK /\ ScanInv /\ MarksInv /\ PageInv
  BY DEF DemoInv
<1>3. scanned \in Nat /\ scanned = Len(demo)
  BY <1>1, <1>2 DEF MarksInv, DemoTypeOK
<1>4. ScanInv' /\ MarksInv'
  BY <1>1, FileKept
<1>5. DemoTypeOK'
  BY <1>1, <1>2, <1>3 DEF DemoTypeOK
<1>6. PageInv'
  <2>1. page.curmark \in 1 .. Len(marks) - 2 /\ page = Loaded(page.curmark)
    BY <1>1, <1>2 DEF PageInv
  <2>2. (page = Loaded(page.curmark))'
    BY <1>1, <2>1 DEF Loaded
  <2>3. i \in 0 .. scanned
    BY <1>3
  <2> QED
    BY <1>1, <2>1, <2>2, <2>3 DEF PageInv
<1>7. PlayedInv' /\ LosesAtMostOne' /\ ReadsWithinPage'
  BY <1>1 DEF PlayedInv, LosesAtMostOne, ReadsWithinPage
<1> QED
  BY <1>4, <1>5, <1>6, <1>7 DEF DemoInv

-----------------------------------------------------------------------------
(* The theorems *)

\* The conjunction of the invariants above holds in every state: what the marks
\* of TSaveFile.Create are, which page GetMove keeps, and how far the playback
\* has come.
THEOREM DemoInvariant == DemoSpec => []DemoInv
<1>1. DemoInit => DemoInv
  BY InitHolds
<1>2. DemoInv /\ [DemoNext]_demoVars => DemoInv'
  <2> SUFFICES ASSUME DemoInv, [DemoNext]_demoVars PROVE DemoInv'
    OBVIOUS
  <2>1. CASE ScanMove
    BY <2>1, ScanMoveKeeps
  <2>2. CASE ScanEnd
    BY <2>2, ScanEndKeeps
  <2>3. CASE Start
    BY <2>3, StartKeeps
  <2>4. CASE SendMove
    BY <2>4, SendMoveKeeps
  <2>5. CASE NoMove
    BY <2>5, NoMoveKeeps
  <2>6. CASE \E i \in 0 .. scanned - 1 : SetPos(i)
    BY <2>6, SetPosKeeps
  <2>7. CASE UNCHANGED demoVars
    BY <2>7 DEF demoVars, DemoInv, DemoTypeOK, ScanInv, MarksInv, PageInv, PlayedInv,
                ReadsWithinPage, LosesAtMostOne, Loaded
  <2> QED
    BY <2>1, <2>2, <2>3, <2>4, <2>5, <2>6, <2>7 DEF DemoNext
<1> QED
  BY <1>1, <1>2, PTL DEF DemoSpec

\* The variables of the scan and of the playback keep their types for every file
\* and every page size.
THEOREM DemoTypeInvariant == DemoSpec => []DemoTypeOK
<1>1. DemoInv => DemoTypeOK
  BY DEF DemoInv
<1> QED
  BY <1>1, DemoInvariant, PTL

\* InitReplay never reads past the end of the file and GetMove never asks a page
\* for a move it does not hold, wherever the bar is dragged.
THEOREM ReadsWithinPageHolds == DemoSpec => []ReadsWithinPage
<1>1. DemoInv => ReadsWithinPage
  BY DEF DemoInv
<1> QED
  BY <1>1, DemoInvariant, PTL

\* Between two drags GetMove serves the moves in the order of the file without a
\* repetition, and a replay of the whole file misses one of them at the most.
THEOREM LosesAtMostOneHolds == DemoSpec => []LosesAtMostOne
<1>1. DemoInv => LosesAtMostOne
  BY DEF DemoInv
<1> QED
  BY <1>1, DemoInvariant, PTL

-----------------------------------------------------------------------------
(* The packets of a player *)

Parts == [kind : Kinds \cup {"base"}, serial : Nat]

-----------------------------------------------------------------------------
(* The recursive functions *)

\* The loop of unsmartpak goes over the parts one by one.
LEMMA UnSmartPakSteps ==
    ASSUME NEW packet \in Seq(Parts), NEW last, NEW others
    PROVE  \E read :
              /\ UnSmartPak(packet, last, others) = read[Len(packet)]
              /\ read[0] = [packnum |-> 0, last |-> last, out |-> <<>>]
              /\ \A k \in 1 .. Len(packet) :
                    read[k] = PutBack(read[k - 1], packet[k], others)
<1> DEFINE n == Len(packet)
           base == [packnum |-> 0, last |-> last, out |-> <<>>]
           Reads(g, m) == g = [k \in 0 .. m |-> IF k = 0 THEN base
                                                ELSE PutBack(g[k - 1], packet[k], others)]
           read[k \in 0 .. n] == IF k = 0 THEN base ELSE PutBack(read[k - 1], packet[k], others)
<1>1. n \in Nat
  OBVIOUS
<1>2. \E g : Reads(g, n)
  <2> DEFINE S == {m \in 0 .. n : \E g : Reads(g, m)}
  <2> HIDE DEF base
  <2>1. 0 \in S
    <3>1. Reads([k \in 0 .. 0 |-> base], 0)
      OBVIOUS
    <3> HIDE DEF Reads
    <3>2. QED
      BY <1>1, <3>1
  <2>2. ASSUME NEW m \in 0 .. n - 1, m \in S PROVE m + 1 \in S
    <3>1. PICK g : Reads(g, m)
      BY <2>2
    <3> DEFINE h == [k \in 0 .. m + 1 |-> IF k <= m THEN g[k]
                                          ELSE PutBack(g[m], packet[m + 1], others)]
    <3>2. \A k \in 0 .. m : h[k] = g[k]
      OBVIOUS
    <3>3. \A k \in 0 .. m + 1 :
             h[k] = IF k = 0 THEN base ELSE PutBack(h[k - 1], packet[k], others)
      <4> SUFFICES ASSUME NEW k \in 0 .. m + 1
                   PROVE h[k] = IF k = 0 THEN base ELSE PutBack(h[k - 1], packet[k], others)
        OBVIOUS
      <4>1. CASE k = m + 1
        <5>1. h[k] = PutBack(g[m], packet[k], others) /\ h[k - 1] = g[m]
          BY <4>1, <3>2
        <5>2. QED
          BY <4>1, <5>1
      <4>2. CASE k \in 0 .. m
        <5>1. g[k] = IF k = 0 THEN base ELSE PutBack(g[k - 1], packet[k], others)
          BY <3>1, <4>2
        <5>2. h[k] = g[k] /\ (k # 0 => h[k - 1] = g[k - 1])
          BY <4>2, <3>2
        <5>3. QED
          BY <5>1, <5>2
      <4>3. QED
        BY <4>1, <4>2
    <3>4. Reads(h, m + 1)
      <4>1. h = [k \in 0 .. m + 1 |-> h[k]]
        OBVIOUS
      <4> HIDE DEF h
      <4>2. QED
        BY <3>3, <4>1
    <3>5. m + 1 \in 0 .. n
      BY <1>1
    <3> HIDE DEF Reads
    <3>6. QED
      BY <3>4, <3>5
  <2> HIDE DEF Reads
  <2>3. n \in S
    <3> HIDE DEF S
    <3>1. \A m \in 0 .. n - 1 : m \in S => m + 1 \in S
      BY <2>2
    <3>2. 0 .. n \subseteq S
      BY <1>1, <2>1, <3>1, UpTo
    <3>3. QED
      BY <1>1, <3>2
  <2>4. QED
    BY <2>3
<1>3. Reads(read, n)
  BY <1>2
<1>4. UnSmartPak(packet, last, others) = read[n]
  BY DEF UnSmartPak
<1> HIDE DEF read
<1>5. \A k \in 0 .. n : read[k] = IF k = 0 THEN base ELSE PutBack(read[k - 1], packet[k], others)
  BY <1>3
<1>6. QED
  BY <1>1, <1>4, <1>5

\* What is kept of the first parts grows with them.
LEMMA KeptSteps ==
    ASSUME NEW packet \in Seq(Parts), NEW kinds
    PROVE  \E kept :
              /\ Kept(packet, kinds) = kept[Len(packet)]
              /\ kept[0] = <<>>
              /\ \A k \in 1 .. Len(packet) : kept[k] = Keep(kept[k - 1], packet[k], kinds)
<1> DEFINE n == Len(packet)
           base == <<>>
           Keeps(g, m) == g = [k \in 0 .. m |-> IF k = 0 THEN base
                                                ELSE Keep(g[k - 1], packet[k], kinds)]
           kept[k \in 0 .. n] == IF k = 0 THEN base ELSE Keep(kept[k - 1], packet[k], kinds)
<1>1. n \in Nat
  OBVIOUS
<1>2. \E g : Keeps(g, n)
  <2> DEFINE S == {m \in 0 .. n : \E g : Keeps(g, m)}
  <2> HIDE DEF base
  <2>1. 0 \in S
    <3>1. Keeps([k \in 0 .. 0 |-> base], 0)
      OBVIOUS
    <3> HIDE DEF Keeps
    <3>2. QED
      BY <1>1, <3>1
  <2>2. ASSUME NEW m \in 0 .. n - 1, m \in S PROVE m + 1 \in S
    <3>1. PICK g : Keeps(g, m)
      BY <2>2
    <3> DEFINE h == [k \in 0 .. m + 1 |-> IF k <= m THEN g[k]
                                          ELSE Keep(g[m], packet[m + 1], kinds)]
    <3>2. \A k \in 0 .. m : h[k] = g[k]
      OBVIOUS
    <3>3. \A k \in 0 .. m + 1 :
             h[k] = IF k = 0 THEN base ELSE Keep(h[k - 1], packet[k], kinds)
      <4> SUFFICES ASSUME NEW k \in 0 .. m + 1
                   PROVE h[k] = IF k = 0 THEN base ELSE Keep(h[k - 1], packet[k], kinds)
        OBVIOUS
      <4>1. CASE k = m + 1
        <5>1. h[k] = Keep(g[m], packet[k], kinds) /\ h[k - 1] = g[m]
          BY <4>1, <3>2
        <5>2. QED
          BY <4>1, <5>1
      <4>2. CASE k \in 0 .. m
        <5>1. g[k] = IF k = 0 THEN base ELSE Keep(g[k - 1], packet[k], kinds)
          BY <3>1, <4>2
        <5>2. h[k] = g[k] /\ (k # 0 => h[k - 1] = g[k - 1])
          BY <4>2, <3>2
        <5>3. QED
          BY <5>1, <5>2
      <4>3. QED
        BY <4>1, <4>2
    <3>4. Keeps(h, m + 1)
      <4>1. h = [k \in 0 .. m + 1 |-> h[k]]
        OBVIOUS
      <4> HIDE DEF h
      <4>2. QED
        BY <3>3, <4>1
    <3>5. m + 1 \in 0 .. n
      BY <1>1
    <3> HIDE DEF Keeps
    <3>6. QED
      BY <3>4, <3>5
  <2> HIDE DEF Keeps
  <2>3. n \in S
    <3> HIDE DEF S
    <3>1. \A m \in 0 .. n - 1 : m \in S => m + 1 \in S
      BY <2>2
    <3>2. 0 .. n \subseteq S
      BY <1>1, <2>1, <3>1, UpTo
    <3>3. QED
      BY <1>1, <3>2
  <2>4. QED
    BY <2>3
<1>3. Keeps(kept, n)
  BY <1>2
<1>4. Kept(packet, kinds) = kept[n]
  BY DEF Kept
<1> HIDE DEF kept
<1>5. \A k \in 0 .. n : kept[k] = IF k = 0 THEN base ELSE Keep(kept[k - 1], packet[k], kinds)
  BY <1>3
<1>6. QED
  BY <1>1, <1>4, <1>5

-----------------------------------------------------------------------------
(* Packets *)

\* The states are counted one by one.
LEMMA UnitsInSteps ==
    ASSUME NEW shape \in Seq(Kinds)
    PROVE  /\ UnitsIn(shape, 0) = 0
           /\ \A k \in 0 .. Len(shape) :
                 UnitsIn(shape, k) \in Nat /\ UnitsIn(shape, k) <= UnitsIn(shape, Len(shape))
           /\ \A k \in 1 .. Len(shape) :
                 UnitsIn(shape, k) =
                    UnitsIn(shape, k - 1) + (IF IsUnit(shape[k]) THEN 1 ELSE 0)
<1> DEFINE units(k) == {j \in 1 .. k : IsUnit(shape[j])}
<1>0. Len(shape) \in Nat
  OBVIOUS
<1>1. \A k \in 0 .. Len(shape) : IsFiniteSet(units(k))
  <2> SUFFICES ASSUME NEW k \in 0 .. Len(shape) PROVE IsFiniteSet(units(k))
    OBVIOUS
  <2>1. IsFiniteSet(1 .. k) /\ units(k) \subseteq 1 .. k
    BY FS_Interval
  <2> QED
    BY <2>1, FS_Subset
<1>2. \A k \in 0 .. Len(shape) : UnitsIn(shape, k) = Cardinality(units(k))
  BY DEF UnitsIn
<1>3. units(0) = {}
  OBVIOUS
<1>4. \A k \in 0 .. Len(shape) : units(k) \subseteq units(Len(shape))
  OBVIOUS
<1>5. \A k \in 1 .. Len(shape) :
         units(k) = IF IsUnit(shape[k]) THEN units(k - 1) \cup {k} ELSE units(k - 1)
  <2> SUFFICES ASSUME NEW k \in 1 .. Len(shape)
               PROVE units(k) = IF IsUnit(shape[k]) THEN units(k - 1) \cup {k} ELSE units(k - 1)
    OBVIOUS
  <2>1. \A j \in 1 .. k : j \in 1 .. k - 1 \/ j = k
    OBVIOUS
  <2> QED
    BY <2>1
<1>6. \A k \in 1 .. Len(shape) : k \notin units(k - 1)
  OBVIOUS
<1> HIDE DEF units
<1>7. UnitsIn(shape, 0) = 0
  <2>1. UnitsIn(shape, 0) = Cardinality(units(0))
    BY <1>0, <1>2
  <2> QED
    BY <1>3, <2>1, FS_EmptySet
<1>8. \A k \in 0 .. Len(shape) :
         UnitsIn(shape, k) \in Nat /\ UnitsIn(shape, k) <= UnitsIn(shape, Len(shape))
  BY <1>0, <1>1, <1>2, <1>4, FS_CardinalityType, FS_Subset
<1>9. ASSUME NEW k \in 1 .. Len(shape)
      PROVE  UnitsIn(shape, k) = UnitsIn(shape, k - 1) + (IF IsUnit(shape[k]) THEN 1 ELSE 0)
  <2>1. k \in 0 .. Len(shape) /\ k - 1 \in 0 .. Len(shape)
    OBVIOUS
  <2>2. IsFiniteSet(units(k - 1)) /\ Cardinality(units(k - 1)) \in Nat
    BY <1>1, <2>1, FS_CardinalityType
  <2>3. CASE IsUnit(shape[k])
    <3>1. Cardinality(units(k - 1) \cup {k}) = Cardinality(units(k - 1)) + 1
      BY <1>6, <2>2, FS_AddElement
    <3> QED
      BY <1>2, <1>5, <2>1, <2>3, <3>1
  <2>4. CASE ~IsUnit(shape[k])
    BY <1>2, <1>5, <2>1, <2>2, <2>4
  <2> QED
    BY <2>3, <2>4
<1> QED
  BY <1>7, <1>8, <1>9

\* A packet has the parts of its shape, its states the numbers from n on.
LEMMA NumberedFacts ==
    ASSUME NEW shape \in Seq(Kinds), NEW n \in Nat
    PROVE  /\ Numbered(shape, n) \in Seq(Parts)
           /\ Len(Numbered(shape, n)) = Len(shape)
           /\ \A k \in 1 .. Len(shape) :
                 Numbered(shape, n)[k] =
                    Part(shape[k], IF IsUnit(shape[k]) THEN n + UnitsIn(shape, k - 1)
                                   ELSE NoSerial)
<1> DEFINE serial(k) == IF IsUnit(shape[k]) THEN n + UnitsIn(shape, k - 1) ELSE NoSerial
<1>1. \A k \in 1 .. Len(shape) : serial(k) \in Nat
  BY UnitsInSteps DEF NoSerial
<1>2. \A k \in 1 .. Len(shape) : shape[k] \in Kinds
  OBVIOUS
<1>3. Numbered(shape, n) = [k \in 1 .. Len(shape) |-> Part(shape[k], serial(k))]
  BY DEF Numbered
<1> HIDE DEF serial
<1>4. \A k \in 1 .. Len(shape) : Part(shape[k], serial(k)) \in Parts
  BY <1>1, <1>2 DEF Part, Parts
<1>5. Numbered(shape, n) \in Seq(Parts) /\ Len(Numbered(shape, n)) = Len(shape)
  <2> DEFINE part == [k \in 1 .. Len(shape) |-> Part(shape[k], serial(k))]
  <2>1. part \in [1 .. Len(shape) -> Parts]
    BY <1>4
  <2> HIDE DEF part
  <2>2. part \in Seq(Parts) /\ Len(part) = Len(shape)
    BY <2>1
  <2> QED
    BY <1>3, <2>2 DEF part
<1> QED
  BY <1>3, <1>5 DEF serial

\* What SmartPak saves: every part without its serial, the first number before the
\* first of the states.
LEMMA SmartPakFacts ==
    ASSUME NEW shape \in Seq(Kinds), NEW n \in Nat
    PROVE  LET packet == Numbered(shape, n)
               saved == SmartPak(packet)
           IN  /\ saved \in Seq(Parts)
               /\ \/ /\ \A k \in 1 .. Len(shape) : ~IsUnit(shape[k]) /\ saved[k] = packet[k]
                     /\ Len(saved) = Len(shape)
                  \/ \E first \in 1 .. Len(shape) :
                        /\ IsUnit(shape[first]) /\ UnitsIn(shape, first - 1) = 0
                        /\ Len(saved) = Len(shape) + 1
                        /\ \A k \in 1 .. first - 1 : ~IsUnit(shape[k]) /\ saved[k] = packet[k]
                        /\ saved[first] = Part("base", n)
                        /\ \A k \in first .. Len(shape) : saved[k + 1] = Stripped(packet[k])
<1> DEFINE packet == Numbered(shape, n)
           units == {k \in DOMAIN packet : IsUnit(packet[k].kind)}
           strip == [k \in DOMAIN packet |-> Stripped(packet[k])]
<1>1. /\ packet \in Seq(Parts) /\ Len(packet) = Len(shape) /\ Len(shape) \in Nat
      /\ DOMAIN packet = 1 .. Len(shape)
      /\ \A k \in 1 .. Len(shape) : packet[k] \in Parts /\ packet[k].kind = shape[k]
  <2>1. /\ packet \in Seq(Parts) /\ Len(packet) = Len(shape)
        /\ \A k \in 1 .. Len(shape) : packet[k].kind = shape[k]
    <3>1. \A k \in 1 .. Len(shape) :
             packet[k] = Part(shape[k], IF IsUnit(shape[k]) THEN n + UnitsIn(shape, k - 1)
                                        ELSE NoSerial)
      BY NumberedFacts
    <3>2. packet \in Seq(Parts) /\ Len(packet) = Len(shape)
      BY NumberedFacts
    <3>3. \A kind, serial : Part(kind, serial).kind = kind
      BY DEF Part
    <3> HIDE DEF packet
    <3> QED
      BY <3>1, <3>2, <3>3
  <2> HIDE DEF packet
  <2> QED
    BY <2>1
<1>2. \A k \in 1 .. Len(shape) : k \in units <=> IsUnit(shape[k])
  BY <1>1
<1>3. \A k \in 1 .. Len(shape) : ~IsUnit(shape[k]) => Stripped(packet[k]) = packet[k]
  BY <1>1 DEF Stripped
<1>4. strip \in Seq(Parts) /\ Len(strip) = Len(shape)
      /\ \A k \in 1 .. Len(shape) : strip[k] = Stripped(packet[k])
  <2>1. \A k \in 1 .. Len(shape) : Stripped(packet[k]) \in Parts
    BY <1>1 DEF Stripped, Part, Parts, NoSerial
  <2>2. strip \in [1 .. Len(shape) -> Parts]
    BY <1>1, <2>1
  <2>3. \A k \in 1 .. Len(shape) : strip[k] = Stripped(packet[k])
    BY <1>1
  <2> HIDE DEF strip
  <2>4. strip \in Seq(Parts) /\ Len(strip) = Len(shape)
    BY <1>1, <2>2
  <2> QED
    BY <2>3, <2>4
<1>5. SmartPak(packet) = IF units = {} THEN strip
                         ELSE InsertAt(strip, Min(units), Part("base", packet[Min(units)].serial))
  BY DEF SmartPak
<1>6. CASE units = {}
  <2> HIDE DEF packet, units, strip
  <2> QED
    BY <1>1, <1>2, <1>3, <1>4, <1>5, <1>6 DEF packet
<1>7. CASE units # {}
  <2> DEFINE first == Min(units)
             base == Part("base", packet[first].serial)
  <2>1. first \in units /\ \A k \in units : first <= k
    <3>1. units \subseteq Nat
      BY <1>1
    <3>2. PICK x \in units : \A k \in units : x <= k
      BY <1>7, <3>1, LeastNumber
    <3> HIDE DEF units
    <3> QED
      BY <3>2 DEF Min
  <2>2. first \in 1 .. Len(shape) /\ IsUnit(shape[first])
    BY <1>1, <1>2, <2>1
  <2>3. \A k \in 1 .. first - 1 : ~IsUnit(shape[k])
    <3> HIDE DEF first, units, packet
    <3> QED
      BY <1>1, <1>2, <2>1, <2>2
  <2> HIDE DEF first
  <2>4. UnitsIn(shape, first - 1) = 0
    <3>1. {j \in 1 .. first - 1 : IsUnit(shape[j])} = {}
      BY <2>3
    <3> QED
      BY <3>1, FS_EmptySet DEF UnitsIn
  <2>5. base = Part("base", n) /\ base \in Parts
    <3>1. packet[first] = Part(shape[first], n + UnitsIn(shape, first - 1))
      BY <2>2, NumberedFacts
    <3>2. packet[first].serial = n
      BY <2>4, <3>1 DEF Part
    <3> QED
      BY <3>2 DEF Part, Parts
  <2> HIDE DEF packet, units, strip
  <2>6. SmartPak(packet) = SubSeq(strip, 1, first - 1) \o <<base>> \o SubSeq(strip, first, Len(strip))
    BY <1>5, <1>7 DEF InsertAt, first
  <2> HIDE DEF base
  <2> DEFINE front == SubSeq(strip, 1, first - 1)
             back == SubSeq(strip, first, Len(strip))
  <2>7. /\ front \in Seq(Parts) /\ Len(front) = first - 1
        /\ \A k \in 1 .. first - 1 : front[k] = strip[k]
    <3>1. first - 1 \in Int /\ \A k \in 1 .. first - 1 : strip[k] \in Parts
      BY <1>1, <1>4, <2>2
    <3>2. /\ front \in Seq(Parts) /\ Len(front) = IF 1 <= first - 1 THEN (first - 1) - 1 + 1 ELSE 0
          /\ \A k \in 1 .. (first - 1) - 1 + 1 : front[k] = strip[1 + k - 1]
      BY <3>1, SubSeqProperties
    <3> HIDE DEF front
    <3> QED
      BY <2>2, <3>2
  <2>8. /\ back \in Seq(Parts) /\ Len(back) = Len(shape) - first + 1
        /\ \A k \in 1 .. Len(shape) - first + 1 : back[k] = strip[first + k - 1]
    <3>1. first \in Int /\ Len(strip) \in Int /\ \A k \in first .. Len(strip) : strip[k] \in Parts
      BY <1>1, <1>4, <2>2
    <3>2. /\ back \in Seq(Parts)
          /\ Len(back) = IF first <= Len(strip) THEN Len(strip) - first + 1 ELSE 0
          /\ \A k \in 1 .. Len(strip) - first + 1 : back[k] = strip[first + k - 1]
      BY <3>1, SubSeqProperties
    <3> HIDE DEF back
    <3> QED
      BY <1>1, <1>4, <2>2, <3>2
  <2>9. <<base>> \in Seq(Parts) /\ Len(<<base>>) = 1 /\ <<base>>[1] = base
    BY <2>5
  <2> HIDE DEF front, back
  <2> DEFINE half == front \o <<base>>
  <2>10. /\ half \in Seq(Parts) /\ Len(half) = first
         /\ \A k \in 1 .. first - 1 : half[k] = front[k]
         /\ half[first] = base
    <3>1. /\ half \in Seq(Parts) /\ Len(half) = Len(front) + Len(<<base>>)
          /\ \A k \in 1 .. Len(front) + Len(<<base>>) :
                half[k] = IF k <= Len(front) THEN front[k] ELSE <<base>>[k - Len(front)]
      BY <2>7, <2>9, ConcatProperties
    <3> HIDE DEF half
    <3> QED
      BY <1>1, <2>2, <2>7, <2>9, <3>1
  <2> HIDE DEF half
  <2> DEFINE saved == half \o back
  <2>11. SmartPak(packet) = saved
    BY <2>6 DEF front, back, half
  <2>12. /\ saved \in Seq(Parts) /\ Len(saved) = Len(half) + Len(back)
         /\ \A k \in 1 .. Len(half) + Len(back) :
               saved[k] = IF k <= Len(half) THEN half[k] ELSE back[k - Len(half)]
    BY <2>8, <2>10, ConcatProperties
  <2> HIDE DEF saved
  <2>13. /\ Len(saved) = Len(shape) + 1
         /\ \A k \in 1 .. first : saved[k] = half[k]
         /\ \A k \in first .. Len(shape) : saved[k + 1] = back[k + 1 - first]
    <3>1. Len(half) = first /\ first \in 1 .. Len(shape) /\ Len(shape) \in Nat
          /\ Len(back) = Len(shape) - first + 1
      BY <1>1, <2>2, <2>8, <2>10
    <3>2. \A k \in first .. Len(shape) :
             k + 1 \in 1 .. Len(half) + Len(back) /\ ~(k + 1 <= Len(half))
      BY <3>1
    <3>3. \A k \in first .. Len(shape) : saved[k + 1] = back[k + 1 - first]
      BY <2>12, <3>1, <3>2
    <3>4. \A k \in 1 .. first : k \in 1 .. Len(half) + Len(back) /\ k <= Len(half)
      BY <3>1
    <3>5. \A k \in 1 .. first : saved[k] = half[k]
      BY <2>12, <3>4
    <3>6. Len(saved) = Len(shape) + 1
      BY <2>12, <3>1
    <3> QED
      BY <3>3, <3>5, <3>6
  <2>14. \A k \in 1 .. first - 1 : saved[k] = packet[k]
    <3> SUFFICES ASSUME NEW k \in 1 .. first - 1 PROVE saved[k] = packet[k]
      OBVIOUS
    <3>1. k \in 1 .. Len(shape) /\ k \in 1 .. first
      <4>1. Len(shape) \in Nat /\ first \in 1 .. Len(shape)
        BY <1>1, <2>2
      <4> QED
        BY <4>1
    <3>2. saved[k] = strip[k]
      BY <2>7, <2>10, <2>13, <3>1
    <3>3. strip[k] = packet[k]
      BY <1>3, <1>4, <2>3, <3>1
    <3> QED
      BY <3>2, <3>3
  <2>15. saved[first] = Part("base", n)
    BY <2>2, <2>5, <2>10, <2>13
  <2>16. ASSUME NEW k \in first .. Len(shape) PROVE saved[k + 1] = Stripped(packet[k])
    <3> DEFINE j == k + 1 - first
    <3>0. first \in Nat /\ first >= 1 /\ k \in Nat /\ first <= k /\ k <= Len(shape)
          /\ Len(shape) \in Nat
      <4>1. Len(shape) \in Nat /\ first \in 1 .. Len(shape)
        BY <1>1, <2>2
      <4> QED
        BY <4>1
    <3>1. j \in 1 .. Len(shape) - first + 1 /\ first + j - 1 = k /\ k \in 1 .. Len(shape)
      BY <3>0
    <3>2. saved[k + 1] = back[j]
      BY <2>13
    <3> HIDE DEF j
    <3>3. back[j] = strip[k]
      BY <2>8, <3>1
    <3> QED
      BY <1>4, <3>1, <3>2, <3>3
  <2> QED
    BY <2>2, <2>3, <2>4, <2>11, <2>12, <2>13, <2>14, <2>15, <2>16 DEF packet
<1> QED
  BY <1>6, <1>7

-----------------------------------------------------------------------------
(* What comes out of the file *)

Acc(packnum, last, out) == [packnum |-> packnum, last |-> last, out |-> out]

KindsSent(others) == IF others THEN Replayable ELSE UnitKinds

\* What one part does to what unsmartpak has so far.
LEMMA PutBackCases ==
    ASSUME NEW a, NEW b, NEW c, NEW others \in BOOLEAN, NEW m
    PROVE  /\ PutBack(Acc(a, b, c), Part("base", m), others) = Acc(m, m, c)
           /\ \A kind \in UnitKinds :
                 PutBack(Acc(a, b, c), Part(kind, NoSerial), others)
                    = Acc(a + 1, a + 1, Append(c, Part(kind, a)))
           /\ \A kind \in UnitKinds :
                 m # NoSerial => PutBack(Acc(a, b, c), Part(kind, m), others) = Acc(a, m, c)
           /\ PutBack(Acc(a, b, c), Part("dropped", m), others) = Acc(a, b, c)
           /\ PutBack(Acc(a, b, c), Part("event", m), others)
                 = Acc(a, b, IF others THEN Append(c, Part("event", m)) ELSE c)
<1>1. PutBack(Acc(a, b, c), Part("base", m), others) = Acc(m, m, c)
  BY DEF PutBack, Acc, Part, IsUnit, UnitKinds
<1>2. ASSUME NEW kind \in UnitKinds
      PROVE  PutBack(Acc(a, b, c), Part(kind, NoSerial), others)
                = Acc(a + 1, a + 1, Append(c, Part(kind, a)))
  BY DEF PutBack, Acc, Part, IsUnit, UnitKinds
<1>3. ASSUME NEW kind \in UnitKinds, m # NoSerial
      PROVE  PutBack(Acc(a, b, c), Part(kind, m), others) = Acc(a, m, c)
  BY <1>3 DEF PutBack, Acc, Part, IsUnit, UnitKinds
<1>4. PutBack(Acc(a, b, c), Part("dropped", m), others) = Acc(a, b, c)
  BY DEF PutBack, Acc, Part, IsUnit, UnitKinds
<1>5. PutBack(Acc(a, b, c), Part("event", m), others)
         = Acc(a, b, IF others THEN Append(c, Part("event", m)) ELSE c)
  BY DEF PutBack, Acc, Part, IsUnit, UnitKinds
<1> QED
  BY <1>1, <1>2, <1>3, <1>4, <1>5

\* A part that is no state is sent, or not, as it is.
LEMMA OtherPart ==
    ASSUME NEW a, NEW b, NEW c, NEW others \in BOOLEAN, NEW kind \in Kinds, ~IsUnit(kind), NEW m
    PROVE  PutBack(Acc(a, b, c), Part(kind, m), others)
              = Acc(a, b, Keep(c, Part(kind, m), KindsSent(others)))
<1>1. kind = "event" \/ kind = "dropped"
  BY DEF Kinds, Replayable, IsUnit
<1>2. CASE kind = "event"
  <2> DEFINE out == IF others THEN Append(c, Part("event", m)) ELSE c
  <2>1. Keep(c, Part("event", m), KindsSent(others)) = out
    BY DEF Keep, Part, KindsSent, Replayable, UnitKinds
  <2>2. PutBack(Acc(a, b, c), Part("event", m), others) = Acc(a, b, out)
    BY PutBackCases
  <2> QED
    BY <1>2, <2>1, <2>2
<1>3. CASE kind = "dropped"
  <2>1. Keep(c, Part(kind, m), KindsSent(others)) = c
    BY <1>3 DEF Keep, Part, KindsSent, Replayable, UnitKinds
  <2> QED
    BY <1>3, <2>1, PutBackCases
<1> QED
  BY <1>1, <1>2, <1>3

\* A state gets the number it had.
LEMMA UnitPart ==
    ASSUME NEW a, NEW b, NEW c, NEW others \in BOOLEAN, NEW kind \in Kinds, IsUnit(kind)
    PROVE  PutBack(Acc(a, b, c), Stripped(Part(kind, a)), others)
              = Acc(a + 1, a + 1, Keep(c, Part(kind, a), KindsSent(others)))
<1>1. kind \in UnitKinds
  BY DEF IsUnit
<1>2. Keep(c, Part(kind, a), KindsSent(others)) = Append(c, Part(kind, a))
  BY <1>1 DEF Keep, Part, KindsSent, Replayable
<1>3. Stripped(Part(kind, a)) = Part(kind, NoSerial)
  BY DEF Stripped, Part
<1> QED
  BY <1>1, <1>2, <1>3, PutBackCases

\* A packet comes out of the file as it went in, its states under the numbers they had.
LEMMA Unpacked ==
    ASSUME NEW shape \in Seq(Kinds), NEW n \in Nat, NEW last, NEW others \in BOOLEAN
    PROVE  LET packet == Numbered(shape, n)
               units  == UnitsIn(shape, Len(shape))
               done   == UnSmartPak(SmartPak(packet), last, others)
           IN  /\ done.out = Kept(packet, KindsSent(others))
               /\ done.last = IF units = 0 THEN last ELSE n + units
<1> DEFINE packet == Numbered(shape, n)
           saved  == SmartPak(packet)
           u(k)   == UnitsIn(shape, k)
           serial(k) == IF IsUnit(shape[k]) THEN n + u(k - 1) ELSE NoSerial
           done   == UnSmartPak(saved, last, others)
<1>1. /\ packet \in Seq(Parts) /\ Len(packet) = Len(shape) /\ Len(shape) \in Nat
      /\ \A k \in 1 .. Len(shape) : packet[k] = Part(shape[k], serial(k)) /\ shape[k] \in Kinds
  <2>1. \A k \in 1 .. Len(shape) : packet[k] = Part(shape[k], serial(k))
    BY NumberedFacts
  <2>2. packet \in Seq(Parts) /\ Len(packet) = Len(shape)
    BY NumberedFacts
  <2>3. Len(shape) \in Nat /\ \A k \in 1 .. Len(shape) : shape[k] \in Kinds
    OBVIOUS
  <2> QED
    BY <2>1, <2>2, <2>3
<1>2. /\ saved \in Seq(Parts)
      /\ \/ /\ \A k \in 1 .. Len(shape) : ~IsUnit(shape[k]) /\ saved[k] = packet[k]
            /\ Len(saved) = Len(shape)
         \/ \E first \in 1 .. Len(shape) :
               /\ IsUnit(shape[first]) /\ u(first - 1) = 0
               /\ Len(saved) = Len(shape) + 1
               /\ \A k \in 1 .. first - 1 : ~IsUnit(shape[k]) /\ saved[k] = packet[k]
               /\ saved[first] = Part("base", n)
               /\ \A k \in first .. Len(shape) : saved[k + 1] = Stripped(packet[k])
  BY SmartPakFacts
<1> HIDE DEF packet, saved
<1>3. PICK kept : /\ Kept(packet, KindsSent(others)) = kept[Len(shape)]
                  /\ kept[0] = <<>>
                  /\ \A k \in 1 .. Len(shape) :
                        kept[k] = Keep(kept[k - 1], packet[k], KindsSent(others))
  <2>1. packet \in Seq(Parts)
    BY <1>1
  <2>2. \E kept : /\ Kept(packet, KindsSent(others)) = kept[Len(packet)]
                  /\ kept[0] = <<>>
                  /\ \A k \in 1 .. Len(packet) :
                        kept[k] = Keep(kept[k - 1], packet[k], KindsSent(others))
    BY <2>1, KeptSteps
  <2> QED
    BY <1>1, <2>2
<1>4. PICK read : /\ done = read[Len(saved)]
                  /\ read[0] = Acc(0, last, <<>>)
                  /\ \A k \in 1 .. Len(saved) : read[k] = PutBack(read[k - 1], saved[k], others)
  BY <1>2, UnSmartPakSteps DEF Acc
<1>5. /\ u(0) = 0 /\ \A k \in 0 .. Len(shape) : u(k) \in Nat /\ u(k) <= u(Len(shape))
      /\ \A k \in 1 .. Len(shape) : u(k) = u(k - 1) + (IF IsUnit(shape[k]) THEN 1 ELSE 0)
  BY UnitsInSteps
<1> HIDE DEF u
\* Up to the first state nothing is counted.
<1>6. ASSUME NEW m \in 0 .. Len(shape), m <= Len(saved),
             \A k \in 1 .. m : ~IsUnit(shape[k]) /\ saved[k] = packet[k]
      PROVE  read[m] = Acc(0, last, kept[m])
  <2> DEFINE S == {k \in 0 .. m : read[k] = Acc(0, last, kept[k])}
  <2>1. 0 \in S
    BY <1>3, <1>4, <1>6
  <2>2. ASSUME NEW k \in 0 .. m - 1, k \in S PROVE k + 1 \in S
    <3>1. k + 1 \in 1 .. Len(shape) /\ k + 1 \in 1 .. Len(saved) /\ (k + 1) - 1 = k
          /\ k + 1 \in 1 .. m
      BY <1>1, <1>2, <1>6
    <3>2. read[k + 1] = PutBack(Acc(0, last, kept[k]), packet[k + 1], others)
      BY <1>4, <1>6, <2>2, <3>1
    <3>3. kept[k + 1] = Keep(kept[k], packet[k + 1], KindsSent(others))
      BY <1>3, <3>1
    <3>4. packet[k + 1] = Part(shape[k + 1], serial(k + 1)) /\ shape[k + 1] \in Kinds
          /\ ~IsUnit(shape[k + 1])
      BY <1>1, <1>6, <3>1
    <3> HIDE DEF serial
    <3>5. read[k + 1] = Acc(0, last, kept[k + 1])
      BY <3>2, <3>3, <3>4, OtherPart
    <3> QED
      BY <3>1, <3>5
  <2> HIDE DEF S
  <2>3. 0 .. m \subseteq S
    BY <2>1, <2>2, UpTo
  <2> QED
    BY <2>3 DEF S
<1>7. CASE /\ \A k \in 1 .. Len(shape) : ~IsUnit(shape[k]) /\ saved[k] = packet[k]
           /\ Len(saved) = Len(shape)
  <2>1. done = Acc(0, last, kept[Len(shape)])
    BY <1>1, <1>4, <1>6, <1>7
  <2>2. u(Len(shape)) = 0
    <3>1. {j \in 1 .. Len(shape) : IsUnit(shape[j])} = {}
      BY <1>7
    <3> QED
      BY <3>1, FS_EmptySet DEF u, UnitsIn
  <2> QED
    BY <1>3, <2>1, <2>2 DEF Acc, packet, saved, u
<1>8. CASE \E first \in 1 .. Len(shape) :
               /\ IsUnit(shape[first]) /\ u(first - 1) = 0
               /\ Len(saved) = Len(shape) + 1
               /\ \A k \in 1 .. first - 1 : ~IsUnit(shape[k]) /\ saved[k] = packet[k]
               /\ saved[first] = Part("base", n)
               /\ \A k \in first .. Len(shape) : saved[k + 1] = Stripped(packet[k])
  <2>1. PICK first \in 1 .. Len(shape) :
               /\ IsUnit(shape[first]) /\ u(first - 1) = 0
               /\ Len(saved) = Len(shape) + 1
               /\ \A k \in 1 .. first - 1 : ~IsUnit(shape[k]) /\ saved[k] = packet[k]
               /\ saved[first] = Part("base", n)
               /\ \A k \in first .. Len(shape) : saved[k + 1] = Stripped(packet[k])
    BY <1>8
  <2>2. read[first - 1] = Acc(0, last, kept[first - 1])
    <3>1. first - 1 \in 0 .. Len(shape) /\ first - 1 <= Len(saved)
      BY <1>1, <2>1
    <3> QED
      BY <1>6, <2>1, <3>1
  <2>3. read[first] = Acc(n, n, kept[first - 1])
    <3>1. read[first] = PutBack(read[first - 1], saved[first], others)
      BY <1>1, <1>4, <2>1
    <3> QED
      BY <2>1, <2>2, <3>1, PutBackCases
  <2> DEFINE left == Len(shape) + 1 - first
             at(j) == first - 1 + j
             S == {j \in 0 .. left :
                     read[first + j] = Acc(n + u(at(j)), n + u(at(j)), kept[at(j)])}
  <2>4. left \in Nat
    BY <1>1
  <2>5. 0 \in S
    <3>1. at(0) = first - 1 /\ first + 0 = first /\ n + 0 = n
      OBVIOUS
    <3>2. read[first + 0] = Acc(n + u(at(0)), n + u(at(0)), kept[at(0)])
      BY <2>1, <2>3, <3>1
    <3> QED
      BY <2>4, <3>2
  <2>6. ASSUME NEW j \in 0 .. left - 1, j \in S PROVE j + 1 \in S
    <3> DEFINE k == first + j
    <3>1. /\ k \in first .. Len(shape) /\ k + 1 \in 1 .. Len(shape) + 1 /\ (k + 1) - 1 = k
          /\ k \in 1 .. Len(shape) /\ at(j) = k - 1 /\ at(j + 1) = k /\ first + (j + 1) = k + 1
      BY <1>1
    <3>2. read[k] = Acc(n + u(k - 1), n + u(k - 1), kept[k - 1])
      BY <2>6, <3>1
    <3> HIDE DEF k
    <3>3. read[k + 1] = PutBack(read[k], Stripped(packet[k]), others)
      BY <1>4, <2>1, <3>1
    <3>4. kept[k] = Keep(kept[k - 1], packet[k], KindsSent(others))
      BY <1>3, <3>1
    <3>5. packet[k] = Part(shape[k], serial(k)) /\ shape[k] \in Kinds
      BY <1>1, <3>1
    <3>6. u(k - 1) \in Nat /\ u(k) = u(k - 1) + (IF IsUnit(shape[k]) THEN 1 ELSE 0)
      BY <1>1, <1>5, <3>1
    <3>7. CASE IsUnit(shape[k])
      <4>1. packet[k] = Part(shape[k], n + u(k - 1))
        BY <3>5, <3>7 DEF u
      <4>2. read[k + 1] = Acc(n + u(k - 1) + 1, n + u(k - 1) + 1, kept[k])
        BY <3>2, <3>3, <3>4, <3>5, <3>7, <4>1, UnitPart
      <4>3. n + u(k - 1) + 1 = n + u(k)
        BY <3>6, <3>7
      <4> QED
        BY <4>2, <4>3, <3>1
    <3>8. CASE ~IsUnit(shape[k])
      <4>1. Stripped(packet[k]) = packet[k]
        BY <3>5, <3>8 DEF Stripped, Part
      <4> HIDE DEF serial
      <4>2. read[k + 1] = Acc(n + u(k - 1), n + u(k - 1), kept[k])
        BY <3>2, <3>3, <3>4, <3>5, <3>8, <4>1, OtherPart
      <4>3. n + u(k - 1) = n + u(k)
        BY <3>6, <3>8
      <4> QED
        BY <4>2, <4>3, <3>1
    <3> QED
      BY <3>7, <3>8
  <2> HIDE DEF S, at
  <2>7. left \in S
    <3>1. \A j \in 0 .. left - 1 : j \in S => j + 1 \in S
      BY <2>6
    <3> HIDE DEF left
    <3>2. left \in Nat /\ 0 \in S
      BY <2>4, <2>5
    <3>3. 0 .. left \subseteq S
      BY <3>1, <3>2, UpTo, Zenon
    <3> QED
      BY <3>2, <3>3
  <2>8. done = Acc(n + u(Len(shape)), n + u(Len(shape)), kept[Len(shape)])
    <3>1. first + left = Len(saved) /\ at(left) = Len(shape)
      <4>1. Len(saved) = Len(shape) + 1 /\ Len(shape) \in Nat
        BY <1>1, <2>1
      <4> QED
        BY <4>1 DEF at
    <3> HIDE DEF left
    <3> QED
      BY <1>4, <2>7, <3>1 DEF S
  <2>9. u(Len(shape)) # 0
    <3>1. u(first) = u(first - 1) + 1 /\ first \in 0 .. Len(shape)
      BY <1>1, <1>5, <2>1
    <3>2. u(first) = 1 /\ u(first) <= u(Len(shape)) /\ u(Len(shape)) \in Nat
      BY <1>1, <1>5, <2>1, <3>1
    <3> QED
      BY <3>2
  <2> QED
    BY <1>3, <2>8, <2>9 DEF Acc, packet, saved, u
<1> QED
  BY <1>2, <1>7, <1>8

\* Of a packet, what is kept are parts of the kinds asked for; its states, when they are
\* kept, have the numbers from n on, and none is missing.
KeptWhole(out, kinds, n, units) ==
    /\ units \in Nat /\ out \in Seq(Parts)
    /\ \A j \in DOMAIN out :
          /\ out[j].kind \in kinds
          /\ IsUnit(out[j].kind) => out[j].serial \in n .. n + units - 1
    /\ \A v \in n .. n + units - 1 :
          \E j \in DOMAIN out : IsUnit(out[j].kind) /\ out[j].serial = v

LEMMA KeptFacts ==
    ASSUME NEW shape \in Seq(Kinds), NEW n \in Nat, NEW kinds, UnitKinds \subseteq kinds
    PROVE  KeptWhole(Kept(Numbered(shape, n), kinds), kinds, n, UnitsIn(shape, Len(shape)))
<1> DEFINE packet == Numbered(shape, n)
           u(k)   == UnitsIn(shape, k)
           units  == u(Len(shape))
           serial(k) == IF IsUnit(shape[k]) THEN n + u(k - 1) ELSE NoSerial
           Whole(q, m) ==
              /\ q \in Seq(Parts)
              /\ \A j \in DOMAIN q : /\ q[j].kind \in kinds
                                     /\ IsUnit(q[j].kind) => q[j].serial \in n .. n + units - 1
              /\ \A v \in n .. n + m - 1 :
                    \E j \in DOMAIN q : IsUnit(q[j].kind) /\ q[j].serial = v
<1>1. /\ packet \in Seq(Parts) /\ Len(packet) = Len(shape) /\ Len(shape) \in Nat
      /\ \A k \in 1 .. Len(shape) :
            packet[k] = Part(shape[k], serial(k)) /\ packet[k] \in Parts
  <2>1. \A k \in 1 .. Len(shape) : packet[k] = Part(shape[k], serial(k))
    BY NumberedFacts
  <2>2. packet \in Seq(Parts) /\ Len(packet) = Len(shape)
    BY NumberedFacts
  <2> HIDE DEF packet, serial
  <2> QED
    BY <2>1, <2>2
<1> HIDE DEF packet
<1>2. PICK kept : /\ Kept(packet, kinds) = kept[Len(shape)]
                  /\ kept[0] = <<>>
                  /\ \A k \in 1 .. Len(shape) : kept[k] = Keep(kept[k - 1], packet[k], kinds)
  <2>1. packet \in Seq(Parts)
    BY <1>1
  <2>2. \E kept : /\ Kept(packet, kinds) = kept[Len(packet)]
                  /\ kept[0] = <<>>
                  /\ \A k \in 1 .. Len(packet) :
                        kept[k] = Keep(kept[k - 1], packet[k], kinds)
    BY <2>1, KeptSteps
  <2> QED
    BY <1>1, <2>2
<1>3. /\ u(0) = 0 /\ \A k \in 0 .. Len(shape) : u(k) \in Nat /\ u(k) <= units
      /\ \A k \in 1 .. Len(shape) : u(k) = u(k - 1) + (IF IsUnit(shape[k]) THEN 1 ELSE 0)
      /\ units \in Nat
  BY <1>1, UnitsInSteps
<1> HIDE DEF u
<1> DEFINE S == {k \in 0 .. Len(shape) : Whole(kept[k], u(k))}
<1>4. 0 \in S
  <2>1. <<>> \in Seq(Parts) /\ DOMAIN <<>> = {}
    OBVIOUS
  <2>2. Whole(<<>>, 0)
    BY <2>1
  <2> HIDE DEF Whole
  <2> QED
    BY <1>1, <1>2, <1>3, <2>2
<1>5. ASSUME NEW k \in 0 .. Len(shape) - 1, k \in S PROVE k + 1 \in S
  <2> DEFINE q == kept[k]
             p == packet[k + 1]
  <2>1. /\ k + 1 \in 1 .. Len(shape) /\ k + 1 \in 0 .. Len(shape) /\ k \in 0 .. Len(shape)
        /\ (k + 1) - 1 = k
    BY <1>1
  <2>2. Whole(q, u(k))
    BY <1>5
  <2>3. /\ kept[k + 1] = Keep(q, p, kinds) /\ p \in Parts
        /\ p.kind = shape[k + 1]
        /\ IsUnit(p.kind) => p.serial = n + u(k)
    <3>1. kept[k + 1] = Keep(q, p, kinds) /\ p = Part(shape[k + 1], serial(k + 1)) /\ p \in Parts
      BY <1>1, <1>2, <2>1
    <3>2. IsUnit(shape[k + 1]) => serial(k + 1) = n + u(k)
      BY <2>1
    <3> HIDE DEF serial, p
    <3>3. p.kind = shape[k + 1] /\ p.serial = serial(k + 1)
      BY <3>1 DEF Part
    <3> QED
      BY <3>1, <3>2, <3>3
  <2>4. /\ u(k) \in Nat /\ u(k + 1) <= units /\ units \in Nat
        /\ u(k + 1) = u(k) + (IF IsUnit(p.kind) THEN 1 ELSE 0)
    BY <1>3, <2>1, <2>3
  <2> HIDE DEF q, p
  <2>5. q \in Seq(Parts) /\ Len(q) \in Nat /\ DOMAIN q = 1 .. Len(q)
    BY <2>2
  <2>6. CASE p.kind \in kinds
    <3>1. kept[k + 1] = Append(q, p)
      BY <2>3, <2>6 DEF Keep
    <3> DEFINE r == Append(q, p)
    <3>2. /\ r \in Seq(Parts) /\ DOMAIN r = 1 .. Len(q) + 1
          /\ \A j \in 1 .. Len(q) : r[j] = q[j]
          /\ r[Len(q) + 1] = p
      BY <2>3, <2>5
    <3> HIDE DEF r
    <3>3. ASSUME NEW j \in DOMAIN r
          PROVE  r[j].kind \in kinds /\ (IsUnit(r[j].kind) => r[j].serial \in n .. n + units - 1)
      <4>1. CASE j \in 1 .. Len(q)
        BY <2>2, <2>5, <3>2, <4>1
      <4>2. CASE j = Len(q) + 1
        <5>1. IsUnit(p.kind) => p.serial \in n .. n + units - 1
          BY <2>3, <2>4
        <5> QED
          BY <2>6, <3>2, <4>2, <5>1
      <4> QED
        BY <2>5, <3>2, <4>1, <4>2
    <3>4. ASSUME NEW v \in n .. n + u(k + 1) - 1
          PROVE  \E j \in DOMAIN r : IsUnit(r[j].kind) /\ r[j].serial = v
      <4>1. CASE v \in n .. n + u(k) - 1
        <5>1. PICK j \in DOMAIN q : IsUnit(q[j].kind) /\ q[j].serial = v
          BY <2>2, <4>1
        <5>2. j \in DOMAIN r /\ r[j] = q[j]
          BY <2>5, <3>2
        <5> QED
          BY <5>1, <5>2
      <4>2. CASE v \notin n .. n + u(k) - 1
        <5>1. IsUnit(p.kind) /\ p.serial = v
          BY <2>3, <2>4, <4>2
        <5>2. Len(q) + 1 \in DOMAIN r
          BY <2>5, <3>2
        <5> QED
          BY <3>2, <5>1, <5>2
      <4> QED
        BY <4>1, <4>2
    <3>5. Whole(r, u(k + 1))
      BY <3>2, <3>3, <3>4
    <3> HIDE DEF Whole
    <3> QED
      BY <2>1, <3>1, <3>5 DEF r
  <2>7. CASE p.kind \notin kinds
    <3>1. kept[k + 1] = q
      BY <2>3, <2>7 DEF Keep
    <3>2. u(k + 1) = u(k)
      BY <2>4, <2>7 DEF IsUnit
    <3> HIDE DEF Whole
    <3> QED
      BY <2>1, <2>2, <3>1, <3>2
  <2> QED
    BY <2>6, <2>7
<1> HIDE DEF Whole, S
<1>6. 0 .. Len(shape) \subseteq S
  BY <1>1, <1>4, <1>5, UpTo
<1>7. Whole(Kept(packet, kinds), units)
  BY <1>1, <1>2, <1>6 DEF S
<1> QED
  BY <1>3, <1>7 DEF KeptWhole, Whole, packet, u

\* A packet of states with their numbers is a packet of nothing when it is unpacked.
LEMMA UnpackedAgain ==
    ASSUME NEW packet \in Seq(Parts), NEW others \in BOOLEAN,
           NEW e \in Nat, NEW last \in 0 .. e,
           \A j \in DOMAIN packet : /\ packet[j].kind \in UnitKinds
                                    /\ packet[j].serial \in 1 .. e
    PROVE  \E b \in 0 .. e : UnSmartPak(packet, last, others) = Acc(0, b, <<>>)
<1>1. PICK read : /\ UnSmartPak(packet, last, others) = read[Len(packet)]
                  /\ read[0] = Acc(0, last, <<>>)
                  /\ \A k \in 1 .. Len(packet) : read[k] = PutBack(read[k - 1], packet[k], others)
  <2>1. Acc(0, last, <<>>) = [packnum |-> 0, last |-> last, out |-> <<>>]
    BY DEF Acc
  <2>2. \E read : /\ UnSmartPak(packet, last, others) = read[Len(packet)]
                  /\ read[0] = [packnum |-> 0, last |-> last, out |-> <<>>]
                  /\ \A k \in 1 .. Len(packet) :
                        read[k] = PutBack(read[k - 1], packet[k], others)
    BY ONLY packet \in Seq(Parts), UnSmartPakSteps
  <2> QED
    BY <2>1, <2>2
<1>2. Len(packet) \in Nat /\ DOMAIN packet = 1 .. Len(packet)
      /\ \A k \in 1 .. Len(packet) : packet[k] \in Parts
  OBVIOUS
<1> DEFINE S == {k \in 0 .. Len(packet) : \E b \in 0 .. e : read[k] = Acc(0, b, <<>>)}
<1>3. 0 \in S
  BY <1>1, <1>2
<1>4. ASSUME NEW k \in 0 .. Len(packet) - 1, k \in S PROVE k + 1 \in S
  <2>1. PICK b \in 0 .. e : read[k] = Acc(0, b, <<>>)
    BY <1>4
  <2> DEFINE p == packet[k + 1]
  <2>2. /\ k + 1 \in 1 .. Len(packet) /\ k + 1 \in 0 .. Len(packet)
        /\ read[k + 1] = PutBack(Acc(0, b, <<>>), p, others)
    BY <1>1, <1>2, <2>1
  <2>3. p \in Parts /\ p.kind \in UnitKinds /\ p.serial \in 1 .. e
    BY <1>2, <2>2
  <2> HIDE DEF p
  <2>4. p = Part(p.kind, p.serial) /\ p.serial # NoSerial
    BY <2>3 DEF Part, Parts, NoSerial
  <2>5. PutBack(Acc(0, b, <<>>), Part(p.kind, p.serial), others) = Acc(0, p.serial, <<>>)
    BY <2>3, <2>4, PutBackCases
  <2>6. read[k + 1] = Acc(0, p.serial, <<>>) /\ p.serial \in 0 .. e
    BY <2>2, <2>3, <2>4, <2>5
  <2> QED
    BY <2>2, <2>6
<1> HIDE DEF S
<1>5. 0 .. Len(packet) \subseteq S
  BY <1>2, <1>3, <1>4, UpTo
<1> QED
  BY <1>1, <1>2, <1>5 DEF S

-----------------------------------------------------------------------------
(* The invariant *)

DroneType == [last : Nat, complete : Nat, recent : BOOLEAN]
DragType == [moved : BOOLEAN, blind : BOOLEAN, serials : SUBSET Nat]

\* Packet k is recorded as SmartPak leaves it, its states numbered from from[k] on.
RecordedAs(from, k, shape) ==
    /\ original[k] = Numbered(shape, from[k])
    /\ recording[k] = SmartPak(original[k])
    /\ from[k + 1] = from[k] + UnitsIn(shape, Len(shape))

RecordedBy(from) ==
    /\ from \in [Nat -> Nat \ {0}]
    /\ engineSerial = from[Len(original) + 1]
    /\ \A k \in 1 .. Len(original) : \E shape \in Shapes : RecordedAs(from, k, shape)

\* From the packet after the first one on, everything has been sent again; events are held
\* back until that is a round of the units.
SyncedBy(from) ==
    sinceDrag.moved /\ ~sinceDrag.blind /\ ~dronePos.recent =>
        /\ dronePos.last <= from[upNext]
        /\ \E first \in Nat :
              /\ dronePos.complete = first + MaxUnits
              /\ first .. from[upNext] - 1 \subseteq sinceDrag.serials

\* Nothing is held back before the bar is dragged.
ReplayInv ==
    /\ original \in Seq(Seq(Parts)) /\ recording \in Seq(Seq(Parts))
    /\ Len(recording) = Len(original) /\ Len(original) <= MaxPackets
    /\ upNext \in 0 .. Len(original) + 1
    /\ dronePos \in DroneType /\ sinceDrag \in DragType
    /\ upNext = 0 => ~sinceDrag.moved
    /\ ~sinceDrag.moved => dronePos.complete = 0 /\ ~dronePos.recent
    /\ \A k \in DOMAIN rebuilt : rebuilt[k].kind \in Replayable

PacketsInv ==
    /\ ReplayInv /\ RebuildsPacket /\ EventsAfterResync
    /\ \E from : RecordedBy(from) /\ SyncedBy(from)

LEMMA InitPackets == PacketsInit => PacketsInv
<1> SUFFICES ASSUME PacketsInit PROVE PacketsInv
  OBVIOUS
<1>1. ReplayInv
  <2>1. <<>> \in Seq(Seq(Parts)) /\ Len(<<>>) = 0
    OBVIOUS
  <2> QED
    BY <2>1, PacketsAssumption DEF PacketsInit, ReplayInv, DroneType, DragType, NotMoved
<1>2. RebuildsPacket /\ EventsAfterResync
  BY DEF PacketsInit, RebuildsPacket, EventsAfterResync, NotMoved
<1>3. \E from : RecordedBy(from) /\ SyncedBy(from)
  <2> DEFINE from == [k \in Nat |-> 1]
  <2>1. from \in [Nat -> Nat \ {0}] /\ Len(original) = 0 /\ from[0 + 1] = 1
    BY DEF PacketsInit
  <2> HIDE DEF from
  <2>2. RecordedBy(from)
    BY <2>1 DEF PacketsInit, RecordedBy
  <2>3. SyncedBy(from)
    BY DEF PacketsInit, SyncedBy, NotMoved
  <2> QED
    BY <2>2, <2>3
<1> QED
  BY <1>1, <1>2, <1>3 DEF PacketsInv

LEMMA PacketAt ==
    ASSUME ReplayInv, NEW from, RecordedBy(from), NEW k \in DOMAIN recording
    PROVE  \E shape \in Seq(Kinds) :
              RecordedAs(from, k, shape) /\ k \in 1 .. Len(original)
                 /\ from[k] \in Nat \ {0} /\ from[k + 1] \in Nat \ {0}
<1>1. k \in 1 .. Len(original)
  BY DEF ReplayInv
<1>2. PICK shape \in Shapes : RecordedAs(from, k, shape)
  BY <1>1 DEF RecordedBy
<1>3. shape \in Seq(Kinds)
  BY PacketsAssumption
<1>4. k \in Nat /\ k + 1 \in Nat
  BY <1>1
<1>5. from \in [Nat -> Nat \ {0}]
  BY DEF RecordedBy
<1>6. from[k] \in Nat \ {0} /\ from[k + 1] \in Nat \ {0}
  BY <1>4, <1>5
<1> QED
  BY <1>1, <1>2, <1>3, <1>6

\* A packet on its way as usual.
LEMMA SentAsUsual ==
    ASSUME ReplayInv, NEW from, RecordedBy(from), Replay, ~dronePos.recent
    PROVE  LET others == dronePos.last >= dronePos.complete
           IN  /\ rebuilt' = Kept(original[upNext], KindsSent(others))
               /\ \A j \in DOMAIN rebuilt' : rebuilt'[j].kind \in KindsSent(others)
               /\ dronePos' \in DroneType
               /\ dronePos'.last = dronePos.last \/ dronePos'.last = from[upNext + 1]
               /\ dronePos'.complete = dronePos.complete /\ ~dronePos'.recent
               /\ sinceDrag' \in DragType
               /\ sinceDrag'.moved = sinceDrag.moved /\ sinceDrag'.blind = sinceDrag.blind
               /\ sinceDrag.serials \subseteq sinceDrag'.serials
               /\ from[upNext] .. from[upNext + 1] - 1 \subseteq sinceDrag'.serials
               /\ from[upNext] \in Nat /\ from[upNext + 1] \in Nat
               /\ from[upNext] <= from[upNext + 1]
<1> DEFINE others == dronePos.last >= dronePos.complete
           done == UnSmartPak(recording[upNext], dronePos.last, others)
           units == {q \in ToSet(done.out) : IsUnit(q.kind)}
<1>1. upNext \in DOMAIN recording
  BY DEF Replay
<1>2. PICK shape \in Seq(Kinds) :
         RecordedAs(from, upNext, shape) /\ upNext \in 1 .. Len(original)
            /\ from[upNext] \in Nat \ {0} /\ from[upNext + 1] \in Nat \ {0}
  BY <1>1, PacketAt
<1> DEFINE n == from[upNext]
           u == UnitsIn(shape, Len(shape))
           out == Kept(original[upNext], KindsSent(others))
<1>3. others \in BOOLEAN /\ n \in Nat
  BY <1>2
<1> DEFINE packet == Numbered(shape, n)
<1>11. original[upNext] = packet /\ recording[upNext] = SmartPak(packet)
  BY <1>2 DEF RecordedAs
<1>4. done.out = out /\ done.last = (IF u = 0 THEN dronePos.last ELSE n + u)
  <2> DEFINE last == dronePos.last
             done1 == UnSmartPak(SmartPak(packet), last, others)
  <2>1. /\ done1.out = Kept(packet, KindsSent(others))
        /\ done1.last = (IF u = 0 THEN last ELSE n + u)
    <3> HIDE DEF last, others, n
    <3> QED
      BY <1>2, <1>3, Unpacked
  <2> QED
    BY <1>11, <2>1
<1>5. /\ u \in Nat /\ out \in Seq(Parts)
      /\ \A j \in DOMAIN out : /\ out[j].kind \in KindsSent(others)
                               /\ IsUnit(out[j].kind) => out[j].serial \in n .. n + u - 1
      /\ \A v \in n .. n + u - 1 : \E j \in DOMAIN out : IsUnit(out[j].kind) /\ out[j].serial = v
  <2>1. UnitKinds \subseteq KindsSent(others)
    BY DEF KindsSent, Replayable
  <2>2. n \in Nat
    BY <1>3
  <2> HIDE DEF others, n
  <2>3. KeptWhole(out, KindsSent(others), n, u)
    BY <1>2, <1>11, <2>1, <2>2, KeptFacts
  <2> QED
    BY <2>3 DEF KeptWhole
<1>6. from[upNext + 1] = n + u
  BY <1>2 DEF RecordedAs
<1>7. /\ rebuilt' = done.out
      /\ dronePos' = [last |-> done.last, complete |-> dronePos.complete, recent |-> FALSE]
      /\ sinceDrag' = [sinceDrag EXCEPT !.serials = @ \cup {p.serial : p \in units},
                                        !.blind = @ \/ FALSE]
  BY DEF Replay
<1> HIDE DEF done, out, u, n
<1>8. {p.serial : p \in units} = n .. n + u - 1
  <2>1. ToSet(done.out) = {out[j] : j \in DOMAIN out}
    BY <1>4 DEF ToSet
  <2>2. units = {q \in {out[j] : j \in DOMAIN out} : IsUnit(q.kind)}
    BY <2>1
  <2> QED
    BY <1>5, <2>2
<1> HIDE DEF units
<1>9. /\ dronePos' \in DroneType /\ dronePos'.last = done.last
      /\ dronePos'.complete = dronePos.complete /\ ~dronePos'.recent
  <2>1. dronePos.last \in Nat /\ dronePos.complete \in Nat
    BY DEF ReplayInv, DroneType
  <2>2. done.last \in Nat
    BY <1>3, <1>4, <1>5, <2>1
  <2> QED
    BY <1>7, <2>1, <2>2 DEF DroneType
<1>10. /\ sinceDrag' \in DragType
       /\ sinceDrag'.moved = sinceDrag.moved /\ sinceDrag'.blind = sinceDrag.blind
       /\ sinceDrag'.serials = sinceDrag.serials \cup (n .. n + u - 1)
  <2>1. sinceDrag \in DragType /\ n .. n + u - 1 \subseteq Nat
    BY <1>3, <1>5 DEF ReplayInv
  <2> QED
    BY <1>7, <1>8, <2>1 DEF DragType
<1> QED
  BY <1>2, <1>3, <1>4, <1>5, <1>6, <1>7, <1>9, <1>10 DEF n, out

\* The first packet after the bar was dragged: nothing of it is sent, and a round of the
\* units begins behind it unless it had no state.
LEMMA SentFirst ==
    ASSUME ReplayInv, NEW from, RecordedBy(from), Replay, dronePos.recent
    PROVE  /\ rebuilt' = <<>>
           /\ dronePos' \in DroneType /\ ~dronePos'.recent
           /\ sinceDrag' \in DragType
           /\ sinceDrag'.moved = sinceDrag.moved /\ sinceDrag'.serials = sinceDrag.serials
           /\ ~sinceDrag'.blind => /\ dronePos'.complete = from[upNext + 1] + MaxUnits
                                   /\ dronePos'.last <= from[upNext + 1]
           /\ from[upNext + 1] \in Nat
<1> DEFINE once == UnSmartPak(recording[upNext], dronePos.last, FALSE)
           complete == once.last + MaxUnits
           done == UnSmartPak(once.out, once.last, once.last >= complete)
           units == {q \in ToSet(done.out) : IsUnit(q.kind)}
<1>1. upNext \in DOMAIN recording
  BY DEF Replay
<1>2. PICK shape \in Seq(Kinds) :
         RecordedAs(from, upNext, shape) /\ upNext \in 1 .. Len(original)
            /\ from[upNext] \in Nat \ {0} /\ from[upNext + 1] \in Nat \ {0}
  BY <1>1, PacketAt
<1> DEFINE n == from[upNext]
           u == UnitsIn(shape, Len(shape))
           packet == Numbered(shape, n)
           out == Kept(packet, UnitKinds)
           last == dronePos.last
<1>3. /\ recording[upNext] = SmartPak(packet) /\ from[upNext + 1] = n + u
      /\ last \in Nat /\ n \in Nat \ {0}
  BY <1>2 DEF RecordedAs, ReplayInv, DroneType
<1>4. once.out = out /\ once.last = (IF u = 0 THEN last ELSE n + u)
  <2> DEFINE once1 == UnSmartPak(SmartPak(packet), last, FALSE)
  <2>1. n \in Nat /\ KindsSent(FALSE) = UnitKinds
    BY <1>3 DEF KindsSent
  <2>2. once1.out = Kept(packet, KindsSent(FALSE)) /\ once1.last = (IF u = 0 THEN last ELSE n + u)
    <3> HIDE DEF last, n
    <3> QED
      BY ONLY <2>1, shape \in Seq(Kinds), Unpacked DEF u, packet, once1
  <2> QED
    BY <1>3, <2>1, <2>2
<1>5. /\ u \in Nat /\ out \in Seq(Parts)
      /\ \A j \in DOMAIN out : /\ out[j].kind \in UnitKinds
                               /\ IsUnit(out[j].kind) => out[j].serial \in n .. n + u - 1
  <2>1. n \in Nat /\ UnitKinds \subseteq UnitKinds
    BY <1>3
  <2> HIDE DEF n
  <2>2. KeptWhole(out, UnitKinds, n, u)
    BY <1>2, <2>1, KeptFacts
  <2> QED
    BY <2>2 DEF KeptWhole
<1>6. /\ rebuilt' = done.out
      /\ dronePos' = [last |-> done.last, complete |-> complete, recent |-> FALSE]
      /\ sinceDrag' = [sinceDrag EXCEPT !.serials = @ \cup {p.serial : p \in units},
                                        !.blind = @ \/ (TRUE /\ once.out = <<>>)]
  BY DEF Replay, Resynced
<1> HIDE DEF once, n, u, packet, out
<1>7. once.last \in Nat /\ ~(once.last >= complete) /\ complete \in Nat
  BY <1>3, <1>4, <1>5, PacketsAssumption
<1>8. \A j \in DOMAIN out : out[j].kind \in UnitKinds /\ out[j].serial \in 1 .. once.last
  <2> SUFFICES ASSUME NEW j \in DOMAIN out
               PROVE  out[j].kind \in UnitKinds /\ out[j].serial \in 1 .. once.last
    OBVIOUS
  <2>1. out[j].kind \in UnitKinds /\ out[j].serial \in n .. n + u - 1
    BY <1>5 DEF IsUnit
  <2> QED
    BY <1>3, <1>4, <1>5, <2>1
<1>9. \E b \in 0 .. once.last : done = Acc(0, b, <<>>)
  <2> DEFINE e == once.last
             done1 == UnSmartPak(out, e, FALSE)
  <2>1. e \in 0 .. e /\ e \in Nat
    BY <1>7
  <2>2. out \in Seq(Parts) /\ \A j \in DOMAIN out : /\ out[j].kind \in UnitKinds
                                                    /\ out[j].serial \in 1 .. e
    BY <1>5, <1>8
  <2> HIDE DEF e
  <2>3. \E b \in 0 .. e : done1 = Acc(0, b, <<>>)
    BY ONLY <2>1, <2>2, UnpackedAgain, FALSE \in BOOLEAN DEF done1
  <2>4. (once.last >= complete) = FALSE
    BY <1>7
  <2>5. done = done1
    BY <1>4, <2>4, Zenon DEF e
  <2> QED
    BY <2>3, <2>5 DEF e
<1>10. PICK b \in 0 .. once.last : done = Acc(0, b, <<>>)
  BY <1>9
<1>11. done.out = <<>> /\ done.last = b
  BY <1>10 DEF Acc
<1> HIDE DEF done
<1>12. {p.serial : p \in units} = {}
  BY <1>11 DEF ToSet
<1> HIDE DEF units, complete
<1>13. dronePos' \in DroneType /\ ~dronePos'.recent /\ dronePos'.last = b /\ dronePos'.complete = complete
  <2>1. b \in Nat
    BY <1>7, <1>10
  <2> QED
    BY <1>6, <1>7, <1>11, <2>1 DEF DroneType
<1>14. /\ sinceDrag' \in DragType /\ sinceDrag'.moved = sinceDrag.moved
       /\ sinceDrag'.serials = sinceDrag.serials
       /\ sinceDrag'.blind = (sinceDrag.blind \/ (TRUE /\ once.out = <<>>))
  <2>1. sinceDrag \in DragType
    BY DEF ReplayInv
  <2> QED
    BY <1>6, <1>12, <2>1 DEF DragType
<1>15. u = 0 => out = <<>>
  <2> SUFFICES ASSUME u = 0 PROVE out = <<>>
    OBVIOUS
  <2>1. \A j \in DOMAIN out : FALSE
    BY <1>3, <1>5 DEF IsUnit
  <2> QED
    BY <1>5, <2>1
<1>16. ~sinceDrag'.blind => complete = from[upNext + 1] + MaxUnits /\ b <= from[upNext + 1]
  <2> SUFFICES ASSUME ~sinceDrag'.blind
               PROVE  complete = from[upNext + 1] + MaxUnits /\ b <= from[upNext + 1]
    OBVIOUS
  <2>1. u # 0
    BY <1>4, <1>14, <1>15
  <2>2. once.last = from[upNext + 1] /\ once.last \in Nat
    BY <1>3, <1>4, <1>7, <2>1
  <2> QED
    BY <1>10, <2>2 DEF complete
<1> QED
  BY <1>2, <1>6, <1>11, <1>13, <1>14, <1>16

-----------------------------------------------------------------------------
(* The steps *)

LEMMA RecordStep ==
    ASSUME PacketsInv, NEW shape \in Shapes, Record(shape)
    PROVE  PacketsInv'
<1> DEFINE len == Len(original)
           packet == Numbered(shape, engineSerial)
<1>1. /\ upNext = 0 /\ upNext' = 0 /\ Len(recording) < MaxPackets
      /\ original' = Append(original, packet)
      /\ recording' = Append(recording, SmartPak(packet))
      /\ engineSerial' = engineSerial + UnitsIn(shape, Len(shape))
      /\ UNCHANGED <<dronePos, rebuilt, sinceDrag>>
  BY DEF Record
<1>2. /\ original \in Seq(Seq(Parts)) /\ recording \in Seq(Seq(Parts))
      /\ Len(recording) = len /\ len \in Nat /\ ~sinceDrag.moved /\ ~sinceDrag'.moved
  BY <1>1 DEF PacketsInv, ReplayInv
<1>3. PICK from : RecordedBy(from)
  BY DEF PacketsInv
<1>4. shape \in Seq(Kinds) /\ engineSerial \in Nat \ {0} /\ engineSerial = from[len + 1]
  <2>1. len + 1 \in Nat
    BY <1>2
  <2> QED
    BY <1>3, <2>1, PacketsAssumption DEF RecordedBy
<1>5. packet \in Seq(Parts) /\ SmartPak(packet) \in Seq(Parts)
  BY <1>4, NumberedFacts, SmartPakFacts
<1>6. UnitsIn(shape, Len(shape)) \in Nat
  BY <1>4, UnitsInSteps
<1> HIDE DEF packet
<1>7. /\ original' \in Seq(Seq(Parts)) /\ recording' \in Seq(Seq(Parts))
      /\ Len(original') = len + 1 /\ Len(recording') = len + 1
      /\ \A k \in 1 .. len : original'[k] = original[k] /\ recording'[k] = recording[k]
      /\ original'[len + 1] = packet /\ recording'[len + 1] = SmartPak(packet)
  BY <1>1, <1>2, <1>5
<1>8. ReplayInv'
  BY <1>1, <1>2, <1>7, PacketsAssumption DEF PacketsInv, ReplayInv
<1>9. RebuildsPacket' /\ EventsAfterResync'
  BY <1>1, <1>2 DEF RebuildsPacket, EventsAfterResync
<1>10. PICK after :
       /\ after \in [Nat -> Nat \ {0}]
       /\ \A k \in 1 .. len + 1 : after[k] = from[k]
       /\ after[len + 2] = engineSerial'
  <2>1. engineSerial' \in Nat \ {0} /\ len + 2 \in Nat /\ \A k \in 1 .. len + 1 : k # len + 2 /\ k \in Nat
    BY <1>1, <1>2, <1>4, <1>6
  <2>2. from \in [Nat -> Nat \ {0}]
    BY <1>3 DEF RecordedBy
  <2> DEFINE longer == [from EXCEPT ![len + 2] = engineSerial']
  <2>3. /\ longer \in [Nat -> Nat \ {0}]
        /\ \A k \in 1 .. len + 1 : longer[k] = from[k]
        /\ longer[len + 2] = engineSerial'
    BY <2>1, <2>2
  <2> QED
    BY <2>3
<1>11. RecordedBy(after)'
  <2>1. ASSUME NEW k \in 1 .. Len(original') PROVE \E s \in Shapes : RecordedAs(after, k, s)'
    <3>1. CASE k \in 1 .. len
      <4>1. PICK s \in Shapes : RecordedAs(from, k, s)
        BY <1>3, <3>1 DEF RecordedBy
      <4>2. k \in 1 .. len + 1 /\ k + 1 \in 1 .. len + 1
        BY <1>2, <3>1
      <4>3. RecordedAs(after, k, s)'
        BY <1>7, <1>10, <3>1, <4>1, <4>2 DEF RecordedAs
      <4> QED
        BY <4>3
    <3>2. CASE k = len + 1
      <4>1. len + 1 \in 1 .. len + 1 /\ (len + 1) + 1 = len + 2
        BY <1>2
      <4>2. RecordedAs(after, k, shape)'
        BY <1>1, <1>4, <1>7, <1>10, <3>2, <4>1 DEF RecordedAs, packet
      <4> QED
        BY <4>2
    <3> QED
      BY <1>2, <1>7, <3>1, <3>2
  <2>2. engineSerial' = after[Len(original') + 1]
    BY <1>2, <1>7, <1>10
  <2> QED
    BY <1>10, <2>1, <2>2 DEF RecordedBy
<1>12. SyncedBy(after)'
  BY <1>2 DEF SyncedBy
<1> QED
  BY <1>8, <1>9, <1>11, <1>12 DEF PacketsInv

LEMMA StartStep == PacketsInv /\ StartReplay => PacketsInv'
<1> SUFFICES ASSUME PacketsInv, StartReplay PROVE PacketsInv'
  OBVIOUS
<1>1. /\ upNext = 0 /\ upNext' = 1
      /\ UNCHANGED <<engineSerial, original, recording, dronePos, rebuilt, sinceDrag>>
  BY DEF StartReplay
<1>2. ~sinceDrag.moved /\ original \in Seq(Seq(Parts))
  BY <1>1 DEF PacketsInv, ReplayInv
<1>3. ReplayInv'
  BY <1>1, <1>2 DEF PacketsInv, ReplayInv
<1>4. RebuildsPacket' /\ EventsAfterResync'
  BY <1>1, <1>2 DEF RebuildsPacket, EventsAfterResync
<1>5. PICK from : RecordedBy(from)
  BY DEF PacketsInv
<1>6. RecordedBy(from)' /\ SyncedBy(from)'
  BY <1>1, <1>2, <1>5 DEF RecordedBy, RecordedAs, SyncedBy
<1> QED
  BY <1>3, <1>4, <1>6 DEF PacketsInv

LEMMA DragStep ==
    ASSUME PacketsInv, NEW i \in DOMAIN recording, DragBar(i)
    PROVE  PacketsInv'
<1>1. /\ upNext' = i /\ rebuilt' = <<>>
      /\ dronePos' = [dronePos EXCEPT !.recent = TRUE]
      /\ sinceDrag' = [NotMoved EXCEPT !.moved = TRUE]
      /\ UNCHANGED <<engineSerial, original, recording>>
  BY DEF DragBar
<1>2. /\ sinceDrag' \in DragType /\ sinceDrag'.moved
      /\ dronePos' \in DroneType /\ dronePos'.recent
  BY <1>1 DEF PacketsInv, ReplayInv, NotMoved, DragType, DroneType
<1>3. i \in 1 .. Len(original)
  BY DEF PacketsInv, ReplayInv
<1>4. ReplayInv'
  BY <1>1, <1>2, <1>3 DEF PacketsInv, ReplayInv
<1>5. RebuildsPacket' /\ EventsAfterResync'
  BY <1>1, <1>2 DEF RebuildsPacket, EventsAfterResync
<1>6. PICK from : RecordedBy(from)
  BY DEF PacketsInv
<1>7. RecordedBy(from)' /\ SyncedBy(from)'
  BY <1>1, <1>2, <1>6 DEF RecordedBy, RecordedAs, SyncedBy
<1> QED
  BY <1>4, <1>5, <1>7 DEF PacketsInv

LEMMA UsualStep ==
    ASSUME PacketsInv, Replay, ~dronePos.recent
    PROVE  PacketsInv'
<1> DEFINE others == dronePos.last >= dronePos.complete
           k == upNext
<1>1. /\ upNext \in 1 .. Len(original) /\ upNext' = upNext + 1
      /\ UNCHANGED <<engineSerial, original, recording>>
  BY DEF Replay, PacketsInv, ReplayInv
<1>2. PICK from : RecordedBy(from) /\ SyncedBy(from)
  BY DEF PacketsInv
<1>3. ReplayInv
  BY DEF PacketsInv
<1>4. /\ rebuilt' = Kept(original[k], KindsSent(others))
      /\ \A j \in DOMAIN rebuilt' : rebuilt'[j].kind \in KindsSent(others)
      /\ dronePos' \in DroneType
      /\ dronePos'.last = dronePos.last \/ dronePos'.last = from[k + 1]
      /\ dronePos'.complete = dronePos.complete /\ ~dronePos'.recent
      /\ sinceDrag' \in DragType
      /\ sinceDrag'.moved = sinceDrag.moved /\ sinceDrag'.blind = sinceDrag.blind
      /\ sinceDrag.serials \subseteq sinceDrag'.serials
      /\ from[k] .. from[k + 1] - 1 \subseteq sinceDrag'.serials
      /\ from[k] \in Nat /\ from[k + 1] \in Nat
      /\ from[k] <= from[k + 1]
  BY <1>2, <1>3, SentAsUsual
<1> HIDE DEF k
<1>5. /\ dronePos.last \in Nat /\ dronePos.complete \in Nat /\ dronePos'.last \in Nat
      /\ ~sinceDrag.moved => dronePos.complete = 0
      /\ sinceDrag.moved \in BOOLEAN
  BY <1>3, <1>4 DEF ReplayInv, DroneType, DragType
<1>6. ~sinceDrag.moved => others
  BY <1>5
<1>7. KindsSent(others) = (IF others THEN Replayable ELSE UnitKinds)
  BY DEF KindsSent
<1> HIDE DEF others
<1>8. ReplayInv'
  <2>1. \A j \in DOMAIN rebuilt' : rebuilt'[j].kind \in Replayable
    BY <1>4, <1>7 DEF Replayable
  <2>2. upNext' \in 0 .. Len(original') + 1
    BY <1>1, <1>3 DEF ReplayInv
  <2> QED
    BY <1>1, <1>3, <1>4, <2>1, <2>2 DEF ReplayInv
<1>9. RebuildsPacket'
  <2>1. original'[upNext' - 1] = original[k]
    <3>1. upNext' - 1 = upNext
      BY <1>1
    <3> QED
      BY <1>1, <3>1 DEF k
  <2> QED
    BY <1>4, <1>6, <1>7, <2>1 DEF RebuildsPacket
<1>10. sinceDrag.moved /\ ~sinceDrag.blind =>
          /\ dronePos.last <= from[k]
          /\ \E first \in Nat : /\ dronePos.complete = first + MaxUnits
                                /\ first .. from[k] - 1 \subseteq sinceDrag.serials
  BY <1>2 DEF SyncedBy, k
<1>11. EventsAfterResync'
  <2> SUFFICES ASSUME sinceDrag'.moved, ~sinceDrag'.blind,
                      NEW j \in DOMAIN rebuilt', rebuilt'[j].kind = "event"
               PROVE  {s % MaxUnits : s \in sinceDrag'.serials} = 0 .. MaxUnits - 1
    BY DEF EventsAfterResync
  <2>1. others
    BY <1>4, <1>7 DEF UnitKinds
  <2>2. PICK first \in Nat : /\ dronePos.complete = first + MaxUnits
                             /\ first .. from[k] - 1 \subseteq sinceDrag.serials
    BY <1>4, <1>10
  <2>3. dronePos.last <= from[k]
    BY <1>4, <1>10
  <2>4. first + MaxUnits <= from[k] /\ MaxUnits \in Nat \ {0}
    BY <1>4, <1>5, <2>1, <2>2, <2>3, PacketsAssumption DEF others
  <2>5. first .. first + MaxUnits - 1 \subseteq first .. from[k] - 1
    BY <1>4, <2>2, <2>4
  <2>6. first .. first + MaxUnits - 1 \subseteq sinceDrag'.serials
    BY <1>4, <2>2, <2>5
  <2>7. sinceDrag'.serials \in SUBSET Nat
    BY <1>4 DEF DragType
  <2> QED
    BY <2>4, <2>6, <2>7, Remainders
<1>12. SyncedBy(from)'
  <2> SUFFICES ASSUME sinceDrag'.moved, ~sinceDrag'.blind
               PROVE  /\ dronePos'.last <= from[k + 1]
                      /\ \E first \in Nat :
                            /\ dronePos'.complete = first + MaxUnits
                            /\ first .. from[k + 1] - 1 \subseteq sinceDrag'.serials
    BY <1>1 DEF SyncedBy, k
  <2>1. dronePos'.last <= from[k + 1]
    BY <1>4, <1>5, <1>10
  <2>2. PICK first \in Nat : /\ dronePos.complete = first + MaxUnits
                             /\ first .. from[k] - 1 \subseteq sinceDrag.serials
    BY <1>4, <1>10
  <2>3. first .. from[k + 1] - 1 \subseteq sinceDrag'.serials
    <3> SUFFICES ASSUME NEW v \in first .. from[k + 1] - 1 PROVE v \in sinceDrag'.serials
      OBVIOUS
    <3>1. v \in first .. from[k] - 1 \/ v \in from[k] .. from[k + 1] - 1
      BY <1>4, <2>2
    <3> QED
      BY <1>4, <2>2, <3>1
  <2> QED
    BY <1>4, <2>1, <2>2, <2>3
<1>13. RecordedBy(from)'
  BY <1>1, <1>2 DEF RecordedBy, RecordedAs
<1> QED
  BY <1>8, <1>9, <1>11, <1>12, <1>13 DEF PacketsInv

LEMMA FirstStep ==
    ASSUME PacketsInv, Replay, dronePos.recent
    PROVE  PacketsInv'
<1>1. /\ upNext \in 1 .. Len(original) /\ upNext' = upNext + 1
      /\ UNCHANGED <<engineSerial, original, recording>>
  BY DEF Replay, PacketsInv, ReplayInv
<1>2. PICK from : RecordedBy(from)
  BY DEF PacketsInv
<1>3. ReplayInv /\ sinceDrag.moved
  BY DEF PacketsInv, ReplayInv
<1>4. /\ rebuilt' = <<>>
      /\ dronePos' \in DroneType /\ ~dronePos'.recent
      /\ sinceDrag' \in DragType
      /\ sinceDrag'.moved = sinceDrag.moved /\ sinceDrag'.serials = sinceDrag.serials
      /\ ~sinceDrag'.blind => /\ dronePos'.complete = from[upNext + 1] + MaxUnits
                              /\ dronePos'.last <= from[upNext + 1]
      /\ from[upNext + 1] \in Nat
  BY <1>2, <1>3, SentFirst
<1>5. ReplayInv'
  BY <1>1, <1>3, <1>4 DEF ReplayInv
<1>6. RebuildsPacket' /\ EventsAfterResync'
  BY <1>3, <1>4 DEF RebuildsPacket, EventsAfterResync
<1>7. SyncedBy(from)'
  <2> SUFFICES ASSUME ~sinceDrag'.blind
               PROVE  /\ dronePos'.last <= from[upNext + 1]
                      /\ \E first \in Nat :
                            /\ dronePos'.complete = first + MaxUnits
                            /\ first .. from[upNext + 1] - 1 \subseteq sinceDrag'.serials
    BY <1>1 DEF SyncedBy
  <2>1. from[upNext + 1] .. from[upNext + 1] - 1 = {}
    BY <1>4
  <2> QED
    BY <1>4, <2>1
<1>8. RecordedBy(from)'
  BY <1>1, <1>2 DEF RecordedBy, RecordedAs
<1> QED
  BY <1>5, <1>6, <1>7, <1>8 DEF PacketsInv

LEMMA PacketsInvStep == PacketsInv /\ [PacketsNext]_packetsVars => PacketsInv'
<1> SUFFICES ASSUME PacketsInv, [PacketsNext]_packetsVars PROVE PacketsInv'
  OBVIOUS
<1>1. ASSUME NEW shape \in Shapes, Record(shape) PROVE PacketsInv'
  BY <1>1, RecordStep
<1>2. CASE StartReplay
  BY <1>2, StartStep
<1>3. CASE Replay
  BY <1>3, UsualStep, FirstStep
<1>4. ASSUME NEW i \in DOMAIN recording, DragBar(i) PROVE PacketsInv'
  BY <1>4, DragStep
<1>5. CASE UNCHANGED packetsVars
  <2>1. UNCHANGED <<engineSerial, original, recording, upNext, dronePos, rebuilt, sinceDrag>>
    BY <1>5 DEF packetsVars
  <2>2. ReplayInv' /\ RebuildsPacket' /\ EventsAfterResync'
    BY <2>1 DEF PacketsInv, ReplayInv, RebuildsPacket, EventsAfterResync
  <2>3. PICK from : RecordedBy(from) /\ SyncedBy(from)
    BY DEF PacketsInv
  <2>4. RecordedBy(from)' /\ SyncedBy(from)'
    BY <2>1, <2>3 DEF RecordedBy, RecordedAs, SyncedBy
  <2> QED
    BY <2>2, <2>4 DEF PacketsInv
<1> QED
  BY <1>1, <1>2, <1>3, <1>4, <1>5 DEF PacketsNext

\* The invariant behind the three theorems on packets.
LEMMA PacketsInvariant == PacketsSpec => []PacketsInv
<1>1. PacketsInit => PacketsInv
  BY InitPackets
<1>2. PacketsInv /\ [PacketsNext]_packetsVars => PacketsInv'
  BY PacketsInvStep
<1> QED
  BY <1>1, <1>2, PTL DEF PacketsSpec

\* The variables of the packets' way through the file keep their types, however many units
\* there are, whatever the packets look like and however often the bar is dragged.
THEOREM PacketsTypeInvariant == PacketsSpec => []PacketsTypeOK
<1>1. PacketsInv => PacketsTypeOK
  <2> SUFFICES ASSUME PacketsInv PROVE PacketsTypeOK
    OBVIOUS
  <2>1. PICK from : RecordedBy(from)
    BY DEF PacketsInv
  <2>2. Len(original) \in Nat
    BY DEF PacketsInv, ReplayInv
  <2>3. engineSerial \in Nat \ {0}
    <3>1. from \in [Nat -> Nat \ {0}] /\ Len(original) + 1 \in Nat
      <4>1. from \in [Nat -> Nat \ {0}]
        BY <2>1 DEF RecordedBy
      <4> QED
        BY <2>2, <4>1
    <3>2. engineSerial = from[Len(original) + 1]
      BY <2>1 DEF RecordedBy
    <3> QED
      BY <3>1, <3>2
  <2>4. sinceDrag.moved \in BOOLEAN /\ sinceDrag.blind \in BOOLEAN
    BY DEF PacketsInv, ReplayInv, DragType
  <2> QED
    BY <2>2, <2>3, <2>4, PacketsAssumption DEF PacketsInv, ReplayInv, DroneType, PacketsTypeOK
<1> QED
  BY <1>1, PacketsInvariant, PTL

\* What SmartPak leaves out of a packet unsmartpak puts back: every state comes out under
\* the serial it had and every part in its place (RebuildsPacket), for packets of any shape.
THEOREM RebuildsPacketHolds == PacketsSpec => []RebuildsPacket
<1>1. PacketsInv => RebuildsPacket
  BY DEF PacketsInv
<1> QED
  BY <1>1, PacketsInvariant, PTL

\* After a drag of the bar DoTimer sends no event before a round of all the units has been
\* sent (EventsAfterResync), whatever the number of units is.
THEOREM EventsAfterResyncHolds == PacketsSpec => []EventsAfterResync
<1>1. PacketsInv => EventsAfterResync
  BY DEF PacketsInv
<1> QED
  BY <1>1, PacketsInvariant, PTL

-----------------------------------------------------------------------------
(* Compression *)

(* What a reference refers to *)

LEMMA LeastOf ==
    ASSUME NEW S \in SUBSET Nat, S # {}
    PROVE  Min(S) \in S /\ \A y \in S : Min(S) <= y
<1>1. \E x \in S : \A y \in S : x <= y
  BY LeastNumber
<1> QED
  BY <1>1 DEF Min

LEMMA GreatestOf ==
    ASSUME NEW n \in Nat, NEW S \in SUBSET (0 .. n), S # {}
    PROVE  Max(S) \in S /\ \A y \in S : y <= Max(S)
<1>1. \E x \in S : \A y \in S : y <= x
  BY GreatestNumber
<1>2. \E x \in S : \A y \in S : x >= y
  BY <1>1
<1>3. Max(S) \in S /\ \A y \in S : Max(S) >= y
  BY <1>2 DEF Max
<1> QED
  BY <1>3

\* The n bytes from a on are also those from i on, and before the last of the packet.
Repeats(d, a, i, n) ==
    /\ n \in 0 .. Len(d) - i
    /\ \A k \in 0 .. n - 1 : d[a + k] = d[i + k]

LEMMA MatchingFacts ==
    ASSUME NEW d \in Seq(Bytes), NEW i \in 1 .. Len(d), NEW a \in 1 .. i - 1
    PROVE  Repeats(d, a, i, Matching(d, a, i))
<1> DEFINE mismatches == {k \in 0 .. Len(d) - i - 1 : d[a + k] # d[i + k]}
           S == {i - a, Len(d) - i} \cup mismatches
           n == Min(S)
<1>1. Len(d) \in Nat
  OBVIOUS
<1>2. i - a \in Nat /\ Len(d) - i \in Nat
  BY <1>1
<1>3. S \in SUBSET Nat /\ S # {}
  BY <1>2
<1>4. n \in S /\ \A y \in S : n <= y
  BY <1>3, LeastOf
<1> HIDE DEF n
<1>5. n \in 0 .. Len(d) - i
  <2>1. Len(d) - i \in S /\ S \in SUBSET Nat
    BY <1>3
  <2> HIDE DEF S
  <2> QED
    BY <1>2, <1>4, <2>1
<1>6. ASSUME NEW k \in 0 .. n - 1 PROVE d[a + k] = d[i + k]
  <2>1. k \in 0 .. Len(d) - i - 1
    BY <1>1, <1>5
  <2>2. k \notin mismatches
    BY <1>4, <1>5
  <2> QED
    BY <2>1, <2>2
<1> QED
  BY <1>5, <1>6 DEF Matching, Repeats, n

LEMMA ReferenceParts ==
    ASSUME NEW from, NEW count
    PROVE  /\ From(Reference(from, count)) = from /\ Count(Reference(from, count)) = count
           /\ IsReference(Reference(from, count)) /\ Len(Reference(from, count)) = 2
BY DEF From, Count, Reference, IsReference

LEMMA LongestMatchFacts ==
    ASSUME NEW d \in Seq(Bytes), NEW i \in 3 .. Len(d)
    PROVE  \E a \in 1 .. i - 1, n \in Nat :
              LongestMatch(d, i) = Reference(a, n) /\ Repeats(d, a, i, n)
<1> DEFINE starts == 1 .. (i - 2)
           long == {a \in starts : Matching(d, a, i) > LengthValues + 1}
           lengths == {Matching(d, a, i) : a \in starts}
           most == Max(lengths)
           longest == {a \in starts : Matching(d, a, i) = most}
           from == IF long # {} THEN Min(long) ELSE Min(longest)
<1>1. LongestMatch(d, i) = Reference(from, Matching(d, from, i))
  BY DEF LongestMatch
<1>2. \A a \in starts : Matching(d, a, i) \in 0 .. Len(d)
  <2> SUFFICES ASSUME NEW a \in starts PROVE Matching(d, a, i) \in 0 .. Len(d)
    OBVIOUS
  <2>1. i \in 1 .. Len(d) /\ a \in 1 .. i - 1 /\ Len(d) \in Nat
    OBVIOUS
  <2>2. Repeats(d, a, i, Matching(d, a, i))
    BY <2>1, MatchingFacts
  <2> QED
    BY <2>1, <2>2 DEF Repeats
<1>3. Len(d) \in Nat /\ 1 \in starts /\ starts \subseteq Nat
  OBVIOUS
<1>4. most \in lengths
  <2>1. lengths \in SUBSET (0 .. Len(d)) /\ lengths # {}
    BY <1>2, <1>3
  <2> HIDE DEF lengths
  <2> QED
    BY <1>3, <2>1, GreatestOf
<1>5. longest # {} /\ longest \in SUBSET Nat /\ long \in SUBSET Nat
  BY <1>3, <1>4
<1>6. from \in starts
  <2>1. CASE long # {}
    <3>1. Min(long) \in long
      BY <1>5, <2>1, LeastOf
    <3> QED
      BY <2>1, <3>1
  <2>2. CASE long = {}
    <3>1. Min(longest) \in longest
      BY <1>5, LeastOf
    <3> QED
      BY <2>2, <3>1
  <2> QED
    BY <2>1, <2>2
<1> HIDE DEF from
<1>7. i \in 1 .. Len(d) /\ from \in 1 .. i - 1
  BY <1>3, <1>6
<1>8. Repeats(d, from, i, Matching(d, from, i))
  BY <1>7, MatchingFacts
<1>9. Matching(d, from, i) \in Nat
  BY <1>3, <1>7, <1>8 DEF Repeats
<1> QED
  BY <1>1, <1>7, <1>8, <1>9

LEMMA RepeatedFacts ==
    ASSUME NEW d \in Seq(Bytes), NEW i \in 2 .. Len(d)
    PROVE  \E n \in Nat : Repeated(d, i) = Reference(i - 1, n) /\ Repeats(d, i - 1, i, n)
<1> DEFINE others == {k \in 0 .. Len(d) - i - 1 : d[i + k] # d[i - 1]}
           S == {Len(d) - i} \cup others
           n == Min(S)
<1>1. Len(d) \in Nat /\ Len(d) - i \in Nat
  OBVIOUS
<1>2. S \in SUBSET Nat /\ S # {}
  BY <1>1
<1>3. n \in S /\ \A y \in S : n <= y
  BY <1>2, LeastOf
<1> HIDE DEF n
<1>4. n \in 0 .. Len(d) - i
  BY <1>1, <1>2, <1>3
<1>5. \A k \in 0 .. n - 1 : d[i + k] = d[i - 1]
  <2> SUFFICES ASSUME NEW k \in 0 .. n - 1 PROVE d[i + k] = d[i - 1]
    OBVIOUS
  <2>1. k \in 0 .. Len(d) - i - 1 /\ k \notin others
    BY <1>1, <1>3, <1>4
  <2> QED
    BY <2>1
<1>6. ASSUME NEW k \in 0 .. n - 1 PROVE d[i - 1 + k] = d[i + k]
  <2>1. CASE k = 0
    <3>1. i - 1 + k = i - 1
      BY <2>1
    <3> QED
      BY <1>5, <3>1
  <2>2. CASE k # 0
    <3>1. k - 1 \in 0 .. n - 1 /\ i - 1 + k = i + (k - 1)
      BY <1>1, <1>4, <2>2
    <3> QED
      BY <1>5, <3>1
  <2> QED
    BY <2>1, <2>2
<1>7. Repeated(d, i) = Reference(i - 1, n)
  BY DEF Repeated, n
<1>8. Repeats(d, i - 1, i, n) /\ n \in Nat
  BY <1>1, <1>4, <1>6 DEF Repeats
<1> QED
  BY <1>7, <1>8

LEMMA BestFacts ==
    ASSUME NEW d \in Seq(Bytes), NEW i \in 3 .. Len(d)
    PROVE  \E a \in 1 .. i - 1, n \in Nat :
              Best(d, i) = Reference(a, n) /\ Repeats(d, a, i, n)
<1>1. CASE Best(d, i) = LongestMatch(d, i)
  BY <1>1, LongestMatchFacts
<1>2. CASE Best(d, i) = Repeated(d, i)
  <2>1. i \in 2 .. Len(d) /\ i - 1 \in 1 .. i - 1
    OBVIOUS
  <2> QED
    BY <1>2, <2>1, RepeatedFacts
<1> QED
  BY <1>1, <1>2 DEF Best

\* A chunk is the byte, or refers to bytes before it that are the next ones too.
LEMMA ChunkFacts ==
    ASSUME NEW d \in Seq(Bytes), NEW i \in 1 .. Len(d)
    PROVE  \/ /\ ChunkAt(d, i) = Byte(d[i]) /\ ~IsReference(ChunkAt(d, i))
              /\ Advance(d, i) = 1
           \/ \E a \in 1 .. i - 1, n \in 1 .. Len(d) - i :
                 /\ ChunkAt(d, i) = Reference(a, n) /\ IsReference(ChunkAt(d, i))
                 /\ Advance(d, i) = n
                 /\ \A k \in 0 .. n - 1 : d[a + k] = d[i + k]
<1> DEFINE best == Best(d, i)
<1>1. CASE i > Literal /\ i <= Reach /\ Count(best) > 2
  <2>1. i \in 3 .. Len(d)
    BY <1>1, CompressionAssumption
  <2>2. PICK a \in 1 .. i - 1, c \in Nat : best = Reference(a, c) /\ Repeats(d, a, i, c)
    BY <2>1, BestFacts
  <2>3. From(best) = a /\ Count(best) = c
    BY <2>2, ReferenceParts
  <2> DEFINE n == ((c - 2) % LengthValues) + 2
  <2>4. ChunkAt(d, i) = Reference(a, n)
    BY <1>1, <2>3 DEF ChunkAt
  <2>5. n \in 2 .. c
    <3>1. c - 2 \in Nat /\ LengthValues \in Nat \ {0}
      BY <1>1, <2>3, CompressionAssumption
    <3>2. (c - 2) % LengthValues \in 0 .. c - 2
      <4> DEFINE b == c - 2
                 q == b \div LengthValues
                 r == b % LengthValues
      <4>1. q \in Nat /\ r \in 0 .. LengthValues - 1 /\ b = LengthValues * q + r
        BY <3>1, DivMod
      <4> HIDE DEF q, r
      <4>2. LengthValues * q >= 0
        BY <3>1, <4>1
      <4>3. r \in 0 .. b
        BY <3>1, <4>1, <4>2
      <4> QED
        BY <4>3 DEF r
    <3> QED
      BY <3>1, <3>2
  <2> HIDE DEF n
  <2>6. n \in 1 .. Len(d) - i /\ \A k \in 0 .. n - 1 : d[a + k] = d[i + k]
    <3>1. c \in 0 .. Len(d) - i /\ \A k \in 0 .. c - 1 : d[a + k] = d[i + k]
      BY <2>2 DEF Repeats
    <3> DEFINE rest == Len(d) - i
    <3>2. rest \in Nat
      OBVIOUS
    <3>3. c \in 0 .. rest
      BY <3>1
    <3> HIDE DEF rest
    <3>4. n \in 1 .. rest /\ \A k \in 0 .. n - 1 : k \in 0 .. c - 1
      BY <2>5, <3>2, <3>3
    <3> QED
      BY <3>1, <3>4 DEF rest
  <2>7. IsReference(ChunkAt(d, i)) /\ Advance(d, i) = n
    BY <2>4, ReferenceParts DEF Advance
  <2> QED
    BY <2>4, <2>6, <2>7
<1>2. CASE ~(i > Literal /\ i <= Reach /\ Count(best) > 2)
  <2>1. ChunkAt(d, i) = Byte(d[i])
    BY <1>2 DEF ChunkAt
  <2>2. Len(Byte(d[i])) = 1
    BY DEF Byte
  <2> QED
    BY <2>1, <2>2 DEF IsReference, Advance
<1> QED
  BY <1>1, <1>2

-----------------------------------------------------------------------------
(* What the recursive functions compute, step by step *)

\* One byte of a reference.
Copy(o, ref, k) == Append(o, o[From(ref) + k - 1])

LEMMA CopiedSteps ==
    ASSUME NEW out, NEW ref, Count(ref) \in Nat
    PROVE  \E copied :
              /\ Copied(out, ref) = copied[Count(ref)]
              /\ copied[0] = out
              /\ \A k \in 1 .. Count(ref) :
                    copied[k] = Copy(copied[k - 1], ref, k)
<1> DEFINE n == Count(ref)
           base == out
           Follows(g, m) == g = [k \in 0 .. m |-> IF k = 0 THEN base
                                                ELSE Copy(g[k - 1], ref, k)]
           copied[k \in 0 .. n] == IF k = 0 THEN base ELSE Copy(copied[k - 1], ref, k)
<1>1. n \in Nat
  OBVIOUS
<1>2. \E g : Follows(g, n)
  <2> DEFINE S == {m \in 0 .. n : \E g : Follows(g, m)}
  <2> HIDE DEF base
  <2>1. 0 \in S
    <3>1. Follows([k \in 0 .. 0 |-> base], 0)
      OBVIOUS
    <3> HIDE DEF Follows
    <3>2. QED
      BY <1>1, <3>1
  <2>2. ASSUME NEW m \in 0 .. n - 1, m \in S PROVE m + 1 \in S
    <3>1. PICK g : Follows(g, m)
      BY <2>2
    <3> DEFINE h == [k \in 0 .. m + 1 |-> IF k <= m THEN g[k]
                                          ELSE Copy(g[m], ref, m + 1)]
    <3>2. \A k \in 0 .. m : h[k] = g[k]
      OBVIOUS
    <3>3. \A k \in 0 .. m + 1 :
             h[k] = IF k = 0 THEN base ELSE Copy(h[k - 1], ref, k)
      <4> SUFFICES ASSUME NEW k \in 0 .. m + 1
                   PROVE h[k] = IF k = 0 THEN base ELSE Copy(h[k - 1], ref, k)
        OBVIOUS
      <4>1. CASE k = m + 1
        <5>1. h[k] = Copy(g[m], ref, k) /\ h[k - 1] = g[m]
          BY <4>1, <3>2
        <5>2. QED
          BY <4>1, <5>1
      <4>2. CASE k \in 0 .. m
        <5>1. g[k] = IF k = 0 THEN base ELSE Copy(g[k - 1], ref, k)
          BY <3>1, <4>2
        <5>2. h[k] = g[k] /\ (k # 0 => h[k - 1] = g[k - 1])
          BY <4>2, <3>2
        <5>3. QED
          BY <5>1, <5>2
      <4>3. QED
        BY <4>1, <4>2
    <3>4. Follows(h, m + 1)
      <4>1. h = [k \in 0 .. m + 1 |-> h[k]]
        OBVIOUS
      <4> HIDE DEF h
      <4>2. QED
        BY <3>3, <4>1
    <3>5. m + 1 \in 0 .. n
      BY <1>1
    <3> HIDE DEF Follows
    <3>6. QED
      BY <3>4, <3>5
  <2> HIDE DEF Follows
  <2>3. n \in S
    <3> HIDE DEF S
    <3>1. \A m \in 0 .. n - 1 : m \in S => m + 1 \in S
      BY <2>2
    <3>2. 0 .. n \subseteq S
      BY <1>1, <2>1, <3>1, UpTo
    <3>3. QED
      BY <1>1, <3>2
  <2>4. QED
    BY <2>3
<1>3. Follows(copied, n)
  BY <1>2
<1>4. Copied(out, ref) = copied[n]
  BY DEF Copied, Copy
<1> HIDE DEF copied
<1>5. \A k \in 0 .. n : copied[k] = IF k = 0 THEN base ELSE Copy(copied[k - 1], ref, k)
  BY <1>3
<1>6. \A k \in 1 .. n : copied[k] = Copy(copied[k - 1], ref, k)
  BY <1>1, <1>5
<1>7. copied[0] = base
  BY <1>1, <1>5
<1>8. QED
  BY <1>4, <1>6, <1>7

\* One turn of the loop of Compress.
Cut(d, c) ==
    IF c.at > Len(d) THEN c
    ELSE [at |-> c.at + Advance(d, c.at), chunks |-> Append(c.chunks, ChunkAt(d, c.at))]

LEMMA ChunksSteps ==
    ASSUME NEW d \in Seq(Bytes)
    PROVE  \E cut :
              /\ Chunks(d) = cut[Len(d)].chunks
              /\ cut[0] = [at |-> 1, chunks |-> <<>>]
              /\ \A k \in 1 .. Len(d) : cut[k] = Cut(d, cut[k - 1])
<1> DEFINE n == Len(d)
           base == [at |-> 1, chunks |-> <<>>]
           Follows(g, m) == g = [k \in 0 .. m |-> IF k = 0 THEN base
                                                ELSE Cut(d, g[k - 1])]
           cut[k \in 0 .. n] == IF k = 0 THEN base ELSE Cut(d, cut[k - 1])
<1>1. n \in Nat
  OBVIOUS
<1>2. \E g : Follows(g, n)
  <2> DEFINE S == {m \in 0 .. n : \E g : Follows(g, m)}
  <2> HIDE DEF base
  <2>1. 0 \in S
    <3>1. Follows([k \in 0 .. 0 |-> base], 0)
      OBVIOUS
    <3> HIDE DEF Follows
    <3>2. QED
      BY <1>1, <3>1
  <2>2. ASSUME NEW m \in 0 .. n - 1, m \in S PROVE m + 1 \in S
    <3>1. PICK g : Follows(g, m)
      BY <2>2
    <3> DEFINE h == [k \in 0 .. m + 1 |-> IF k <= m THEN g[k]
                                          ELSE Cut(d, g[m])]
    <3>2. \A k \in 0 .. m : h[k] = g[k]
      OBVIOUS
    <3>3. \A k \in 0 .. m + 1 :
             h[k] = IF k = 0 THEN base ELSE Cut(d, h[k - 1])
      <4> SUFFICES ASSUME NEW k \in 0 .. m + 1
                   PROVE h[k] = IF k = 0 THEN base ELSE Cut(d, h[k - 1])
        OBVIOUS
      <4>1. CASE k = m + 1
        <5>1. h[k] = Cut(d, g[m]) /\ h[k - 1] = g[m]
          BY <4>1, <3>2
        <5>2. QED
          BY <4>1, <5>1
      <4>2. CASE k \in 0 .. m
        <5>1. g[k] = IF k = 0 THEN base ELSE Cut(d, g[k - 1])
          BY <3>1, <4>2
        <5>2. h[k] = g[k] /\ (k # 0 => h[k - 1] = g[k - 1])
          BY <4>2, <3>2
        <5>3. QED
          BY <5>1, <5>2
      <4>3. QED
        BY <4>1, <4>2
    <3>4. Follows(h, m + 1)
      <4>1. h = [k \in 0 .. m + 1 |-> h[k]]
        OBVIOUS
      <4> HIDE DEF h
      <4>2. QED
        BY <3>3, <4>1
    <3>5. m + 1 \in 0 .. n
      BY <1>1
    <3> HIDE DEF Follows
    <3>6. QED
      BY <3>4, <3>5
  <2> HIDE DEF Follows
  <2>3. n \in S
    <3> HIDE DEF S
    <3>1. \A m \in 0 .. n - 1 : m \in S => m + 1 \in S
      BY <2>2
    <3>2. 0 .. n \subseteq S
      BY <1>1, <2>1, <3>1, UpTo
    <3>3. QED
      BY <1>1, <3>2
  <2>4. QED
    BY <2>3
<1>3. Follows(cut, n)
  BY <1>2
<1>4. Chunks(d) = cut[n].chunks
  BY DEF Chunks, Cut
<1> HIDE DEF cut
<1>5. \A k \in 0 .. n : cut[k] = IF k = 0 THEN base ELSE Cut(d, cut[k - 1])
  BY <1>3
<1>6. \A k \in 1 .. n : cut[k] = Cut(d, cut[k - 1])
  BY <1>1, <1>5
<1>7. cut[0] = base
  BY <1>1, <1>5
<1>8. QED
  BY <1>4, <1>6, <1>7

LEMMA DecompressSteps ==
    ASSUME NEW data, Len(data) \in Nat
    PROVE  \E read :
              /\ Decompress([code |-> 4, data |-> data])
                    = [code |-> IF read[Len(data)].done THEN 3 ELSE 4,
                       data |-> read[Len(data)].out]
              /\ read[0] = [out |-> <<>>, mask |-> {}, left |-> 0, done |-> FALSE]
              /\ \A k \in 1 .. Len(data) : read[k] = Read(read[k - 1], data[k])
<1> DEFINE n == Len(data)
           base == [out |-> <<>>, mask |-> {}, left |-> 0, done |-> FALSE]
           Follows(g, m) == g = [k \in 0 .. m |-> IF k = 0 THEN base
                                                ELSE Read(g[k - 1], data[k])]
           read[k \in 0 .. n] == IF k = 0 THEN base ELSE Read(read[k - 1], data[k])
<1>1. n \in Nat
  OBVIOUS
<1>2. \E g : Follows(g, n)
  <2> DEFINE S == {m \in 0 .. n : \E g : Follows(g, m)}
  <2> HIDE DEF base
  <2>1. 0 \in S
    <3>1. Follows([k \in 0 .. 0 |-> base], 0)
      OBVIOUS
    <3> HIDE DEF Follows
    <3>2. QED
      BY <1>1, <3>1
  <2>2. ASSUME NEW m \in 0 .. n - 1, m \in S PROVE m + 1 \in S
    <3>1. PICK g : Follows(g, m)
      BY <2>2
    <3> DEFINE h == [k \in 0 .. m + 1 |-> IF k <= m THEN g[k]
                                          ELSE Read(g[m], data[m + 1])]
    <3>2. \A k \in 0 .. m : h[k] = g[k]
      OBVIOUS
    <3>3. \A k \in 0 .. m + 1 :
             h[k] = IF k = 0 THEN base ELSE Read(h[k - 1], data[k])
      <4> SUFFICES ASSUME NEW k \in 0 .. m + 1
                   PROVE h[k] = IF k = 0 THEN base ELSE Read(h[k - 1], data[k])
        OBVIOUS
      <4>1. CASE k = m + 1
        <5>1. h[k] = Read(g[m], data[k]) /\ h[k - 1] = g[m]
          BY <4>1, <3>2
        <5>2. QED
          BY <4>1, <5>1
      <4>2. CASE k \in 0 .. m
        <5>1. g[k] = IF k = 0 THEN base ELSE Read(g[k - 1], data[k])
          BY <3>1, <4>2
        <5>2. h[k] = g[k] /\ (k # 0 => h[k - 1] = g[k - 1])
          BY <4>2, <3>2
        <5>3. QED
          BY <5>1, <5>2
      <4>3. QED
        BY <4>1, <4>2
    <3>4. Follows(h, m + 1)
      <4>1. h = [k \in 0 .. m + 1 |-> h[k]]
        OBVIOUS
      <4> HIDE DEF h
      <4>2. QED
        BY <3>3, <4>1
    <3>5. m + 1 \in 0 .. n
      BY <1>1
    <3> HIDE DEF Follows
    <3>6. QED
      BY <3>4, <3>5
  <2> HIDE DEF Follows
  <2>3. n \in S
    <3> HIDE DEF S
    <3>1. \A m \in 0 .. n - 1 : m \in S => m + 1 \in S
      BY <2>2
    <3>2. 0 .. n \subseteq S
      BY <1>1, <2>1, <3>1, UpTo
    <3>3. QED
      BY <1>1, <3>2
  <2>4. QED
    BY <2>3
<1>3. Follows(read, n)
  BY <1>2
<1>4. Decompress([code |-> 4, data |-> data])
         = [code |-> IF read[n].done THEN 3 ELSE 4, data |-> read[n].out]
  BY DEF Decompress
<1> HIDE DEF read
<1>5. \A k \in 0 .. n : read[k] = IF k = 0 THEN base ELSE Read(read[k - 1], data[k])
  BY <1>3
<1>6. \A k \in 1 .. n : read[k] = Read(read[k - 1], data[k])
  BY <1>1, <1>5
<1>7. read[0] = base
  BY <1>1, <1>5
<1>8. QED
  BY <1>4, <1>6, <1>7

-----------------------------------------------------------------------------
(* The bytes that come out of the chunks *)

LEMMA PrefixFacts ==
    ASSUME NEW d \in Seq(Bytes), NEW m \in 0 .. Len(d)
    PROVE  /\ SubSeq(d, 1, m) \in Seq(Bytes) /\ Len(SubSeq(d, 1, m)) = m
           /\ \A k \in 1 .. m : SubSeq(d, 1, m)[k] = d[k]
<1> DEFINE p == SubSeq(d, 1, m)
<1>1. Len(d) \in Nat /\ m \in Int /\ \A k \in 1 .. m : d[k] \in Bytes
  OBVIOUS
<1>2. /\ p \in Seq(Bytes) /\ Len(p) = IF 1 <= m THEN m - 1 + 1 ELSE 0
      /\ \A k \in 1 .. m - 1 + 1 : p[k] = d[1 + k - 1]
  BY <1>1, SubSeqProperties
<1> HIDE DEF p
<1>3. Len(p) = m
  BY <1>1, <1>2
<1>4. \A k \in 1 .. m : p[k] = d[k]
  <2> SUFFICES ASSUME NEW k \in 1 .. m PROVE p[k] = d[k]
    OBVIOUS
  <2>1. k \in 1 .. m - 1 + 1 /\ 1 + k - 1 = k
    BY <1>1
  <2> QED
    BY <1>2, <2>1
<1> QED
  BY <1>2, <1>3, <1>4 DEF p

LEMMA SameBytes ==
    ASSUME NEW s \in Seq(Bytes), NEW t \in Seq(Bytes), Len(s) = Len(t),
           \A k \in 1 .. Len(s) : s[k] = t[k]
    PROVE  s = t
OBVIOUS

LEMMA PrefixEnds ==
    ASSUME NEW d \in Seq(Bytes)
    PROVE  SubSeq(d, 1, 0) = <<>> /\ SubSeq(d, 1, Len(d)) = d
<1>1. 0 \in 0 .. Len(d) /\ Len(d) \in 0 .. Len(d)
  OBVIOUS
<1>2. SubSeq(d, 1, 0) = <<>>
  <2> DEFINE p == SubSeq(d, 1, 0)
  <2>1. p \in Seq(Bytes) /\ Len(p) = 0
    BY <1>1, PrefixFacts
  <2> HIDE DEF p
  <2>2. p = <<>>
    BY <2>1
  <2> QED
    BY <2>2 DEF p
<1>3. SubSeq(d, 1, Len(d)) = d
  <2> DEFINE p == SubSeq(d, 1, Len(d))
  <2>1. p \in Seq(Bytes) /\ Len(p) = Len(d) /\ \A k \in 1 .. Len(d) : p[k] = d[k]
    BY <1>1, PrefixFacts
  <2> HIDE DEF p
  <2>2. p = d
    BY <2>1, SameBytes
  <2> QED
    BY <2>2 DEF p
<1> QED
  BY <1>2, <1>3

LEMMA PrefixGrows ==
    ASSUME NEW d \in Seq(Bytes), NEW m \in 0 .. Len(d) - 1
    PROVE  Append(SubSeq(d, 1, m), d[m + 1]) = SubSeq(d, 1, m + 1)
<1> DEFINE p == SubSeq(d, 1, m)
           q == SubSeq(d, 1, m + 1)
<1>1. m \in 0 .. Len(d) /\ m + 1 \in 0 .. Len(d) /\ m \in Nat /\ d[m + 1] \in Bytes
  OBVIOUS
<1>2. p \in Seq(Bytes) /\ Len(p) = m /\ \A k \in 1 .. m : p[k] = d[k]
  BY <1>1, PrefixFacts
<1>3. q \in Seq(Bytes) /\ Len(q) = m + 1 /\ \A k \in 1 .. m + 1 : q[k] = d[k]
  BY <1>1, PrefixFacts
<1> HIDE DEF p, q
<1> DEFINE r == Append(p, d[m + 1])
<1>4. /\ r \in Seq(Bytes) /\ Len(r) = m + 1
      /\ \A k \in 1 .. m : r[k] = p[k]
      /\ r[m + 1] = d[m + 1]
  BY <1>1, <1>2
<1> HIDE DEF r
<1>5. \A k \in 1 .. m + 1 : r[k] = q[k]
  <2> SUFFICES ASSUME NEW k \in 1 .. m + 1 PROVE r[k] = q[k]
    OBVIOUS
  <2>1. k \in 1 .. m \/ k = m + 1
    BY <1>1
  <2> QED
    BY <1>2, <1>3, <1>4, <2>1
<1>6. r = q
  BY <1>3, <1>4, <1>5, SameBytes
<1> QED
  BY <1>6 DEF p, q, r

\* A reference to bytes that are the next ones too brings the next ones.
LEMMA CopiedFacts ==
    ASSUME NEW d \in Seq(Bytes), NEW i \in 1 .. Len(d),
           NEW a \in 1 .. i - 1, NEW n \in 1 .. Len(d) - i,
           \A k \in 0 .. n - 1 : d[a + k] = d[i + k]
    PROVE  Copied(SubSeq(d, 1, i - 1), Reference(a, n)) = SubSeq(d, 1, i + n - 1)
<1> DEFINE ref == Reference(a, n)
           out == SubSeq(d, 1, i - 1)
<1>1. Count(ref) = n /\ From(ref) = a /\ n \in Nat /\ a \in Nat /\ i \in Nat /\ Len(d) \in Nat
  BY ReferenceParts
<1> HIDE DEF ref
<1>2. PICK copied : /\ Copied(out, ref) = copied[n]
                    /\ copied[0] = out
                    /\ \A k \in 1 .. n : copied[k] = Copy(copied[k - 1], ref, k)
  <2> HIDE DEF out
  <2>1. Count(ref) \in Nat
    BY <1>1
  <2>2. \E copied : /\ Copied(out, ref) = copied[Count(ref)]
                    /\ copied[0] = out
                    /\ \A k \in 1 .. Count(ref) : copied[k] = Copy(copied[k - 1], ref, k)
    BY <2>1, CopiedSteps
  <2> QED
    BY <1>1, <2>2
<1> DEFINE S == {k \in 0 .. n : copied[k] = SubSeq(d, 1, i - 1 + k)}
<1>3. 0 \in S
  <2>1. i - 1 + 0 = i - 1
    BY <1>1
  <2> QED
    BY <1>1, <1>2, <2>1
<1>4. ASSUME NEW k \in 0 .. n - 1, k \in S PROVE k + 1 \in S
  <2> DEFINE m == i - 1 + k
             p == SubSeq(d, 1, m)
  <2>1. /\ m \in 0 .. Len(d) - 1 /\ m \in 0 .. Len(d) /\ m + 1 = i + k /\ i - 1 + (k + 1) = m + 1
        /\ k + 1 \in 1 .. n /\ (k + 1) - 1 = k /\ a + (k + 1) - 1 = a + k /\ a + k \in 1 .. m
        /\ k + 1 \in 0 .. n
    BY <1>1
  <2>2. copied[k] = p
    BY <1>4
  <2>3. p[a + k] = d[a + k]
    BY <2>1, PrefixFacts
  <2>4. d[a + k] = d[m + 1]
    BY <2>1
  <2>5. Append(p, d[m + 1]) = SubSeq(d, 1, m + 1)
    BY <2>1, PrefixGrows
  <2> HIDE DEF m, p
  <2>6. copied[k + 1] = Append(p, p[a + k])
    BY <1>1, <1>2, <2>1, <2>2 DEF Copy
  <2>7. copied[k + 1] = SubSeq(d, 1, i - 1 + (k + 1))
    BY <2>1, <2>3, <2>4, <2>5, <2>6
  <2> QED
    BY <2>1, <2>7
<1> HIDE DEF S, out
<1>5. 0 .. n \subseteq S
  BY <1>1, <1>3, <1>4, UpTo
<1>6. i - 1 + n = i + n - 1
  BY <1>1
<1>7. copied[n] = SubSeq(d, 1, i + n - 1)
  BY <1>1, <1>5, <1>6 DEF S
<1> QED
  BY <1>2, <1>7 DEF ref, out

-----------------------------------------------------------------------------
(* Chunks *)

ChunkSet == {Byte(b) : b \in Bytes} \cup {Reference(a, n) : a \in Nat, n \in Nat}

\* The chunks of a packet stand for its bytes one after another, each for those from
\* at[j - 1] to before at[j].
Covering(d, chunks, at) ==
    /\ chunks \in Seq(ChunkSet)
    /\ at[0] = 1 /\ at[Len(chunks)] = Len(d) + 1
    /\ \A j \in 1 .. Len(chunks) :
          /\ at[j - 1] \in 1 .. Len(d) /\ chunks[j] = ChunkAt(d, at[j - 1])
          /\ at[j] = at[j - 1] + Advance(d, at[j - 1])

LEMMA NextAt ==
    ASSUME NEW d \in Seq(Bytes), NEW i \in 1 .. Len(d)
    PROVE  /\ ChunkAt(d, i) \in ChunkSet
           /\ i + Advance(d, i) \in i + 1 .. Len(d) + 1
<1>1. CASE ChunkAt(d, i) = Byte(d[i]) /\ Advance(d, i) = 1
  <2>1. d[i] \in Bytes
    OBVIOUS
  <2> QED
    BY <1>1, <2>1 DEF ChunkSet
<1>2. ASSUME NEW a \in 1 .. i - 1, NEW n \in 1 .. Len(d) - i,
             ChunkAt(d, i) = Reference(a, n), Advance(d, i) = n
      PROVE  ChunkAt(d, i) \in ChunkSet /\ i + Advance(d, i) \in i + 1 .. Len(d) + 1
  <2>1. a \in Nat /\ n \in Nat
    OBVIOUS
  <2>2. ChunkAt(d, i) \in ChunkSet
    BY <1>2, <2>1 DEF ChunkSet
  <2>3. i + n \in i + 1 .. Len(d) + 1
    OBVIOUS
  <2> QED
    BY <1>2, <2>2, <2>3
<1> QED
  BY <1>1, <1>2, ChunkFacts

LEMMA ChunksCover ==
    ASSUME NEW d \in Seq(Bytes)
    PROVE  \E at : Covering(d, Chunks(d), at)
<1> DEFINE len == Len(d)
<1>1. len \in Nat
  OBVIOUS
<1>2. PICK cut : /\ Chunks(d) = cut[len].chunks
                 /\ cut[0] = [at |-> 1, chunks |-> <<>>]
                 /\ \A k \in 1 .. len : cut[k] = Cut(d, cut[k - 1])
  BY ChunksSteps
<1> DEFINE at == [j \in 0 .. len |-> cut[j].at]
           Joined(chunks, m) ==
              \A j \in 1 .. m : /\ at[j - 1] \in 1 .. len /\ chunks[j] = ChunkAt(d, at[j - 1])
                                /\ at[j] = at[j - 1] + Advance(d, at[j - 1])
           Good(k, m) == LET c == cut[k] IN
              /\ m \in 0 .. k /\ c.chunks \in Seq(ChunkSet) /\ Len(c.chunks) = m
              /\ c.at \in 1 .. len + 1 /\ at[m] = c.at
              /\ c.at <= len => m = k /\ c.at >= k + 1
              /\ Joined(c.chunks, m)
           S == {k \in 0 .. len : \E m \in 0 .. len : Good(k, m)}
<1>3. \A k \in 0 .. len : at[k] = cut[k].at
  OBVIOUS
<1> HIDE DEF at
<1>4. 0 \in S
  <2>1. cut[0].at = 1 /\ cut[0].chunks = <<>> /\ at[0] = 1
    BY <1>1, <1>2, <1>3
  <2>2. <<>> \in Seq(ChunkSet) /\ Len(<<>>) = 0
    OBVIOUS
  <2>3. Good(0, 0)
    BY <1>1, <2>1, <2>2
  <2> HIDE DEF Good
  <2> QED
    BY <1>1, <2>3
<1>5. ASSUME NEW k \in 0 .. len - 1, k \in S PROVE k + 1 \in S
  <2> DEFINE c == cut[k]
  <2>1. PICK m \in 0 .. len : Good(k, m)
    BY <1>5
  <2>2. /\ k + 1 \in 1 .. len /\ k + 1 \in 0 .. len /\ (k + 1) - 1 = k /\ k \in 0 .. len
        /\ cut[k + 1] = Cut(d, c)
    BY <1>1, <1>2
  <2>3. /\ m \in 0 .. k /\ c.chunks \in Seq(ChunkSet) /\ Len(c.chunks) = m
        /\ c.at \in 1 .. len + 1 /\ at[m] = c.at
        /\ c.at <= len => m = k /\ c.at >= k + 1
        /\ Joined(c.chunks, m)
    BY <2>1
  <2>4. CASE c.at > len
    <3>1. cut[k + 1] = c
      BY <2>2, <2>4 DEF Cut
    <3>2. ~(c.at <= len) /\ m \in 0 .. k + 1
      BY <1>1, <2>3, <2>4
    <3> HIDE DEF Joined
    <3>3. Good(k + 1, m)
      BY <2>3, <3>1, <3>2
    <3> HIDE DEF Good
    <3> QED
      BY <2>2, <3>3
  <2>5. CASE ~(c.at > len)
    <3> DEFINE i == c.at
               e == cut[k + 1]
    <3>1. i \in 1 .. len /\ m = k /\ i >= k + 1
      BY <1>1, <2>3, <2>5
    <3>2. ChunkAt(d, i) \in ChunkSet /\ i + Advance(d, i) \in i + 1 .. len + 1
      BY <3>1, NextAt
    <3>3. e.at = i + Advance(d, i) /\ e.chunks = Append(c.chunks, ChunkAt(d, i))
      BY <2>2, <2>5 DEF Cut
    <3>4. at[k] = i /\ at[k + 1] = e.at
      BY <1>3, <2>2
    <3> HIDE DEF i, c, e
    <3>5. /\ e.chunks \in Seq(ChunkSet) /\ Len(e.chunks) = k + 1
          /\ \A j \in 1 .. k : e.chunks[j] = c.chunks[j]
          /\ e.chunks[k + 1] = ChunkAt(d, i)
      BY <2>2, <2>3, <3>1, <3>2, <3>3
    <3>6. e.at \in 1 .. len + 1 /\ e.at >= k + 2
      BY <1>1, <3>1, <3>2, <3>3
    <3>7. ASSUME NEW j \in 1 .. k + 1
          PROVE  /\ at[j - 1] \in 1 .. len /\ e.chunks[j] = ChunkAt(d, at[j - 1])
                 /\ at[j] = at[j - 1] + Advance(d, at[j - 1])
      <4>1. CASE j \in 1 .. k
        BY <2>3, <3>1, <3>5, <4>1
      <4>2. CASE j = k + 1
        BY <2>2, <3>1, <3>3, <3>4, <3>5, <4>2
      <4> QED
        BY <2>2, <4>1, <4>2
    <3>8. Joined(e.chunks, k + 1)
      BY <3>7
    <3> HIDE DEF Joined
    <3>9. Good(k + 1, k + 1)
      BY <1>1, <2>2, <3>4, <3>5, <3>6, <3>8 DEF e
    <3> HIDE DEF Good
    <3> QED
      BY <2>2, <3>9
  <2> QED
    BY <2>4, <2>5
<1> HIDE DEF S
<1>6. len \in S
  <2> HIDE DEF len
  <2>1. \A k \in 0 .. len - 1 : k \in S => k + 1 \in S
    BY <1>5
  <2>2. 0 .. len \subseteq S
    BY <1>1, <1>4, <2>1, UpTo
  <2> QED
    BY <1>1, <2>2
<1>7. PICK m \in 0 .. len : Good(len, m)
  BY <1>6 DEF S
<1>8. cut[len].at = len + 1
  BY <1>1, <1>7
<1>9. at[0] = 1
  BY <1>1, <1>2, <1>3
<1>10. Covering(d, Chunks(d), at)
  BY <1>2, <1>7, <1>8, <1>9 DEF Covering
<1> QED
  BY <1>10

-----------------------------------------------------------------------------
(* Masks *)

\* A mask stands before every group, and the terminator at the end.
LEMMA GroupedAt ==
    ASSUME NEW cs \in Seq(ChunkSet)
    PROVE  LET data == Grouped(cs)
               len  == Len(cs)
           IN  /\ Len(data) \in Nat
               /\ \A g \in Nat : g * GroupSize <= len =>
                     /\ g * GroupSize + g + 1 \in 1 .. Len(data)
                     /\ data[g * GroupSize + g + 1] = Mask(References(cs, g))
               /\ \A g \in Nat, k \in 1 .. GroupSize : g * GroupSize + k <= len =>
                     /\ g * GroupSize + g + k + 1 \in 1 .. Len(data)
                     /\ data[g * GroupSize + g + k + 1] = cs[g * GroupSize + k]
               /\ \A g \in Nat, r \in 0 .. GroupSize - 1 : len = g * GroupSize + r =>
                     /\ Len(data) = g * GroupSize + g + r + 2
                     /\ data[Len(data)] = Terminator
<1> DEFINE data == Grouped(cs)
           len == Len(cs)
           groups == len \div GroupSize
           rest == len % GroupSize
           width == GroupSize + 1
           last == len + groups + 2
           Group(j) == (j - 1) \div width
           Place(j) == (j - 1) % width
<1>1. GroupSize \in Nat \ {0} /\ len \in Nat
  BY CompressionAssumption
<1>2. groups \in Nat /\ rest \in 0 .. GroupSize - 1 /\ len = GroupSize * groups + rest
  BY <1>1, DivMod
<1>3. /\ Len(data) = last
      /\ \A j \in 1 .. last :
            data[j] = IF j = last THEN Terminator
                      ELSE IF Place(j) = 0 THEN Mask(References(cs, Group(j)))
                      ELSE cs[Group(j) * GroupSize + Place(j)]
  <2> DEFINE at(j) == IF j = last THEN Terminator
                      ELSE IF Place(j) = 0 THEN Mask(References(cs, Group(j)))
                      ELSE cs[Group(j) * GroupSize + Place(j)]
  <2>1. data = [j \in 1 .. last |-> at(j)]
    BY DEF Grouped
  <2> HIDE DEF at, data
  <2>2. last \in Nat
    BY <1>1, <1>2
  <2> HIDE DEF last
  <2>3. Len(data) = last
    BY <2>1, <2>2
  <2>4. \A j \in 1 .. last : data[j] = at(j)
    BY <2>1
  <2> QED
    BY <2>3, <2>4 DEF at
<1> HIDE DEF data, groups, rest, len
<1>4. ASSUME NEW g \in Nat, NEW k \in 0 .. GroupSize, g * GroupSize + k <= len
      PROVE  LET j == g * GroupSize + g + k + 1
             IN  j \in 1 .. last - 1 /\ Group(j) = g /\ Place(j) = k
  <2> DEFINE b == g * GroupSize
             j == b + g + k + 1
  <2>1. b \in Nat
    BY <1>1
  <2>2. g <= groups
    <3> SUFFICES ASSUME g >= groups + 1 PROVE FALSE
      BY <1>2
    <3>1. g * GroupSize >= (groups + 1) * GroupSize
      BY <1>1, <1>2
    <3>2. (groups + 1) * GroupSize = GroupSize * groups + GroupSize
      BY <1>1, <1>2
    <3> QED
      BY <1>1, <1>2, <1>4, <2>1, <3>1, <3>2
  <2>3. j \in 1 .. last - 1
    <3> HIDE DEF b
    <3> QED
      BY <1>1, <1>2, <1>4, <2>1, <2>2 DEF b
  <2>4. j - 1 = width * g + k
    BY <1>1
  <2>5. width \in Nat \ {0} /\ k \in 0 .. width - 1
    BY <1>1
  <2>6. (width * g + k) % width = k /\ (width * g + k) \div width = g
    <3> HIDE DEF width
    <3> QED
      BY <2>5, DivModOf
  <2> QED
    BY <2>3, <2>4, <2>6
<1> HIDE DEF Group, Place, last
<1>5. ASSUME NEW g \in Nat, g * GroupSize <= len
      PROVE  /\ g * GroupSize + g + 1 \in 1 .. Len(data)
             /\ data[g * GroupSize + g + 1] = Mask(References(cs, g))
  <2> DEFINE j == g * GroupSize + g + 0 + 1
  <2>1. 0 \in 0 .. GroupSize /\ g * GroupSize + 0 <= len /\ g * GroupSize + g + 1 = j
    BY <1>1, <1>5
  <2>2. j \in 1 .. last - 1 /\ Group(j) = g /\ Place(j) = 0
    BY <1>4, <2>1
  <2>3. last \in Nat
    BY <1>1, <1>2 DEF last
  <2> HIDE DEF j
  <2>4. j \in 1 .. last /\ j # last
    BY <2>2, <2>3
  <2>5. data[j] = Mask(References(cs, g))
    BY <1>3, <2>2, <2>4
  <2> QED
    BY <1>3, <2>1, <2>4, <2>5
<1>6. ASSUME NEW g \in Nat, NEW k \in 1 .. GroupSize, g * GroupSize + k <= len
      PROVE  /\ g * GroupSize + g + k + 1 \in 1 .. Len(data)
             /\ data[g * GroupSize + g + k + 1] = cs[g * GroupSize + k]
  <2> DEFINE j == g * GroupSize + g + k + 1
  <2>1. k \in 0 .. GroupSize /\ k # 0
    BY <1>1
  <2>2. j \in 1 .. last - 1 /\ Group(j) = g /\ Place(j) = k
    BY <1>4, <1>6, <2>1
  <2>3. last \in Nat
    BY <1>1, <1>2 DEF last
  <2> HIDE DEF j
  <2>4. j \in 1 .. last /\ j # last
    BY <2>2, <2>3
  <2>5. data[j] = cs[g * GroupSize + k]
    BY <1>3, <2>1, <2>2, <2>4
  <2> QED
    BY <1>3, <2>4, <2>5 DEF j
<1>7. ASSUME NEW g \in Nat, NEW r \in 0 .. GroupSize - 1, len = g * GroupSize + r
      PROVE  Len(data) = g * GroupSize + g + r + 2 /\ data[Len(data)] = Terminator
  <2>1. g = groups
    <3>1. (GroupSize * g + r) \div GroupSize = g
      BY <1>1, DivModOf
    <3>2. GroupSize * g + r = len
      BY <1>1, <1>7
    <3> QED
      BY <3>1, <3>2 DEF groups
  <2>2. last = g * GroupSize + g + r + 2 /\ last \in 1 .. last
    BY <1>1, <1>2, <1>7, <2>1 DEF last
  <2> QED
    BY <1>3, <2>2
<1>8. Len(data) \in Nat
  BY <1>1, <1>2, <1>3 DEF last
<1> QED
  BY <1>5, <1>6, <1>7, <1>8 DEF data, len

-----------------------------------------------------------------------------
(* Decompression *)

State(out, mask, left) == [out |-> out, mask |-> mask, left |-> left, done |-> FALSE]

LEMMA ReadCases ==
    ASSUME NEW out, NEW mask, NEW left
    PROVE  /\ \A m : Read(State(out, mask, 0), Mask(m)) = State(out, m, GroupSize)
           /\ left # 0 =>
                 /\ \A b : GroupSize - left \notin mask =>
                       Read(State(out, mask, left), Byte(b)) = State(Append(out, b), mask, left - 1)
                 /\ \A c : GroupSize - left \in mask /\ From(c) # 0 =>
                       Read(State(out, mask, left), c) = State(Copied(out, c), mask, left - 1)
                 /\ \A c : GroupSize - left \in mask /\ From(c) = 0 =>
                       /\ Read(State(out, mask, left), c).done
                       /\ Read(State(out, mask, left), c).out = out
<1>1. ASSUME NEW m PROVE Read(State(out, mask, 0), Mask(m)) = State(out, m, GroupSize)
  BY DEF Read, State, Mask
<1>2. ASSUME left # 0, NEW b, GroupSize - left \notin mask
      PROVE  Read(State(out, mask, left), Byte(b)) = State(Append(out, b), mask, left - 1)
  BY <1>2 DEF Read, State, Byte
<1>3. ASSUME left # 0, NEW c, GroupSize - left \in mask, From(c) # 0
      PROVE  Read(State(out, mask, left), c) = State(Copied(out, c), mask, left - 1)
  BY <1>3 DEF Read, State
<1>4. ASSUME left # 0, NEW c, GroupSize - left \in mask, From(c) = 0
      PROVE  /\ Read(State(out, mask, left), c).done
             /\ Read(State(out, mask, left), c).out = out
  BY <1>4 DEF Read, State
<1> QED
  BY <1>1, <1>2, <1>3, <1>4

\* What Decompress makes of the chunks of a packet is the packet.
LEMMA DecompressChunks ==
    ASSUME NEW d \in Seq(Bytes), NEW cs, NEW at, Covering(d, cs, at)
    PROVE  Decompress([code |-> 4, data |-> Grouped(cs)]) = [code |-> 3, data |-> d]
<1> DEFINE data == Grouped(cs)
           len == Len(cs)
           out(n) == SubSeq(d, 1, at[n] - 1)
<1>1. /\ cs \in Seq(ChunkSet) /\ len \in Nat /\ at[0] = 1 /\ at[len] = Len(d) + 1
      /\ GroupSize \in Nat \ {0}
      /\ \A j \in 1 .. len :
            /\ at[j - 1] \in 1 .. Len(d) /\ cs[j] = ChunkAt(d, at[j - 1])
            /\ at[j] = at[j - 1] + Advance(d, at[j - 1])
  BY CompressionAssumption DEF Covering
<1>2. /\ Len(data) \in Nat
      /\ \A g \in Nat : g * GroupSize <= len =>
            /\ g * GroupSize + g + 1 \in 1 .. Len(data)
            /\ data[g * GroupSize + g + 1] = Mask(References(cs, g))
      /\ \A g \in Nat, k \in 1 .. GroupSize : g * GroupSize + k <= len =>
            /\ g * GroupSize + g + k + 1 \in 1 .. Len(data)
            /\ data[g * GroupSize + g + k + 1] = cs[g * GroupSize + k]
      /\ \A g \in Nat, r \in 0 .. GroupSize - 1 : len = g * GroupSize + r =>
            /\ Len(data) = g * GroupSize + g + r + 2
            /\ data[Len(data)] = Terminator
  BY <1>1, GroupedAt
<1> HIDE DEF data
<1>3. PICK read : /\ Decompress([code |-> 4, data |-> data])
                        = [code |-> IF read[Len(data)].done THEN 3 ELSE 4,
                           data |-> read[Len(data)].out]
                  /\ read[0] = [out |-> <<>>, mask |-> {}, left |-> 0, done |-> FALSE]
                  /\ \A k \in 1 .. Len(data) : read[k] = Read(read[k - 1], data[k])
  BY <1>2, DecompressSteps
\* The state when n chunks have been read and the mask for the next one.
<1> DEFINE Before(n, g, r) ==
              /\ n = g * GroupSize + r
              /\ read[g * GroupSize + g + r + 1]
                    = State(out(n), References(cs, g), GroupSize - r)
           S == {n \in 0 .. len : \E g \in Nat, r \in 0 .. GroupSize - 1 : Before(n, g, r)}
<1>4. ASSUME NEW g \in Nat, NEW bytes, NEW m, g * GroupSize <= len,
             read[g * GroupSize + g] = State(bytes, m, 0)
      PROVE  read[g * GroupSize + g + 1] = State(bytes, References(cs, g), GroupSize)
  <2> DEFINE j == g * GroupSize + g
  <2>1. /\ j + 1 \in 1 .. Len(data) /\ (j + 1) - 1 = j
        /\ data[j + 1] = Mask(References(cs, g))
    BY <1>1, <1>2, <1>4
  <2> HIDE DEF j
  <2>2. read[j + 1] = Read(read[j], data[j + 1])
    BY <1>3, <2>1
  <2>3. read[j] = State(bytes, m, 0)
    BY <1>4 DEF j
  <2> QED
    BY <2>1, <2>2, <2>3, ReadCases DEF j
<1>5. 0 \in S
  <2>1. read[0] = State(<<>>, {}, 0) /\ 0 * GroupSize + 0 = 0 /\ 0 * GroupSize <= len
    BY <1>1, <1>3 DEF State
  <2>2. read[0 * GroupSize + 0 + 1] = State(<<>>, References(cs, 0), GroupSize)
    BY <1>4, <2>1
  <2>3. out(0) = <<>>
    <3>1. at[0] - 1 = 0
      BY <1>1
    <3> QED
      BY <3>1, PrefixEnds
  <2> HIDE DEF out
  <2>4. /\ 0 * GroupSize + 0 + 0 + 1 = 0 * GroupSize + 0 + 1 /\ GroupSize - 0 = GroupSize
        /\ 0 = 0 * GroupSize + 0 /\ 0 \in 0 .. GroupSize - 1 /\ 0 \in 0 .. len
    BY <1>1
  <2>5. Before(0, 0, 0)
    BY <2>2, <2>3, <2>4
  <2> HIDE DEF Before
  <2> QED
    BY <2>4, <2>5
<1>6. ASSUME NEW n \in 0 .. len - 1, n \in S PROVE n + 1 \in S
  <2>1. PICK g \in Nat, r \in 0 .. GroupSize - 1 : Before(n, g, r)
    BY <1>6
  <2> DEFINE j == g * GroupSize + g + r + 1
             i == at[n]
             c == cs[n + 1]
             refs == References(cs, g)
             left == GroupSize - r
  <2>2. /\ n + 1 \in 1 .. len /\ n + 1 \in 0 .. len /\ (n + 1) - 1 = n
        /\ r + 1 \in 1 .. GroupSize /\ n + 1 = g * GroupSize + (r + 1)
        /\ left # 0 /\ GroupSize - left = r /\ left - 1 = GroupSize - (r + 1)
    BY <1>1, <2>1
  <2>3. i \in 1 .. Len(d) /\ c = ChunkAt(d, i) /\ at[n + 1] = i + Advance(d, i)
    BY <1>1, <2>2
  <2>4. /\ j + 1 \in 1 .. Len(data) /\ (j + 1) - 1 = j /\ data[j + 1] = c
        /\ j + 1 = g * GroupSize + g + (r + 1) + 1
    <3> DEFINE k == r + 1
    <3>1. k \in 1 .. GroupSize /\ g * GroupSize + k <= len /\ g * GroupSize + k = n + 1
          /\ g * GroupSize + g + k + 1 = j + 1 /\ (j + 1) - 1 = j
      BY <1>1, <2>2
    <3> HIDE DEF k, j
    <3>2. g * GroupSize + g + k + 1 \in 1 .. Len(data)
          /\ data[g * GroupSize + g + k + 1] = cs[g * GroupSize + k]
      BY <1>2, <3>1
    <3> QED
      BY <3>1, <3>2 DEF k
  <2>5. read[j] = State(out(n), refs, left)
    BY <2>1
  <2>6. read[j + 1] = Read(State(out(n), refs, left), c)
    <3> HIDE DEF j, c, out, left, refs
    <3> QED
      BY <1>3, <2>4, <2>5
  <2>7. r \in refs <=> IsReference(c)
    <3>1. g * GroupSize + r + 1 = n + 1 /\ ~(n + 1 > len) /\ r \in 0 .. GroupSize - 1
      BY <1>1, <2>2
    <3> QED
      BY <3>1 DEF References
  <2> HIDE DEF j, refs, left
  <2>8. read[j + 1] = State(out(n + 1), refs, left - 1)
    <3>1. CASE c = Byte(d[i]) /\ ~IsReference(c) /\ Advance(d, i) = 1
      <4>1. read[j + 1] = State(Append(out(n), d[i]), refs, left - 1)
        <5> HIDE DEF out, c
        <5> QED
          BY <2>2, <2>6, <2>7, <3>1, ReadCases
      <4>2. out(n + 1) = Append(out(n), d[i])
        <5>1. i - 1 \in 0 .. Len(d) - 1 /\ (i - 1) + 1 = i /\ at[n + 1] - 1 = i
          BY <2>3, <3>1
        <5> HIDE DEF i
        <5>2. Append(SubSeq(d, 1, i - 1), d[i]) = SubSeq(d, 1, i)
          BY <5>1, PrefixGrows
        <5> QED
          BY <5>1, <5>2 DEF i
      <4> QED
        BY <4>1, <4>2
    <3>2. ASSUME NEW a \in 1 .. i - 1, NEW m \in 1 .. Len(d) - i,
                 c = Reference(a, m), IsReference(c), Advance(d, i) = m,
                 \A k \in 0 .. m - 1 : d[a + k] = d[i + k]
          PROVE  read[j + 1] = State(out(n + 1), refs, left - 1)
      <4>1. From(c) # 0
        BY <3>2, ReferenceParts
      <4>2. read[j + 1] = State(Copied(out(n), c), refs, left - 1)
        <5> HIDE DEF out, c
        <5> QED
          BY <2>2, <2>6, <2>7, <3>2, <4>1, ReadCases
      <4>3. Copied(out(n), c) = out(n + 1)
        <5>1. at[n + 1] - 1 = i + m - 1
          BY <2>3, <3>2
        <5> HIDE DEF i
        <5>2. Copied(SubSeq(d, 1, i - 1), Reference(a, m)) = SubSeq(d, 1, i + m - 1)
          BY <2>3, <3>2, CopiedFacts
        <5> QED
          BY <3>2, <5>1, <5>2 DEF i
      <4> QED
        BY <4>2, <4>3
    <3> HIDE DEF out, i, c
    <3> QED
      BY <2>3, <3>1, <3>2, ChunkFacts
  <2>9. CASE r + 1 < GroupSize
    <3>1. r + 1 \in 0 .. GroupSize - 1
      BY <1>1, <2>9
    <3>2. Before(n + 1, g, r + 1)
      BY <2>2, <2>4, <2>8 DEF refs
    <3> HIDE DEF Before
    <3> QED
      BY <2>2, <3>1, <3>2
  <2>10. CASE ~(r + 1 < GroupSize)
    <3>1. /\ r + 1 = GroupSize /\ left - 1 = 0 /\ g + 1 \in Nat
          /\ (g + 1) * GroupSize = g * GroupSize + GroupSize
          /\ (g + 1) * GroupSize + (g + 1) = j + 1
          /\ n + 1 = (g + 1) * GroupSize /\ (g + 1) * GroupSize <= len
          /\ n + 1 = (g + 1) * GroupSize + 0
          /\ (g + 1) * GroupSize + (g + 1) + 0 + 1 = (g + 1) * GroupSize + (g + 1) + 1
          /\ 0 \in 0 .. GroupSize - 1 /\ GroupSize - 0 = GroupSize
      <4>1. r + 1 = GroupSize /\ g + 1 \in Nat /\ 0 \in 0 .. GroupSize - 1 /\ GroupSize - 0 = GroupSize
        BY <1>1, <2>2, <2>10
      <4>2. left - 1 = 0
        BY <1>1, <4>1 DEF left
      <4> DEFINE b == g * GroupSize
                 e == (g + 1) * GroupSize
      <4>3. e = b + GroupSize /\ b \in Nat
        BY <1>1
      <4>4. n + 1 = b + (r + 1) /\ n + 1 <= len
        BY <1>1, <2>2
      <4>5. j = b + g + r + 1
        BY DEF j
      <4> HIDE DEF b, e
      <4>6. e + (g + 1) = j + 1 /\ n + 1 = e /\ e <= len /\ n + 1 = e + 0
            /\ e + (g + 1) + 0 + 1 = e + (g + 1) + 1
        BY <1>1, <4>1, <4>3, <4>4, <4>5
      <4> QED
        BY <4>1, <4>2, <4>3, <4>6 DEF b, e
    <3> DEFINE h == g + 1
    <3>2. read[h * GroupSize + h] = State(out(n + 1), refs, 0)
      BY <2>8, <3>1
    <3> HIDE DEF out
    <3>3. h \in Nat /\ h * GroupSize <= len
      BY <3>1
    <3> HIDE DEF h
    <3>4. read[h * GroupSize + h + 1] = State(out(n + 1), References(cs, h), GroupSize)
      BY <1>4, <3>2, <3>3
    <3>5. Before(n + 1, h, 0)
      BY <3>1, <3>4 DEF h
    <3> HIDE DEF Before
    <3> QED
      BY <2>2, <3>1, <3>3, <3>5
  <2> QED
    BY <2>9, <2>10
<1> HIDE DEF S
<1>7. len \in S
  <2> HIDE DEF len
  <2>1. \A n \in 0 .. len - 1 : n \in S => n + 1 \in S
    BY <1>6
  <2>2. 0 .. len \subseteq S
    BY <1>1, <1>5, <2>1, UpTo
  <2> QED
    BY <1>1, <2>2
<1>8. PICK g \in Nat, r \in 0 .. GroupSize - 1 : Before(len, g, r)
  BY <1>7 DEF S
<1> DEFINE j == g * GroupSize + g + r + 1
           refs == References(cs, g)
           left == GroupSize - r
<1>9. /\ j + 1 = Len(data) /\ j + 1 \in 1 .. Len(data) /\ (j + 1) - 1 = j
      /\ data[j + 1] = Terminator
      /\ left # 0 /\ GroupSize - left = r
  BY <1>1, <1>2, <1>8
<1>10. read[j + 1] = Read(State(out(len), refs, left), Terminator)
  <2>1. read[j] = State(out(len), refs, left)
    BY <1>8
  <2> HIDE DEF j, out, refs, left
  <2> QED
    BY <1>3, <1>9, <2>1
<1>11. r \in refs
  <2>1. g * GroupSize + r + 1 > len
    BY <1>1, <1>8
  <2> QED
    BY <2>1 DEF References
<1>12. From(Terminator) = 0
  BY ReferenceParts DEF Terminator
<1> HIDE DEF refs, left, j
<1>13. read[Len(data)].done /\ read[Len(data)].out = out(len)
  <2> HIDE DEF out
  <2> QED
    BY <1>9, <1>10, <1>11, <1>12, ReadCases
<1>14. out(len) = d
  <2>1. at[len] - 1 = Len(d)
    BY <1>1
  <2> QED
    BY <2>1, PrefixEnds
<1> QED
  BY <1>3, <1>13, <1>14 DEF data

LEMMA CompressedAndBack ==
    ASSUME NEW d \in Seq(Bytes)
    PROVE  /\ Decompress(Compress(d)) = [code |-> 3, data |-> d]
           /\ Compress(d).code \in {3, 4}
<1> DEFINE data == Grouped(Chunks(d))
<1>1. PICK at : Covering(d, Chunks(d), at)
  BY ChunksCover
<1>2. Decompress([code |-> 4, data |-> data]) = [code |-> 3, data |-> d]
  BY <1>1, DecompressChunks
<1>3. Decompress([code |-> 3, data |-> d]) = [code |-> 3, data |-> d]
  BY DEF Decompress
<1>4. Compress(d) \in {[code |-> 4, data |-> data], [code |-> 3, data |-> d]}
  BY DEF Compress
<1> HIDE DEF data
<1> QED
  BY <1>2, <1>3, <1>4

-----------------------------------------------------------------------------
(* The packets under way *)

CompressionInv ==
    /\ sentPacket \in Seq(Bytes)
    /\ wireAt \in {"Plain", "Compressed", "Received"}
    /\ wire = CASE wireAt = "Plain" -> [code |-> 3, data |-> sentPacket]
                [] wireAt = "Compressed" -> Compress(sentPacket)
                [] wireAt = "Received" -> [code |-> 3, data |-> sentPacket]

LEMMA CompressionInvariant == CompressionSpec => []CompressionInv
<1>1. CompressionInit => CompressionInv
  <2> SUFFICES ASSUME CompressionInit PROVE CompressionInv
    OBVIOUS
  <2>1. sentPacket \in UNION {[1 .. m -> Bytes] : m \in 0 .. MaxBytes}
    BY DEF CompressionInit, BoundedSeq, SeqOf
  <2>2. PICK m \in 0 .. MaxBytes : sentPacket \in [1 .. m -> Bytes]
    BY <2>1
  <2>3. m \in Nat
    BY CompressionAssumption
  <2>4. sentPacket \in Seq(Bytes)
    BY <2>2, <2>3
  <2> QED
    BY <2>4 DEF CompressionInit, CompressionInv
<1>2. CompressionInv /\ [CompressionNext]_compressionVars => CompressionInv'
  <2> SUFFICES ASSUME CompressionInv, [CompressionNext]_compressionVars PROVE CompressionInv'
    OBVIOUS
  <2>1. CASE SendCompressed
    BY <2>1 DEF SendCompressed, CompressionInv
  <2>2. CASE Receive
    <3>1. wire' = Decompress(Compress(sentPacket)) /\ sentPacket' = sentPacket
          /\ wireAt' = "Received" /\ sentPacket \in Seq(Bytes)
      BY <2>2 DEF Receive, CompressionInv
    <3>2. wire' = [code |-> 3, data |-> sentPacket]
      BY <3>1, CompressedAndBack
    <3> QED
      BY <3>1, <3>2 DEF CompressionInv
  <2>3. CASE UNCHANGED compressionVars
    BY <2>3 DEF compressionVars, CompressionInv
  <2> QED
    BY <2>1, <2>2, <2>3 DEF CompressionNext
<1> QED
  BY <1>1, <1>2, PTL DEF CompressionSpec

\* The variables of a packet under way keep their types, for every format.
THEOREM CompressionTypeInvariant == CompressionSpec => []CompressionTypeOK
<1>1. CompressionInv => CompressionTypeOK
  BY CompressedAndBack DEF CompressionInv, CompressionTypeOK
<1> QED
  BY <1>1, CompressionInvariant, PTL

\* Compress and Decompress are inverse (RoundTrip): whatever the bytes, however long the
\* packet, and for every size of a group, of the length field and of the part compressed.
THEOREM RoundTripHolds == CompressionSpec => []RoundTrip
<1>1. CompressionInv => RoundTrip
  BY DEF CompressionInv, RoundTrip
<1> QED
  BY <1>1, CompressionInvariant, PTL
=============================================================================
