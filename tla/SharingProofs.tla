---------------------------- MODULE SharingProofs ---------------------------
(***************************************************************************)
(* That the delay on shared structures does what its settings say, for any *)
(* table of units, any allowance and window, and any number of games; and  *)
(* that the split of a surplus is the fairest there is, whatever the       *)
(* players have and however many there are.                                *)
(*                                                                         *)
(* The second rests on facts about sums (Total adds up a finite function   *)
(* in any order) and on the order in which receivers are taken.  A round   *)
(* of WaterFill caps those whose room is no more than an equal share, and  *)
(* the share of the next is no less.                                       *)
(***************************************************************************)
EXTENDS ShareGuard, ShareSplit, FiniteSetTheorems, DataLemmas, TLAPS

\* Within a game the guard's clock is the engine's, and what it holds is of that
\* game; what it holds before the first tick is dropped at that tick.
ClockInv ==
    /\ shareTime > 0 => lastTick = shareTime
    /\ shareTime > 0 => \A i \in DOMAIN held : held[i].game = game
    /\ shareTime = 0 => immediate = {}
    /\ shareTime = 0 => lastTick >= 2 \/ (lastTick = 0 /\ held = <<>>)

\* The window remembers what went through without delay and still counts.
WindowInv ==
    /\ IsFiniteSet(windowLog)
    /\ \A r \in immediate :
          r.tick <= shareTime /\ (shareTime - r.tick < Window => r \in windowLog)

\* Blocks are held in the order in which they fall due.
DelayInv ==
    \A i \in DOMAIN held :
        /\ held[i].due <= lastTick + Window
        /\ \A j \in DOMAIN held : i <= j => held[i].due <= held[j].due

ShareInv == ShareTypeOK /\ ClockInv /\ WindowInv /\ DelayInv /\ FreeAllowance

-----------------------------------------------------------------------------
(* Lemmas about the operators *)

LEMMA HandedIsReleased ==
    ASSUME NEW blocks, NEW due, NEW q \in Handed(blocks, due)
    PROVE  \E i \in due : q \in blocks[i].units /\ Releases(q)
BY DEF Handed, Released

\* What is given away has a new owner; the rest is as it was.
LEMMA GivenSlot ==
    ASSUME NEW handed \in SUBSET Entry, ShareTypeOK, NEW s \in Slots
    PROVE  /\ Given(handed)[s] \in Unit
           /\ Given(handed)[s].id = unitAt[s].id
           /\ (\A q \in handed : q.slot # s) => Given(handed)[s] = unitAt[s]
           /\ (\E q \in handed : q.slot = s) =>
                 \E q \in handed : q.slot = s /\ Given(handed)[s].owner = q.target
<1>1. unitAt[s] \in Unit
  BY DEF ShareTypeOK
<1>2. CASE \E q \in handed : q.slot = s
  <2> DEFINE p == CHOOSE q \in handed : q.slot = s
  <2>1. p \in handed /\ p.slot = s
    BY <1>2
  <2>2. p.target \in Players
    BY <2>1 DEF Entry, Players
  <2>3. Given(handed)[s] = [unitAt[s] EXCEPT !.owner = p.target]
    BY <1>2 DEF Given
  <2> HIDE DEF p
  <2> QED
    BY <1>1, <1>2, <2>1, <2>2, <2>3 DEF Unit
<1>3. CASE ~ \E q \in handed : q.slot = s
  BY <1>1, <1>3 DEF Given
<1> QED
  BY <1>2, <1>3

LEMMA GivenType ==
    ASSUME NEW handed \in SUBSET Entry, ShareTypeOK
    PROVE  Given(handed) \in [Slots -> Unit]
<1>1. \A s \in Slots : Given(handed)[s] \in Unit
  BY GivenSlot
<1>2. Given(handed) = [s \in Slots |-> Given(handed)[s]]
  BY DEF Given
<1> QED
  BY <1>1, <1>2

LEMMA LoggedType ==
    ASSUME NEW handed \in SUBSET Entry, ShareTypeOK, NEW now \in Nat
    PROVE  Logged(handed, now) \subseteq Release
BY DEF Logged, Release, ShareTypeOK, Entry, Unit

LEMMA HeldStillType ==
    ASSUME ShareTypeOK, NEW now \in Nat
    PROVE  /\ HeldStill(now) \in Seq(Block)
           /\ \A i \in DOMAIN HeldStill(now) : HeldStill(now)[i] \in Block
BY DEF HeldStill, ShareTypeOK

LEMMA PrunedType ==
    ASSUME ShareTypeOK, NEW now \in Nat
    PROVE  Pruned(now) \subseteq windowLog
BY DEF Pruned, Recent

LEMMA HandedType ==
    ASSUME NEW blocks \in Seq(Block), NEW due \in SUBSET DOMAIN blocks
    PROVE  Handed(blocks, due) \subseteq Entry
<1> SUFFICES ASSUME NEW q \in Handed(blocks, due) PROVE q \in Entry
    OBVIOUS
<1>1. PICK i \in due : q \in blocks[i].units
  BY HandedIsReleased
<1>2. blocks[i] \in Block
  OBVIOUS
<1> QED
  BY <1>1, <1>2 DEF Block

\* The blocks that are due are the first few: the loop stops at the first other.
LEMMA DuePrefix ==
    ASSUME NEW blocks \in Seq(Block), NEW now \in Nat,
           \A i, j \in DOMAIN blocks : i <= j => blocks[i].due <= blocks[j].due
    PROVE  /\ DueBlocks(blocks, now) = {i \in DOMAIN blocks : blocks[i].due <= now}
           /\ Cardinality(DueBlocks(blocks, now)) \in 0 .. Len(blocks)
           /\ DueBlocks(blocks, now) = 1 .. Cardinality(DueBlocks(blocks, now))
<1> DEFINE due == DueBlocks(blocks, now)
<1>0. \A i \in DOMAIN blocks : blocks[i].due \in Nat
  <2>1. \A i \in DOMAIN blocks : blocks[i] \in Block
    OBVIOUS
  <2> QED
    BY <2>1 DEF Block
<1>1. due = {i \in DOMAIN blocks : blocks[i].due <= now}
  <2>1. ASSUME NEW i \in DOMAIN blocks, blocks[i].due <= now PROVE i \in due
    <3>1. ASSUME NEW j \in 1 .. i PROVE blocks[j].due <= now
      BY <1>0, <2>1
    <3> QED
      BY <3>1 DEF DueBlocks
  <2>2. ASSUME NEW i \in due PROVE i \in DOMAIN blocks /\ blocks[i].due <= now
    BY DEF DueBlocks
  <2> QED
    BY <2>1, <2>2 DEF DueBlocks
<1>2. PICK n \in 0 .. Len(blocks) : due = 1 .. n
  <2>1. CASE due = DOMAIN blocks
    BY <2>1
  <2>2. CASE due # DOMAIN blocks
    <3> DEFINE T == DOMAIN blocks \ due
    <3>1. PICK k \in T : \A j \in T : ~(j < k)
      <4>1. T \subseteq Nat
        OBVIOUS
      <4>2. T # {}
        BY <1>1, <2>2
      <4>3. PICK k \in T : \A j \in T : k <= j
        BY <4>1, <4>2, LeastNumber
      <4> QED
        BY <4>1, <4>3
    <3>2. k - 1 \in 0 .. Len(blocks)
      OBVIOUS
    <3>3. due = 1 .. (k - 1)
      <4>1. ASSUME NEW i \in 1 .. (k - 1) PROVE i \in due
        BY <3>1
      <4>2. ASSUME NEW i \in due PROVE i \in 1 .. (k - 1)
        BY <1>1, <1>0, <3>1
      <4> QED
        BY <4>1, <4>2
    <3> QED
      BY <3>2, <3>3
  <2> QED
    BY <2>1, <2>2
<1>3. Cardinality(due) = n
  BY <1>2, FS_Interval
<1> QED
  BY <1>1, <1>2, <1>3

-----------------------------------------------------------------------------
(* Types *)

LEMMA FreshType ==
    ASSUME NEW type \in [Slots -> BuildingTypes], NEW count \in Nat
    PROVE  Fresh(type, count) \in [Slots -> Unit]
<1>1. ASSUME NEW s \in Slots
      PROVE  [id |-> count + s, type |-> type[s], owner |-> Me, alive |-> TRUE] \in Unit
  BY DEF Unit, Players, Slots
<1> QED
  BY <1>1 DEF Fresh

LEMMA ShareTypeInit == ShareInit => ShareTypeOK
<1> SUFFICES ASSUME ShareInit PROVE ShareTypeOK
    OBVIOUS
<1>1. unitAt \in [Slots -> Unit]
  BY FreshType DEF ShareInit
<1> QED
  BY <1>1, ShareAssumption DEF ShareInit, ShareTypeOK

\* The block that a share makes, and what of it is released at once.
ShareBlock(S, target) == {[slot |-> s, type |-> unitAt[s].type, target |-> target] : s \in S}

LEMMA BlockType ==
    ASSUME ShareTypeOK, NEW S \in SUBSET Slots, NEW target \in Allies
    PROVE  /\ ShareBlock(S, target) \subseteq Entry
           /\ Released(ShareBlock(S, target)) \subseteq Entry
BY DEF ShareBlock, Released, Entry, ShareTypeOK, Unit

\* The two outcomes of a share.
LEMMA ShareCases ==
    ASSUME ShareTypeOK, NEW S \in SUBSET Slots, NEW a \in Allies, Share(S, a)
    PROVE  LET released == Released(ShareBlock(S, a))
           IN  /\ lastTick' = shareTime /\ shareTime > 0
               /\ \/ /\ Cardinality(Pruned(shareTime)) + Cardinality(S) <= Allowance
                     /\ unitAt' = Given(released)
                     /\ windowLog' = Pruned(shareTime) \cup Logged(released, shareTime)
                     /\ immediate' = immediate \cup Logged(released, shareTime)
                     /\ held' = HeldStill(shareTime)
                  \/ /\ held' = Append(HeldStill(shareTime),
                          [due |-> shareTime + Window, units |-> ShareBlock(S, a), game |-> game])
                     /\ windowLog' = Pruned(shareTime)
                     /\ UNCHANGED <<unitAt, immediate>>
               /\ UNCHANGED <<shareTime, built, connected, game>>
BY DEF Share, ShareBlock

LEMMA ShareTypeStep == ShareTypeOK /\ [ShareNext]_shareVars => ShareTypeOK'
<1> SUFFICES ASSUME ShareTypeOK, [ShareNext]_shareVars PROVE ShareTypeOK'
    OBVIOUS
<1>0. unitAt \in [Slots -> Unit] /\ shareTime \in Nat /\ built \in Nat
  BY DEF ShareTypeOK
<1>1. ASSUME NEW S \in SUBSET Slots, NEW a \in Allies, Share(S, a) PROVE ShareTypeOK'
  <2> DEFINE released == Released(ShareBlock(S, a))
             block == [due |-> shareTime + Window, units |-> ShareBlock(S, a), game |-> game]
  <2>1. released \subseteq Entry /\ ShareBlock(S, a) \subseteq Entry
    BY BlockType
  <2>2. Given(released) \in [Slots -> Unit] /\ Logged(released, shareTime) \subseteq Release
    BY <2>1, <1>0, GivenType, LoggedType
  <2>3. Pruned(shareTime) \subseteq Release
    BY <1>0, PrunedType DEF ShareTypeOK
  <2>4. block \in Block
    BY <2>1, ShareAssumption DEF Block, ShareTypeOK
  <2>5. held' \in Seq(Block)
    <3> HIDE DEF block
    <3>1. HeldStill(shareTime) \in Seq(Block) /\ Append(HeldStill(shareTime), block) \in Seq(Block)
      BY <1>0, <2>4, HeldStillType
    <3> QED
      BY <1>1, <3>1, ShareCases DEF block
  <2> HIDE DEF released, block
  <2>6. unitAt' \in [Slots -> Unit] /\ windowLog' \subseteq Release /\ immediate' \subseteq Release
    <3> USE DEF released
    <3> QED
      BY <1>1, <1>0, <2>2, <2>3, ShareCases DEF ShareTypeOK
  <2> QED
    BY <1>1, <2>5, <2>6, ShareCases DEF ShareTypeOK
<1>2. CASE ShareTick
  <2> DEFINE now == shareTime + 1
             blocks == HeldStill(now)
             handed == Handed(blocks, DueBlocks(blocks, now))
  <2>0. now \in Nat
    BY <1>0
  <2>1. blocks \in Seq(Block)
    BY <2>0, HeldStillType
  <2>2. handed \subseteq Entry
    BY <2>1, HandedType DEF DueBlocks
  <2>3. Given(handed) \in [Slots -> Unit] /\ Logged(handed, now) \subseteq Release
    BY <2>0, <2>2, GivenType, LoggedType
  <2>4. Pruned(now) \subseteq Release
    BY <2>0, PrunedType DEF ShareTypeOK
  <2>5. held' \in Seq(Block)
    <3>1. SubSeq(blocks, Cardinality(DueBlocks(blocks, now)) + 1, Len(blocks)) \in Seq(Block)
      <4>1. Cardinality(DueBlocks(blocks, now)) \in Nat
        <5>1. IsFiniteSet(1 .. Len(blocks)) /\ DueBlocks(blocks, now) \in SUBSET (1 .. Len(blocks))
          BY <2>1, FS_Interval DEF DueBlocks
        <5> QED
          BY <5>1, FS_Subset, FS_CardinalityType
      <4> HIDE DEF blocks
      <4> QED
        BY <2>1, <4>1
    <3> QED
      BY <1>2, <3>1 DEF ShareTick
  <2>6. /\ unitAt' = Given(handed) /\ windowLog' = Pruned(now) \cup Logged(handed, now)
        /\ shareTime' = now /\ lastTick' = now
        /\ UNCHANGED <<built, connected, game, immediate>>
    BY <1>2 DEF ShareTick
  <2> HIDE DEF now, handed
  <2> QED
    BY <2>0, <2>3, <2>4, <2>5, <2>6 DEF ShareTypeOK
<1>3. ASSUME NEW s \in Slots, Dies(s) PROVE ShareTypeOK'
  <2>1. unitAt[s] \in Unit
    BY <1>0
  <2>2. [unitAt[s] EXCEPT !.alive = FALSE] \in Unit
    BY <2>1 DEF Unit
  <2>3. unitAt' \in [Slots -> Unit]
    BY <1>0, <1>3, <2>2 DEF Dies
  <2> QED
    BY <1>3, <2>3 DEF Dies, ShareTypeOK
<1>4. ASSUME NEW s \in Slots, NEW type \in BuildingTypes, NEW player \in Players,
             Recycled(s, type, player)
      PROVE  ShareTypeOK'
  <2>1. [id |-> built + 1, type |-> type, owner |-> player, alive |-> TRUE] \in Unit
    BY <1>0 DEF Unit
  <2>2. unitAt' \in [Slots -> Unit]
    BY <1>0, <1>4, <2>1 DEF Recycled
  <2> QED
    BY <1>0, <1>4, <2>2 DEF Recycled, ShareTypeOK
<1>5. ASSUME NEW a \in Allies, AllyLeaves(a) PROVE ShareTypeOK'
  BY <1>5 DEF AllyLeaves, ShareTypeOK
<1>6. CASE NewGame
  <2>1. unitAt' \in [Slots -> Unit]
    BY <1>0, <1>6, FreshType DEF NewGame
  <2> QED
    BY <1>6, <1>0, <2>1, ShareAssumption DEF NewGame, ShareTypeOK
<1>7. CASE UNCHANGED shareVars
  BY <1>7 DEF shareVars, ShareTypeOK
<1> QED
  BY <1>1, <1>2, <1>3, <1>4, <1>5, <1>6, <1>7 DEF ShareNext

-----------------------------------------------------------------------------
(* The guard's clock and what it holds *)

\* In the course of a game nothing is dropped.
LEMMA StillHeld ==
    ASSUME ShareTypeOK, ClockInv, NEW S \in SUBSET Slots, NEW a \in Allies, Share(S, a)
    PROVE  /\ HeldStill(shareTime) = held /\ lastTick = shareTime
           /\ Pruned(shareTime) = Recent(windowLog, shareTime)
BY DEF Share, HeldStill, Pruned, ClockWentBack, ClockInv, ShareTypeOK

\* The first tick of a game drops what the last game left.
LEMMA TickDrops ==
    ASSUME ShareTypeOK, ClockInv, ShareTick
    PROVE  /\ shareTime = 0 => HeldStill(shareTime + 1) = <<>>
           /\ shareTime > 0 => HeldStill(shareTime + 1) = held
BY DEF HeldStill, ClockWentBack, ClockInv, ShareTypeOK

LEMMA RestOfSequence ==
    ASSUME NEW T, NEW seq \in Seq(T), NEW k \in 0 .. Len(seq)
    PROVE  LET rest == SubSeq(seq, k + 1, Len(seq))
           IN  /\ Len(rest) = Len(seq) - k
               /\ DOMAIN rest = 1 .. Len(rest)
               /\ \A i \in DOMAIN rest : rest[i] = seq[i + k]
<1>1. Len(SubSeq(seq, k + 1, Len(seq))) = Len(seq) - k
  OBVIOUS
<1> QED
  BY <1>1

\* What is held after a tick was held before it, and not due.
LEMMA TickHeld ==
    ASSUME ShareTypeOK, ClockInv, DelayInv, ShareTick
    PROVE  LET blocks == HeldStill(shareTime + 1)
               due    == DueBlocks(blocks, shareTime + 1)
           IN  /\ Cardinality(due) \in 0 .. Len(blocks)
               /\ due = 1 .. Cardinality(due)
               /\ due = {i \in DOMAIN blocks : blocks[i].due <= shareTime + 1}
               /\ Len(held') = Len(blocks) - Cardinality(due)
               /\ DOMAIN held' = 1 .. Len(held')
               /\ \A i \in DOMAIN held' : held'[i] = blocks[i + Cardinality(due)]
<1> DEFINE now == shareTime + 1
           blocks == HeldStill(now)
           due == DueBlocks(blocks, now)
<1>0. now \in Nat
  BY DEF ShareTypeOK
<1>1. blocks \in Seq(Block)
  BY <1>0, HeldStillType
<1>2. \A i, j \in DOMAIN blocks : i <= j => blocks[i].due <= blocks[j].due
  BY DEF HeldStill, DelayInv
<1>3. held' = SubSeq(blocks, Cardinality(due) + 1, Len(blocks))
  BY DEF ShareTick
<1> HIDE DEF now, blocks
<1>4. /\ due = {i \in DOMAIN blocks : blocks[i].due <= now}
      /\ Cardinality(due) \in 0 .. Len(blocks)
      /\ due = 1 .. Cardinality(due)
  BY <1>0, <1>1, <1>2, DuePrefix
<1> HIDE DEF due
<1>5. /\ Len(held') = Len(blocks) - Cardinality(due)
      /\ DOMAIN held' = 1 .. Len(held')
      /\ \A i \in DOMAIN held' : held'[i] = blocks[i + Cardinality(due)]
  BY <1>1, <1>3, <1>4, RestOfSequence
<1> QED
  BY <1>4, <1>5 DEF now, blocks, due

LEMMA ClockStep ==
    ShareTypeOK /\ ClockInv /\ DelayInv /\ [ShareNext]_shareVars => ClockInv'
<1> SUFFICES ASSUME ShareTypeOK, ClockInv, DelayInv, [ShareNext]_shareVars PROVE ClockInv'
    OBVIOUS
<1>0. shareTime \in Nat /\ lastTick \in Nat /\ held \in Seq(Block)
  BY DEF ShareTypeOK
<1>1. ASSUME NEW S \in SUBSET Slots, NEW a \in Allies, Share(S, a) PROVE ClockInv'
  <2>1. \A i \in DOMAIN held : held[i].game = game
    BY <1>1 DEF Share, ClockInv
  <2>2. \A i \in DOMAIN held' : held'[i].game = game
    <3> DEFINE block == [due |-> shareTime + Window, units |-> ShareBlock(S, a), game |-> game]
    <3>1. held' = held \/ held' = Append(held, block)
      BY <1>1, StillHeld, ShareCases
    <3>2. block.game = game
      OBVIOUS
    <3> HIDE DEF block
    <3>3. DOMAIN Append(held, block) = DOMAIN held \cup {Len(held) + 1}
      BY <1>0
    <3>4. \A i \in DOMAIN held : Append(held, block)[i] = held[i]
      BY <1>0
    <3>5. Append(held, block)[Len(held) + 1] = block
      BY <1>0
    <3> QED
      BY <1>0, <2>1, <3>1, <3>2, <3>3, <3>4, <3>5
  <2>3. shareTime' = shareTime /\ lastTick' = shareTime /\ shareTime > 0
    BY <1>1, ShareCases
  <2>4. game' = game
    BY <1>1, ShareCases
  <2> QED
    BY <1>0, <2>2, <2>3, <2>4 DEF ClockInv
<1>2. CASE ShareTick
  <2>1. \A i \in DOMAIN held' : held'[i].game = game
    <3>1. CASE shareTime = 0
      BY <1>2, <3>1, TickDrops, TickHeld
    <3>2. CASE shareTime > 0
      <4>1. HeldStill(shareTime + 1) = held
        BY <1>2, <3>2, TickDrops
      <4>2. \A i \in DOMAIN held : held[i].game = game
        BY <3>2 DEF ClockInv
      <4> DEFINE k == Cardinality(DueBlocks(held, shareTime + 1))
      <4>3. /\ k \in 0 .. Len(held) /\ DOMAIN held' = 1 .. Len(held) - k
            /\ \A i \in DOMAIN held' : held'[i] = held[i + k]
        BY <1>2, <4>1, TickHeld
      <4> HIDE DEF k
      <4> QED
        BY <1>0, <4>2, <4>3
    <3> QED
      BY <1>0, <3>1, <3>2
  <2>2. shareTime' = shareTime + 1 /\ lastTick' = shareTime + 1 /\ game' = game
    BY <1>2 DEF ShareTick
  <2> QED
    BY <1>0, <2>1, <2>2 DEF ClockInv
<1>3. ASSUME NEW s \in Slots, Dies(s) PROVE ClockInv'
  BY <1>3 DEF Dies, ClockInv
<1>4. ASSUME NEW s \in Slots, NEW type \in BuildingTypes, NEW player \in Players,
             Recycled(s, type, player)
      PROVE  ClockInv'
  BY <1>4 DEF Recycled, ClockInv
<1>5. ASSUME NEW a \in Allies, AllyLeaves(a) PROVE ClockInv'
  BY <1>5 DEF AllyLeaves, ClockInv
<1>6. CASE NewGame
  BY <1>0, <1>6 DEF NewGame, ClockInv
<1>7. CASE UNCHANGED shareVars
  BY <1>7 DEF shareVars, ClockInv
<1> QED
  BY <1>1, <1>2, <1>3, <1>4, <1>5, <1>6, <1>7 DEF ShareNext

LEMMA DelayStep ==
    ShareTypeOK /\ ClockInv /\ DelayInv /\ [ShareNext]_shareVars => DelayInv'
<1> SUFFICES ASSUME ShareTypeOK, ClockInv, DelayInv, [ShareNext]_shareVars PROVE DelayInv'
    OBVIOUS
<1>0. shareTime \in Nat /\ lastTick \in Nat /\ held \in Seq(Block) /\ Window \in Nat
  BY ShareAssumption DEF ShareTypeOK
<1>a. \A i \in DOMAIN held : held[i].due \in Nat
  <2>1. \A i \in DOMAIN held : held[i] \in Block
    BY <1>0
  <2> QED
    BY <2>1 DEF Block
<1>1. ASSUME NEW S \in SUBSET Slots, NEW a \in Allies, Share(S, a) PROVE DelayInv'
  <2> DEFINE block == [due |-> shareTime + Window, units |-> ShareBlock(S, a), game |-> game]
  <2>1. held' = held \/ held' = Append(held, block)
    BY <1>1, StillHeld, ShareCases
  <2>2. block.due = shareTime + Window
    OBVIOUS
  <2>3. lastTick = shareTime /\ lastTick' = shareTime
    BY <1>1, StillHeld, ShareCases
  <2> HIDE DEF block
  <2>4. CASE held' = held
    BY <1>0, <2>3, <2>4 DEF DelayInv
  <2>5. CASE held' = Append(held, block)
    <3>1. DOMAIN held' = DOMAIN held \cup {Len(held) + 1}
      BY <1>0, <2>5
    <3>2. \A i \in DOMAIN held : held'[i] = held[i] /\ i \in Int /\ i < Len(held) + 1
      BY <1>0, <2>5
    <3>3. held'[Len(held) + 1] = block
      BY <1>0, <2>5
    <3>4. \A i \in DOMAIN held : held[i].due <= shareTime + Window
      BY <2>3 DEF DelayInv
    <3>5. Len(held) + 1 \in Int
      BY <1>0
    <3>6. \A i \in DOMAIN held' : held'[i].due <= shareTime + Window
      BY <1>0, <2>2, <3>1, <3>2, <3>3, <3>4
    <3>7. ASSUME NEW i \in DOMAIN held', NEW j \in DOMAIN held', i <= j
          PROVE  held'[i].due <= held'[j].due
      <4>1. CASE j = Len(held) + 1
        BY <2>2, <3>3, <3>6, <4>1
      <4>2. CASE j \in DOMAIN held
        <5>1. i \in DOMAIN held
          BY <3>1, <3>2, <3>5, <3>7, <4>2
        <5> QED
          BY <3>2, <3>7, <4>2, <5>1 DEF DelayInv
      <4> QED
        BY <3>1, <4>1, <4>2
    <3> QED
      BY <2>3, <3>6, <3>7 DEF DelayInv
  <2> QED
    BY <2>1, <2>4, <2>5
<1>2. CASE ShareTick
  <2>0. lastTick' = shareTime + 1
    BY <1>2 DEF ShareTick
  <2>1. CASE shareTime = 0
    <3>1. held' = <<>> \/ DOMAIN held' = {}
      BY <1>2, <2>1, TickDrops, TickHeld
    <3> QED
      BY <3>1 DEF DelayInv
  <2>2. CASE shareTime > 0
    <3>1. HeldStill(shareTime + 1) = held /\ lastTick = shareTime
      BY <1>2, <2>2, TickDrops DEF ClockInv
    <3> DEFINE k == Cardinality(DueBlocks(held, shareTime + 1))
    <3>2. /\ k \in 0 .. Len(held) /\ DOMAIN held' = 1 .. Len(held) - k
          /\ \A i \in DOMAIN held' : held'[i] = held[i + k]
      BY <1>2, <3>1, TickHeld
    <3> HIDE DEF k
    <3>3. \A i \in DOMAIN held' : i + k \in DOMAIN held
      BY <1>0, <3>2
    <3> QED
      BY <1>0, <1>a, <2>0, <3>1, <3>2, <3>3 DEF DelayInv
  <2> QED
    BY <1>0, <2>1, <2>2
<1>3. ASSUME NEW s \in Slots, Dies(s) PROVE DelayInv'
  BY <1>3 DEF Dies, DelayInv
<1>4. ASSUME NEW s \in Slots, NEW type \in BuildingTypes, NEW player \in Players,
             Recycled(s, type, player)
      PROVE  DelayInv'
  BY <1>4 DEF Recycled, DelayInv
<1>5. ASSUME NEW a \in Allies, AllyLeaves(a) PROVE DelayInv'
  BY <1>5 DEF AllyLeaves, DelayInv
<1>6. CASE NewGame
  BY <1>6 DEF NewGame, DelayInv
<1>7. CASE UNCHANGED shareVars
  BY <1>7 DEF shareVars, DelayInv
<1> QED
  BY <1>1, <1>2, <1>3, <1>4, <1>5, <1>6, <1>7 DEF ShareNext

-----------------------------------------------------------------------------
(* The allowance *)

\* As many releases are logged as slots were released, at most.
LEMMA LoggedBound ==
    ASSUME NEW S \in SUBSET Slots, NEW handed, \A q \in handed : q.slot \in S, NEW now
    PROVE  /\ IsFiniteSet(S) /\ IsFiniteSet(Logged(handed, now))
           /\ Cardinality(Logged(handed, now)) <= Cardinality(S)
<1> DEFINE f == [s \in S |-> [tick |-> now, unit |-> unitAt[s].id]]
           T == {f[s] : s \in S}
<1>1. IsFiniteSet(S)
  <2>1. IsFiniteSet(1 .. MaxSlot)
    BY FS_Interval, ShareAssumption
  <2> QED
    BY <2>1, FS_Subset DEF Slots
<1>2. f \in Surjection(S, T)
  BY DEF Surjection
<1> HIDE DEF f
<1>3. IsFiniteSet(T) /\ Cardinality(T) <= Cardinality(S)
  BY <1>1, <1>2, FS_Surjection
<1>4. Logged(handed, now) \in SUBSET T
  BY DEF Logged, f
<1> HIDE DEF T
<1>5. /\ IsFiniteSet(Logged(handed, now))
      /\ Cardinality(Logged(handed, now)) <= Cardinality(T)
  BY <1>3, <1>4, FS_Subset
<1>6. /\ Cardinality(S) \in Nat /\ Cardinality(T) \in Nat
      /\ Cardinality(Logged(handed, now)) \in Nat
  BY <1>1, <1>3, <1>5, FS_CardinalityType
<1> QED
  BY <1>1, <1>3, <1>5, <1>6

LEMMA ReleasedSlots ==
    ASSUME NEW S, NEW a, NEW q \in Released(ShareBlock(S, a)) PROVE q.slot \in S
BY DEF Released, ShareBlock

\* The window remembers what it has to when the clock moves on.
LEMMA RecentKept ==
    ASSUME ShareTypeOK, WindowInv, NEW now \in Nat, shareTime <= now, NEW r \in immediate,
           now - r.tick < Window
    PROVE  r \in Recent(windowLog, now)
<1>1. r.tick \in Nat
  BY DEF ShareTypeOK, Release
<1>2. shareTime \in Nat /\ Window \in Nat
  BY ShareAssumption DEF ShareTypeOK
<1>3. shareTime - r.tick < Window
  BY <1>1, <1>2
<1>4. r \in windowLog
  BY <1>3 DEF WindowInv
<1> QED
  BY <1>4 DEF Recent

LEMMA WindowStep ==
    ShareTypeOK /\ ClockInv /\ WindowInv /\ [ShareNext]_shareVars => WindowInv'
<1> SUFFICES ASSUME ShareTypeOK, ClockInv, WindowInv, [ShareNext]_shareVars PROVE WindowInv'
    OBVIOUS
<1>0. shareTime \in Nat /\ lastTick \in Nat /\ IsFiniteSet(windowLog)
  BY DEF ShareTypeOK, WindowInv
<1>a. \A r \in immediate : r.tick \in Nat /\ r.tick <= shareTime
  BY DEF WindowInv, ShareTypeOK, Release
<1>1. ASSUME NEW S \in SUBSET Slots, NEW a \in Allies, Share(S, a) PROVE WindowInv'
  <2> DEFINE released == Released(ShareBlock(S, a))
             logged == Logged(released, shareTime)
  <2>1. IsFiniteSet(logged)
    BY LoggedBound, ReleasedSlots
  <2>2. \A r \in logged : r.tick = shareTime
    BY DEF Logged
  <2>3. Pruned(shareTime) = Recent(windowLog, shareTime)
    BY <1>1, StillHeld
  <2>4. IsFiniteSet(Recent(windowLog, shareTime))
    BY <1>0, FS_Subset DEF Recent
  <2>5. \A r \in immediate : shareTime - r.tick < Window => r \in Recent(windowLog, shareTime)
    BY <1>0, RecentKept
  <2>6. \/ windowLog' = Recent(windowLog, shareTime) \cup logged /\ immediate' = immediate \cup logged
        \/ windowLog' = Recent(windowLog, shareTime) /\ immediate' = immediate
    BY <1>1, <2>3, ShareCases
  <2>7. shareTime' = shareTime
    BY <1>1, ShareCases
  <2>8. IsFiniteSet(windowLog')
    BY <2>1, <2>4, <2>6, FS_Union
  <2> HIDE DEF logged
  <2> QED
    BY <1>0, <1>a, <2>2, <2>5, <2>6, <2>7, <2>8 DEF WindowInv
<1>2. CASE ShareTick
  <2> DEFINE now == shareTime + 1
             handed == Handed(HeldStill(now), DueBlocks(HeldStill(now), now))
  <2>1. windowLog' = Pruned(now) \cup Logged(handed, now) /\ shareTime' = now
    BY <1>2 DEF ShareTick
  <2>2. immediate' = immediate
    BY <1>2 DEF ShareTick
  <2>3. IsFiniteSet(Logged(handed, now))
    <3>1. handed \subseteq Entry
      <4>1. HeldStill(now) \in Seq(Block)
        BY <1>0, HeldStillType
      <4> QED
        BY <4>1, HandedType DEF DueBlocks
    <3>2. \A q \in handed : q.slot \in Slots
      BY <3>1 DEF Entry
    <3> HIDE DEF handed
    <3> QED
      BY <3>2, LoggedBound
  <2>4. IsFiniteSet(windowLog')
    <3>1. Pruned(now) \in SUBSET windowLog
      BY <1>0, PrunedType
    <3>2. IsFiniteSet(Pruned(now))
      BY <1>0, <3>1, FS_Subset
    <3> HIDE DEF now, handed
    <3> QED
      BY <2>1, <2>3, <3>2, FS_Union
  <2>5. ASSUME NEW r \in immediate, now - r.tick < Window PROVE r \in windowLog'
    <3>1. shareTime > 0
      BY <1>0 DEF ClockInv
    <3>2. Pruned(now) = Recent(windowLog, now)
      BY <1>0, <3>1 DEF Pruned, ClockWentBack, ClockInv
    <3>3. r \in Recent(windowLog, now)
      BY <1>0, <2>5, RecentKept
    <3> QED
      BY <2>1, <3>2, <3>3
  <2> HIDE DEF handed
  <2> QED
    BY <1>0, <1>a, <2>1, <2>2, <2>4, <2>5 DEF WindowInv
<1>3. ASSUME NEW s \in Slots, Dies(s) PROVE WindowInv'
  BY <1>3 DEF Dies, WindowInv
<1>4. ASSUME NEW s \in Slots, NEW type \in BuildingTypes, NEW player \in Players,
             Recycled(s, type, player)
      PROVE  WindowInv'
  BY <1>4 DEF Recycled, WindowInv
<1>5. ASSUME NEW a \in Allies, AllyLeaves(a) PROVE WindowInv'
  BY <1>5 DEF AllyLeaves, WindowInv
<1>6. CASE NewGame
  BY <1>6 DEF NewGame, WindowInv
<1>7. CASE UNCHANGED shareVars
  BY <1>7 DEF shareVars, WindowInv
<1> QED
  BY <1>1, <1>2, <1>3, <1>4, <1>5, <1>6, <1>7 DEF ShareNext

\* What FreeAllowance counts.
Free(now) == {r \in immediate : now - r.tick < Window}

LEMMA FreeIsFinite ==
    ASSUME ShareTypeOK, WindowInv
    PROVE  IsFiniteSet(Free(shareTime)) /\ Cardinality(Free(shareTime)) \in Nat
<1>1. Free(shareTime) \in SUBSET windowLog
  BY DEF Free, WindowInv
<1>2. IsFiniteSet(Free(shareTime))
  BY <1>1, FS_Subset DEF WindowInv
<1> QED
  BY <1>2, FS_CardinalityType

LEMMA AllowanceStep ==
    ShareInv /\ [ShareNext]_shareVars => FreeAllowance'
<1> SUFFICES ASSUME ShareInv, [ShareNext]_shareVars PROVE FreeAllowance'
    OBVIOUS
<1> USE DEF ShareInv
<1>0. shareTime \in Nat /\ lastTick \in Nat /\ Allowance \in Nat /\ Window \in Nat
  BY ShareAssumption DEF ShareTypeOK
<1>a. IsFiniteSet(Free(shareTime)) /\ Cardinality(Free(shareTime)) <= Allowance
  BY FreeIsFinite DEF FreeAllowance, Free
<1>b. SUFFICES ASSUME shareVars # shareVars' PROVE Cardinality(Free(shareTime)') <= Allowance
  BY <1>a DEF FreeAllowance, Free, shareVars
<1>1. ASSUME NEW S \in SUBSET Slots, NEW a \in Allies, Share(S, a)
      PROVE  Cardinality(Free(shareTime)') <= Allowance
  <2> DEFINE released == Released(ShareBlock(S, a))
             logged == Logged(released, shareTime)
             log == Recent(windowLog, shareTime)
  <2>0. shareTime' = shareTime /\ Pruned(shareTime) = log
    BY <1>1, ShareCases, StillHeld
  <2>1. CASE immediate' = immediate
    BY <1>a, <2>0, <2>1 DEF Free
  <2>2. CASE immediate' = immediate \cup logged /\ Cardinality(log) + Cardinality(S) <= Allowance
    <3>1. IsFiniteSet(log)
      <4>1. log \in SUBSET windowLog
        BY DEF Recent
      <4> QED
        BY <4>1, FS_Subset DEF WindowInv
    <3>2. /\ IsFiniteSet(logged) /\ IsFiniteSet(S)
          /\ Cardinality(logged) <= Cardinality(S)
      BY LoggedBound, ReleasedSlots
    <3>3. Free(shareTime) \subseteq log
      <4> SUFFICES ASSUME NEW r \in Free(shareTime) PROVE r \in log
        OBVIOUS
      <4>1. r \in immediate /\ shareTime - r.tick < Window
        BY DEF Free
      <4> QED
        BY <1>0, <4>1, RecentKept
    <3>4. Free(shareTime)' \in SUBSET (log \cup logged)
      BY <2>0, <2>2, <3>3 DEF Free
    <3> HIDE DEF log, logged
    <3>5. /\ IsFiniteSet(log \cup logged)
          /\ Cardinality(log \cup logged)
                = Cardinality(log) + Cardinality(logged) - Cardinality(log \cap logged)
      BY <3>1, <3>2, FS_Union
    <3>6. IsFiniteSet(log \cap logged)
      BY <3>1, FS_Intersection
    <3>7. /\ IsFiniteSet(Free(shareTime)')
          /\ Cardinality(Free(shareTime)') <= Cardinality(log \cup logged)
      BY <3>4, <3>5, FS_Subset
    <3>8. /\ Cardinality(log) \in Nat /\ Cardinality(logged) \in Nat /\ Cardinality(S) \in Nat
          /\ Cardinality(log \cap logged) \in Nat /\ Cardinality(Free(shareTime)') \in Nat
      BY <3>1, <3>2, <3>6, <3>7, FS_CardinalityType
    <3> QED
      BY <1>0, <2>2, <3>2, <3>5, <3>7, <3>8
  <2> QED
    BY <1>1, <2>0, <2>1, <2>2, ShareCases
<1>2. CASE ShareTick
  <2>1. immediate' = immediate /\ shareTime' = shareTime + 1
    BY <1>2 DEF ShareTick
  <2>2. \A r \in immediate : r.tick \in Nat
    BY DEF ShareTypeOK, Release
  <2>3. Free(shareTime)' \in SUBSET Free(shareTime)
    BY <1>0, <2>1, <2>2 DEF Free
  <2>4. /\ IsFiniteSet(Free(shareTime)')
        /\ Cardinality(Free(shareTime)') <= Cardinality(Free(shareTime))
    BY <1>a, <2>3, FS_Subset
  <2>5. Cardinality(Free(shareTime)') \in Nat /\ Cardinality(Free(shareTime)) \in Nat
    BY <1>a, <2>4, FS_CardinalityType
  <2> QED
    BY <1>0, <1>a, <2>4, <2>5
<1>3. CASE immediate' = immediate /\ shareTime' = shareTime
  BY <1>3, <1>a DEF Free
<1>4. CASE NewGame
  <2>1. Free(shareTime)' = {}
    BY <1>4 DEF NewGame, Free
  <2> QED
    BY <1>0, <2>1, FS_EmptySet
<1> QED
  BY <1>1, <1>2, <1>3, <1>4, <1>b DEF ShareNext, Dies, Recycled, AllyLeaves

-----------------------------------------------------------------------------
(* The theorems *)

\* The guard's clock, window and held blocks stay in step with the engine's game:
\* what the four properties rest on.
THEOREM ShareInvariant == ShareSpec => []ShareInv
<1>1. ShareInit => ShareInv
  <2> SUFFICES ASSUME ShareInit PROVE ShareInv
      OBVIOUS
  <2>1. ClockInv /\ DelayInv
    BY DEF ShareInit, ClockInv, DelayInv
  <2>2. WindowInv
    BY FS_EmptySet DEF ShareInit, WindowInv
  <2>3. FreeAllowance
    <3>1. {r \in immediate : shareTime - r.tick < Window} = {}
      BY DEF ShareInit
    <3> QED
      BY <3>1, FS_EmptySet, ShareAssumption DEF FreeAllowance
  <2> QED
    BY ShareTypeInit, <2>1, <2>2, <2>3 DEF ShareInv
<1>2. ShareInv /\ [ShareNext]_shareVars => ShareInv'
  BY ShareTypeStep, ClockStep, WindowStep, DelayStep, AllowanceStep DEF ShareInv
<1> QED
  BY <1>1, <1>2, PTL DEF ShareSpec

\* The variables of the share guard and of the engine's table keep their types.
THEOREM ShareTypeInvariant == ShareSpec => []ShareTypeOK
BY ShareInvariant, PTL DEF ShareInv

\* In any 30 s no more than the allowance goes through without delay.
THEOREM FreeAllowanceHolds == ShareSpec => []FreeAllowance
BY ShareInvariant, PTL DEF ShareInv

\* Every entry that is handed over at a tick was held, and of a unit that is
\* still there.
LEMMA TickGives ==
    ASSUME ShareTypeOK, ShareTick, NEW s \in Slots, unitAt'[s].owner # unitAt[s].owner
    PROVE  \E i \in DOMAIN HeldStill(shareTime + 1) :
              \E q \in HeldStill(shareTime + 1)[i].units :
                 q.slot = s /\ Releases(q) /\ q.target = unitAt'[s].owner
<1> DEFINE blocks == HeldStill(shareTime + 1)
           due == DueBlocks(blocks, shareTime + 1)
           handed == Handed(blocks, due)
<1>1. shareTime + 1 \in Nat
  BY DEF ShareTypeOK
<1>2. blocks \in Seq(Block)
  BY <1>1, HeldStillType
<1>3. due \subseteq DOMAIN blocks
  BY DEF DueBlocks
<1>4. handed \subseteq Entry
  BY <1>2, <1>3, HandedType
<1>5. unitAt' = Given(handed)
  BY DEF ShareTick
<1> HIDE DEF blocks, due
<1>6. \E q \in handed : q.slot = s
  <2> HIDE DEF handed
  <2> QED
    BY <1>4, <1>5, GivenSlot
<1>7. PICK q \in handed : q.slot = s /\ Given(handed)[s].owner = q.target
  <2> HIDE DEF handed
  <2> QED
    BY <1>4, <1>6, GivenSlot
<1>8. PICK i \in due : q \in blocks[i].units /\ Releases(q)
  BY <1>7, HandedIsReleased
<1> QED
  BY <1>3, <1>5, <1>7, <1>8 DEF blocks

\* No tick hands over a unit that is dead, another player's, or of another type
\* than the one shared under its index.
THEOREM NoForeignGiveHolds == ShareSpec => NoForeignGive
<1>1. ShareTypeOK /\ [ShareNext]_shareVars =>
        [ShareTick => \A s \in Slots : unitAt'[s].owner # unitAt[s].owner =>
           /\ unitAt[s].alive /\ unitAt[s].owner = Me
           /\ \E i \in DOMAIN held : \E q \in held[i].units :
                 q.slot = s /\ q.type = unitAt[s].type /\ q.target = unitAt'[s].owner]_shareVars
  <2> SUFFICES ASSUME ShareTypeOK, ShareTick, NEW s \in Slots,
                      unitAt'[s].owner # unitAt[s].owner
               PROVE  /\ unitAt[s].alive /\ unitAt[s].owner = Me
                      /\ \E i \in DOMAIN held : \E q \in held[i].units :
                            q.slot = s /\ q.type = unitAt[s].type /\ q.target = unitAt'[s].owner
      OBVIOUS
  <2>1. PICK i \in DOMAIN HeldStill(shareTime + 1) :
                \E q \in HeldStill(shareTime + 1)[i].units :
                   q.slot = s /\ Releases(q) /\ q.target = unitAt'[s].owner
    BY TickGives
  <2>2. PICK q \in HeldStill(shareTime + 1)[i].units :
                q.slot = s /\ Releases(q) /\ q.target = unitAt'[s].owner
    BY <2>1
  <2>3. HeldStill(shareTime + 1) = held
    BY <2>1 DEF HeldStill
  <2>4. unitAt[s].alive /\ unitAt[s].owner = Me /\ q.type = unitAt[s].type
    BY <2>2 DEF Releases, Resolves
  <2> QED
    BY <2>1, <2>2, <2>3, <2>4
<1> QED
  BY <1>1, ShareTypeInvariant, PTL DEF ShareSpec, NoForeignGive

\* Nothing held in one game is handed over in another.
THEOREM NoCarryOverHolds == ShareSpec => NoCarryOver
<1>1. ShareInv /\ [ShareNext]_shareVars =>
        [ShareTick => \A s \in Slots : unitAt'[s].owner # unitAt[s].owner =>
           \E i \in DOMAIN held : held[i].game = game
                                  /\ \E q \in held[i].units : q.slot = s]_shareVars
  <2> SUFFICES ASSUME ShareInv, ShareTick, NEW s \in Slots, unitAt'[s].owner # unitAt[s].owner
               PROVE  \E i \in DOMAIN held : held[i].game = game
                                             /\ \E q \in held[i].units : q.slot = s
      OBVIOUS
  <2> USE DEF ShareInv
  <2>1. PICK i \in DOMAIN HeldStill(shareTime + 1) :
                \E q \in HeldStill(shareTime + 1)[i].units :
                   q.slot = s /\ Releases(q) /\ q.target = unitAt'[s].owner
    BY TickGives
  <2>2. shareTime > 0
    BY <2>1, TickDrops DEF ShareTypeOK
  <2>3. HeldStill(shareTime + 1) = held
    BY <2>2, TickDrops
  <2>4. held[i].game = game
    BY <2>1, <2>2, <2>3 DEF ClockInv
  <2> QED
    BY <2>1, <2>3, <2>4
<1> QED
  BY <1>1, ShareInvariant, PTL DEF ShareSpec, NoCarryOver

\* Of several held blocks that name a slot, the first that resolves hands it over.
LEMMA FirstReleases ==
    ASSUME NEW blocks, NEW due \in SUBSET Nat, NEW i \in due, NEW q \in Released(blocks[i].units)
    PROVE  \E p \in Handed(blocks, due) : p.slot = q.slot
<1> DEFINE T == {j \in due : \E p \in Released(blocks[j].units) : p.slot = q.slot}
<1>1. T \in SUBSET Nat /\ T # {}
  OBVIOUS
<1>2. PICK k \in T : \A j \in T : ~(j < k)
  <2> HIDE DEF T
  <2> QED
    BY <1>1, LeastNumber
<1>3. PICK p \in Released(blocks[k].units) : p.slot = q.slot
  BY <1>2
<1>4. \A j \in due : \A r \in Released(blocks[j].units) : r.slot = p.slot => k <= j
  BY <1>1, <1>2, <1>3
<1>5. p \in blocks[k].units /\ k \in due
  BY <1>2, <1>3 DEF Released
<1>6. p \in Handed(blocks, due)
  BY <1>3, <1>4, <1>5 DEF Handed
<1> QED
  BY <1>3, <1>6

\* A held share stays until it is due; then every building in it that is still
\* the giver's changes hands.
THEOREM HeldSharesArriveHolds == ShareSpec => HeldSharesArrive
<1>1. ShareInv /\ [ShareNext]_shareVars =>
        [ShareTick /\ shareTime' >= lastTick =>
           \A i \in DOMAIN held :
              IF held[i].due <= shareTime'
              THEN \A q \in held[i].units : Releases(q) => unitAt'[q.slot].owner # Me
              ELSE held[i] \in {held'[j] : j \in DOMAIN held'}]_shareVars
  <2> SUFFICES ASSUME ShareInv, ShareTick, shareTime' >= lastTick, NEW i \in DOMAIN held
               PROVE  IF held[i].due <= shareTime'
                      THEN \A q \in held[i].units : Releases(q) => unitAt'[q.slot].owner # Me
                      ELSE held[i] \in {held'[j] : j \in DOMAIN held'}
      OBVIOUS
  <2> USE DEF ShareInv
  <2> DEFINE now == shareTime + 1
             due == DueBlocks(held, now)
             handed == Handed(held, due)
             k == Cardinality(due)
  <2>0. shareTime' = now /\ held \in Seq(Block) /\ now \in Nat /\ lastTick \in Nat
    BY DEF ShareTick, ShareTypeOK
  <2>1. HeldStill(now) = held
    BY <2>0 DEF HeldStill, ClockWentBack
  <2>2. /\ k \in 0 .. Len(held) /\ due = 1 .. k
        /\ due = {j \in DOMAIN held : held[j].due <= now}
        /\ DOMAIN held' = 1 .. Len(held) - k
        /\ \A j \in DOMAIN held' : held'[j] = held[j + k]
    BY <2>1, TickHeld
  <2>3. ASSUME held[i].due <= now, NEW q \in held[i].units, Releases(q)
        PROVE  unitAt'[q.slot].owner # Me
    <3>1. i \in due /\ due \in SUBSET Nat
      BY <2>2, <2>3
    <3>2. q \in Released(held[i].units)
      BY <2>3 DEF Released
    <3>3. PICK p \in handed : p.slot = q.slot
      <4> HIDE DEF due
      <4> QED
        BY <3>1, <3>2, FirstReleases
    <3>4. handed \subseteq Entry
      <4>1. due \subseteq DOMAIN held
        BY DEF DueBlocks
      <4> HIDE DEF due
      <4> QED
        BY <2>0, <4>1, HandedType
    <3>5. unitAt' = Given(handed)
      BY <2>1 DEF ShareTick
    <3>6. p.slot \in Slots
      BY <3>3, <3>4 DEF Entry
    <3> HIDE DEF handed
    <3>7. PICK r \in handed : Given(handed)[p.slot].owner = r.target
      BY <3>3, <3>4, <3>6, GivenSlot
    <3>8. r.target \in Allies
      BY <3>4, <3>7 DEF Entry
    <3> QED
      BY <3>3, <3>5, <3>7, <3>8, ShareAssumption
  <2>4. ASSUME ~(held[i].due <= now) PROVE held[i] \in {held'[j] : j \in DOMAIN held'}
    <3> HIDE DEF k
    <3>1. i \notin 1 .. k
      BY <2>2, <2>4
    <3>2. i - k \in DOMAIN held' /\ (i - k) + k = i
      BY <2>0, <2>2, <3>1
    <3>3. held'[i - k] = held[i]
      BY <2>2, <3>2
    <3> QED
      BY <3>2, <3>3
  <2> QED
    BY <2>0, <2>3, <2>4
<1> QED
  BY <1>1, ShareInvariant, PTL DEF ShareSpec, HeldSharesArrive

-----------------------------------------------------------------------------
(* Finite sets and sums *)

\* Induction over the subsets of a finite set, as a fact about a set of them.
LEMMA AllSubsets ==
    ASSUME NEW S, IsFiniteSet(S), NEW P,
           \A T \in SUBSET S : (\A U \in (SUBSET T) \ {T} : U \in P) => T \in P
    PROVE  \A T \in SUBSET S : T \in P
<1> DEFINE bad == {n \in Nat : \E T \in (SUBSET S) \ P : Cardinality(T) = n}
<1> SUFFICES ASSUME NEW B \in SUBSET S, B \notin P PROVE FALSE
  OBVIOUS
<1>1. bad \subseteq Nat /\ bad # {}
  <2>1. Cardinality(B) \in Nat
    BY FS_Subset, FS_CardinalityType
  <2> QED
    BY <2>1
<1>2. PICK n \in bad : \A m \in bad : n <= m
  BY <1>1, LeastNumber
<1>3. PICK T \in (SUBSET S) \ P : Cardinality(T) = n
  BY <1>2
<1>4. ASSUME NEW U \in (SUBSET T) \ {T} PROVE U \in P
  <2>1. IsFiniteSet(T)
    BY FS_Subset
  <2>2. Cardinality(U) \in Nat /\ Cardinality(U) <= n /\ Cardinality(U) # n
    BY <1>3, <2>1, FS_Subset, FS_CardinalityType
  <2>3. Cardinality(U) \notin bad
    BY <1>2, <2>2
  <2> QED
    BY <2>2, <2>3
<1> QED
  BY <1>3, <1>4

\* A function on a part of its domain.
On(g, T) == [i \in T |-> g[i]]

\* The element that Total takes first.
Taken(s) == CHOOSE x \in s : TRUE

\* What Total adds up for each of the sets given.
SumsUp(g, sets, sum) ==
    \A s \in sets : sum[s] = IF s = {} THEN 0 ELSE g[Taken(s)] + sum[s \ {Taken(s)}]

\* The sums exist.
LEMMA SumsExist ==
    ASSUME NEW S, IsFiniteSet(S), NEW g \in [S -> Nat]
    PROVE  \E sum \in [SUBSET S -> Nat] : SumsUp(g, SUBSET S, sum)
<1> DEFINE Small(k) == {s \in SUBSET S : Cardinality(s) <= k}
           P == {k \in Nat : \E sum \in [Small(k) -> Nat] : SumsUp(g, Small(k), sum)}
           n == Cardinality(S)
<1>1. \A s \in SUBSET S : IsFiniteSet(s) /\ Cardinality(s) \in Nat /\ Cardinality(s) <= n
  BY FS_Subset, FS_CardinalityType
<1>2. n \in Nat
  BY FS_CardinalityType
<1>3. \A s \in SUBSET S : s # {} =>
         /\ Taken(s) \in s /\ s \ {Taken(s)} \in SUBSET S
         /\ Cardinality(s \ {Taken(s)}) = Cardinality(s) - 1
  <2> SUFFICES ASSUME NEW s \in SUBSET S, s # {}
               PROVE  /\ Taken(s) \in s /\ s \ {Taken(s)} \in SUBSET S
                      /\ Cardinality(s \ {Taken(s)}) = Cardinality(s) - 1
    OBVIOUS
  <2>1. Taken(s) \in s
    BY DEF Taken
  <2> QED
    BY <1>1, <2>1, FS_RemoveElement
<1>4. 0 \in P
  <2>1. Small(0) = {{}}
    <3>1. {} \in Small(0)
      BY FS_EmptySet
    <3>2. \A s \in Small(0) : s = {}
      BY <1>1, FS_EmptySet
    <3> QED
      BY <3>1, <3>2
  <2> DEFINE sum == [s \in Small(0) |-> 0]
  <2>2. sum \in [Small(0) -> Nat] /\ SumsUp(g, Small(0), sum)
    BY <2>1 DEF SumsUp
  <2> QED
    BY <2>2
<1>5. ASSUME NEW k \in 0 .. n - 1, k \in P PROVE k + 1 \in P
  <2>1. PICK sum \in [Small(k) -> Nat] : SumsUp(g, Small(k), sum)
    BY <1>5
  <2> DEFINE more == [s \in Small(k + 1) |->
                         IF Cardinality(s) <= k THEN sum[s] ELSE g[Taken(s)] + sum[s \ {Taken(s)}]]
  <2>2. \A s \in Small(k + 1) : s # {} => s \ {Taken(s)} \in Small(k)
    BY <1>1, <1>3
  <2>3. \A s \in Small(k) : s \in Small(k + 1) /\ more[s] = sum[s]
    BY <1>1
  <2>4. \A s \in Small(k + 1) : Cardinality(s) > k =>
           s # {} /\ s \notin Small(k) /\ more[s] = g[Taken(s)] + sum[s \ {Taken(s)}]
    BY <1>1, FS_EmptySet
  <2>5. more \in [Small(k + 1) -> Nat]
    <3>1. \A s \in Small(k + 1) : s # {} => Taken(s) \in S
      BY <1>3
    <3> SUFFICES ASSUME NEW s \in Small(k + 1) PROVE more[s] \in Nat
      OBVIOUS
    <3>2. CASE Cardinality(s) <= k
      <4>1. s \in Small(k)
        BY <3>2
      <4> QED
        BY <2>3, <4>1
    <3>3. CASE ~(Cardinality(s) <= k)
      <4>0. Cardinality(s) > k
        BY <1>1, <3>3
      <4>1. s # {} /\ more[s] = g[Taken(s)] + sum[s \ {Taken(s)}]
        BY <2>4, <4>0
      <4>2. g[Taken(s)] \in Nat /\ sum[s \ {Taken(s)}] \in Nat
        BY <2>2, <3>1, <4>1
      <4> HIDE DEF more
      <4> QED
        BY <4>1, <4>2
    <3> QED
      BY <3>2, <3>3
  <2>6. ASSUME NEW s \in Small(k + 1)
        PROVE more[s] = IF s = {} THEN 0 ELSE g[Taken(s)] + more[s \ {Taken(s)}]
    <3>1. CASE s \in Small(k)
      <4>1. sum[s] = IF s = {} THEN 0 ELSE g[Taken(s)] + sum[s \ {Taken(s)}]
        BY <2>1, <3>1 DEF SumsUp
      <4> HIDE DEF more
      <4> QED
        BY <2>2, <2>3, <3>1, <4>1
    <3>2. CASE s \notin Small(k)
      <4>0. Cardinality(s) > k
        BY <1>1, <3>2
      <4>1. s # {} /\ more[s] = g[Taken(s)] + sum[s \ {Taken(s)}]
        BY <2>4, <4>0
      <4>2. s \ {Taken(s)} \in Small(k)
        BY <2>2, <4>1
      <4> HIDE DEF more, Small
      <4> QED
        BY <2>3, <4>1, <4>2
    <3> QED
      BY <3>1, <3>2
  <2> HIDE DEF more
  <2>7. SumsUp(g, Small(k + 1), more)
    BY <2>6 DEF SumsUp
  <2> HIDE DEF Small
  <2> QED
    BY <2>5, <2>7
<1>6. n \in P
  <2> HIDE DEF P, n
  <2>1. 0 .. n \subseteq P
    BY <1>2, <1>4, <1>5, UpTo
  <2> QED
    BY <1>2, <2>1
<1>7. Small(n) = SUBSET S
  BY <1>1
<1> HIDE DEF Small, n
<1> QED
  BY <1>6, <1>7

\* Total is one of the sums.
LEMMA TotalUnfold ==
    ASSUME NEW S, IsFiniteSet(S), NEW g \in [S -> Nat]
    PROVE  \E sum \in [SUBSET S -> Nat] : SumsUp(g, SUBSET S, sum) /\ Total(g) = sum[S]
<1> DEFINE iter[s \in SUBSET S] == IF s = {} THEN 0 ELSE g[Taken(s)] + iter[s \ {Taken(s)}]
           Steps(f) == f = [s \in SUBSET S |-> IF s = {} THEN 0 ELSE g[Taken(s)] + f[s \ {Taken(s)}]]
<1>1. Total(g) = iter[S]
  <2>1. DOMAIN g = S
    OBVIOUS
  <2> QED
    BY <2>1 DEF Total, MapThenSumSet, MapThenFoldSet, Taken
<1>2. iter = CHOOSE f : Steps(f)
  BY DEF iter
<1> HIDE DEF iter
<1>3. PICK sum \in [SUBSET S -> Nat] : SumsUp(g, SUBSET S, sum)
  BY SumsExist
<1>4. Steps(sum)
  BY <1>3 DEF SumsUp
<1>5. Steps(iter)
  <2> HIDE DEF Steps
  <2> QED
    BY <1>2, <1>4
<1>6. SumsUp(g, SUBSET S, iter)
  BY <1>5 DEF SumsUp
<1>7. iter = [s \in SUBSET S |-> iter[s]]
  BY <1>5
<1> HIDE DEF Steps
<1>8. \A T \in SUBSET S : T \in {s \in SUBSET S : iter[s] \in Nat}
  <2> DEFINE P == {s \in SUBSET S : iter[s] \in Nat}
  <2>1. ASSUME NEW T \in SUBSET S, \A U \in (SUBSET T) \ {T} : U \in P PROVE T \in P
    <3>1. CASE T = {}
      <4>1. iter[T] = 0
        BY <1>6, <3>1 DEF SumsUp
      <4> QED
        BY <4>1
    <3>2. CASE T # {}
      <4>1. Taken(T) \in T
        BY <3>2 DEF Taken
      <4>2. T \ {Taken(T)} \in P
        BY <2>1, <4>1
      <4>3. iter[T] = g[Taken(T)] + iter[T \ {Taken(T)}]
        BY <1>6, <3>2 DEF SumsUp
      <4> QED
        BY <4>1, <4>2, <4>3
    <3> QED
      BY <3>1, <3>2
  <2> HIDE DEF P
  <2>2. \A T \in SUBSET S : T \in P
    BY <2>1, AllSubsets
  <2> QED
    BY <2>2 DEF P
<1>9. iter \in [SUBSET S -> Nat]
  BY <1>7, <1>8
<1> QED
  BY <1>1, <1>6, <1>9

\* The sums are those of Total for the parts of the function.
LEMMA SumsOfParts ==
    ASSUME NEW S, IsFiniteSet(S), NEW g \in [S -> Nat],
           NEW sum \in [SUBSET S -> Nat], SumsUp(g, SUBSET S, sum), NEW T \in SUBSET S
    PROVE  Total(On(g, T)) = sum[T]
<1> DEFINE h == On(g, T)
<1>1. h \in [T -> Nat] /\ \A i \in T : h[i] = g[i]
  BY DEF On
<1>2. IsFiniteSet(T)
  BY FS_Subset
<1> HIDE DEF h
<1>3. PICK part \in [SUBSET T -> Nat] : SumsUp(h, SUBSET T, part) /\ Total(h) = part[T]
  BY <1>1, <1>2, TotalUnfold
<1> DEFINE P == {s \in SUBSET T : part[s] = sum[s]}
<1>4. ASSUME NEW s \in SUBSET T, \A u \in (SUBSET s) \ {s} : u \in P PROVE s \in P
  <2>1. s \in SUBSET S
    OBVIOUS
  <2>2. CASE s = {}
    <3>1. part[s] = 0 /\ sum[s] = 0
      BY <1>3, <2>1, <2>2 DEF SumsUp
    <3> QED
      BY <3>1
  <2>3. CASE s # {}
    <3>1. Taken(s) \in s
      BY <2>3 DEF Taken
    <3>2. s \ {Taken(s)} \in P
      BY <1>4, <3>1
    <3>3. part[s] = h[Taken(s)] + part[s \ {Taken(s)}]
      BY <1>3, <2>3 DEF SumsUp
    <3>4. sum[s] = g[Taken(s)] + sum[s \ {Taken(s)}]
      BY <2>1, <2>3 DEF SumsUp
    <3> QED
      BY <1>1, <3>1, <3>2, <3>3, <3>4
  <2> QED
    BY <2>2, <2>3
<1>5. \A s \in SUBSET T : (\A u \in (SUBSET s) \ {s} : u \in P) => s \in P
  BY <1>4
<1> HIDE DEF P
<1>6. T \in P
  <2>1. \A s \in SUBSET T : s \in P
    BY <1>2, <1>5, AllSubsets
  <2> QED
    BY <2>1
<1> QED
  BY <1>3, <1>6 DEF P, h

\* The sums do not depend on the order in which they are added up.
AnyOrder(g, S, sum) ==
    \A T \in SUBSET S : \A x \in T : sum[T] = g[x] + sum[T \ {x}]

LEMMA SumsLess ==
    ASSUME NEW S, IsFiniteSet(S), NEW g \in [S -> Nat],
           NEW sum \in [SUBSET S -> Nat], SumsUp(g, SUBSET S, sum)
    PROVE  AnyOrder(g, S, sum)
<1> DEFINE P == {T \in SUBSET S : \A x \in T : sum[T] = g[x] + sum[T \ {x}]}
<1>1. ASSUME NEW T \in SUBSET S, \A U \in (SUBSET T) \ {T} : U \in P,
             NEW x \in T
      PROVE sum[T] = g[x] + sum[T \ {x}]
  <2> DEFINE y == Taken(T)
  <2>1. y \in T /\ sum[T] = g[y] + sum[T \ {y}]
    BY DEF SumsUp, Taken
  <2> HIDE DEF y
  <2>2. CASE y # x
    <3>1. sum[T \ {y}] = g[x] + sum[(T \ {y}) \ {x}]
      BY <1>1, <2>1, <2>2
    <3>2. sum[T \ {x}] = g[y] + sum[(T \ {x}) \ {y}]
      BY <1>1, <2>1, <2>2
    <3>3. (T \ {x}) \ {y} = (T \ {y}) \ {x} /\ (T \ {x}) \ {y} \in SUBSET S
      OBVIOUS
    <3>4. g[x] \in Nat /\ g[y] \in Nat /\ sum[(T \ {x}) \ {y}] \in Nat
      BY <2>1, <3>3
    <3>5. sum[(T \ {y}) \ {x}] = sum[(T \ {x}) \ {y}]
      BY <3>3
    <3> QED
      BY <2>1, <3>1, <3>2, <3>4, <3>5
  <2> QED
    BY <2>1, <2>2
<1>2. \A T \in SUBSET S : (\A U \in (SUBSET T) \ {T} : U \in P) => T \in P
  BY <1>1
<1> HIDE DEF P
<1>3. \A T \in SUBSET S : T \in P
  BY <1>2, AllSubsets
<1> QED
  BY <1>3 DEF P, AnyOrder

\* What Total is of a finite function: a number, none for the empty one, and one
\* summand more than without it.
LEMMA TotalFacts ==
    ASSUME NEW S, IsFiniteSet(S), NEW g \in [S -> Nat]
    PROVE  /\ Total(g) \in Nat
           /\ S = {} => Total(g) = 0
           /\ \A T \in SUBSET S : Total(On(g, T)) \in Nat
           /\ Total(On(g, {})) = 0
           /\ \A T \in SUBSET S : \A x \in T : Total(On(g, T)) = g[x] + Total(On(g, T \ {x}))
<1>1. PICK sum \in [SUBSET S -> Nat] : SumsUp(g, SUBSET S, sum) /\ Total(g) = sum[S]
  BY TotalUnfold
<1>2. \A T \in SUBSET S : Total(On(g, T)) = sum[T]
  BY <1>1, SumsOfParts
<1>3. AnyOrder(g, S, sum)
  BY <1>1, SumsLess
<1>4. sum[{}] = 0 /\ {} \in SUBSET S
  BY <1>1 DEF SumsUp
<1>5. ASSUME NEW T \in SUBSET S, NEW x \in T
      PROVE Total(On(g, T)) = g[x] + Total(On(g, T \ {x}))
  <2>1. T \in SUBSET S /\ T \ {x} \in SUBSET S
    OBVIOUS
  <2>2. Total(On(g, T)) = sum[T] /\ Total(On(g, T \ {x})) = sum[T \ {x}]
    BY <1>2, <2>1
  <2> QED
    BY <1>3, <2>2 DEF AnyOrder
<1> QED
  BY <1>1, <1>2, <1>4, <1>5

\* A function with d added on H.
Raised(f, H, d) == [i \in DOMAIN f |-> IF i \in H THEN f[i] + d[i] ELSE f[i]]

LEMMA TotalRaised ==
    ASSUME NEW S, IsFiniteSet(S), NEW f \in [S -> Nat], NEW H \in SUBSET S, NEW d \in [H -> Nat]
    PROVE  Total(Raised(f, H, d)) = Total(f) + Total(d)
<1> DEFINE r == Raised(f, H, d)
           P == {T \in SUBSET S : Total(On(r, T)) = Total(On(f, T)) + Total(On(d, H \cap T))}
<1>1. r \in [S -> Nat] /\ \A i \in S : r[i] = IF i \in H THEN f[i] + d[i] ELSE f[i]
  BY DEF Raised
<1>2. IsFiniteSet(H)
  BY FS_Subset
<1> HIDE DEF r
<1>3. ASSUME NEW T \in SUBSET S, \A U \in (SUBSET T) \ {T} : U \in P PROVE T \in P
  <2>1. CASE T = {}
    <3>1. H \cap T = {}
      BY <2>1
    <3>2. Total(On(r, {})) = 0 /\ Total(On(f, {})) = 0 /\ Total(On(d, {})) = 0
      <4>1. Total(On(r, {})) = 0
        BY <1>1, TotalFacts
      <4>2. Total(On(f, {})) = 0
        BY TotalFacts
      <4>3. Total(On(d, {})) = 0
        BY <1>2, TotalFacts
      <4> QED
        BY <4>1, <4>2, <4>3
    <3> QED
      BY <2>1, <3>1, <3>2
  <2>2. ASSUME NEW x \in T PROVE T \in P
    <3> DEFINE U == T \ {x}
    <3>1. U \in SUBSET S /\ U \in P
      BY <1>3
    <3>2. Total(On(r, U)) = Total(On(f, U)) + Total(On(d, H \cap U))
      BY <3>1
    <3>3. Total(On(r, T)) = r[x] + Total(On(r, U))
      BY <1>1, TotalFacts
    <3>4. Total(On(f, T)) = f[x] + Total(On(f, U))
      BY TotalFacts
    <3>5. /\ Total(On(f, U)) \in Nat
          /\ H \cap U \in SUBSET H /\ Total(On(d, H \cap U)) \in Nat
      BY <1>2, <3>1, TotalFacts
    <3>6. CASE x \in H
      <4>1. H \cap T \in SUBSET H /\ x \in H \cap T /\ (H \cap T) \ {x} = H \cap U
        BY <3>6
      <4>2. Total(On(d, H \cap T)) = d[x] + Total(On(d, H \cap U))
        BY <1>2, <4>1, TotalFacts
      <4>3. r[x] = f[x] + d[x] /\ f[x] \in Nat /\ d[x] \in Nat
        BY <1>1, <3>6
      <4> HIDE DEF U
      <4>4. Total(On(r, T)) = Total(On(f, T)) + Total(On(d, H \cap T))
        BY <3>2, <3>3, <3>4, <3>5, <4>2, <4>3
      <4> QED
        BY <4>4
    <3>7. CASE x \notin H
      <4>1. H \cap T = H \cap U
        BY <3>7
      <4>2. r[x] = f[x] /\ f[x] \in Nat
        BY <1>1, <3>7
      <4> HIDE DEF U
      <4>3. Total(On(r, T)) = Total(On(f, T)) + Total(On(d, H \cap T))
        <5>1. Total(On(d, H \cap T)) = Total(On(d, H \cap U))
          BY <4>1
        <5> QED
          BY <3>2, <3>3, <3>4, <3>5, <4>2, <5>1
      <4> QED
        BY <4>3
    <3> QED
      BY <3>6, <3>7
  <2> QED
    BY <2>1, <2>2
<1>4. S \in P
  <2> HIDE DEF P
  <2> QED
    BY <1>3, AllSubsets
<1>5. On(r, S) = r /\ On(f, S) = f /\ On(d, H \cap S) = d
  <2>1. H \cap S = H
    OBVIOUS
  <2> QED
    BY <1>1, <2>1 DEF On
<1> QED
  BY <1>4, <1>5 DEF r

\* A total is between as many times the least and the greatest summand.
LEMMA TotalBounds ==
    ASSUME NEW S, IsFiniteSet(S), NEW g \in [S -> Nat], NEW c \in Nat
    PROVE  /\ (\A i \in S : g[i] <= c) => Total(g) <= c * Cardinality(S)
           /\ (\A i \in S : c <= g[i]) => c * Cardinality(S) <= Total(g)
<1> DEFINE P == {T \in SUBSET S :
                   /\ (\A i \in S : g[i] <= c) => Total(On(g, T)) <= c * Cardinality(T)
                   /\ (\A i \in S : c <= g[i]) => c * Cardinality(T) <= Total(On(g, T))}
<1>1. ASSUME NEW T \in SUBSET S, \A U \in (SUBSET T) \ {T} : U \in P PROVE T \in P
  <2>1. CASE T = {}
    <3>1. Total(On(g, T)) = 0 /\ Cardinality(T) = 0
      BY <2>1, TotalFacts, FS_EmptySet
    <3>2. c * Cardinality(T) = 0
      BY <3>1
    <3> QED
      BY <3>1, <3>2
  <2>2. ASSUME NEW x \in T PROVE T \in P
    <3> DEFINE U == T \ {x}
               a == Cardinality(U)
               t == Total(On(g, U))
    <3>1. U \in SUBSET S /\ U \in P
      BY <1>1
    <3>2. Total(On(g, T)) = g[x] + t /\ t \in Nat /\ g[x] \in Nat
      BY <3>1, TotalFacts
    <3>3. Cardinality(T) = a + 1 /\ a \in Nat
      <4>1. IsFiniteSet(T) /\ IsFiniteSet(U)
        BY <3>1, FS_Subset
      <4> QED
        BY <4>1, FS_RemoveElement, FS_CardinalityType
    <3>4. /\ (\A i \in S : g[i] <= c) => t <= c * a
          /\ (\A i \in S : c <= g[i]) => c * a <= t
      BY <3>1
    <3> HIDE DEF U, a, t
    <3>5. c * (a + 1) = c * a + c /\ c * a \in Nat
      BY <3>3
    <3>6. (\A i \in S : g[i] <= c) => Total(On(g, T)) <= c * Cardinality(T)
      BY <3>2, <3>3, <3>4, <3>5
    <3>7. (\A i \in S : c <= g[i]) => c * Cardinality(T) <= Total(On(g, T))
      BY <3>2, <3>3, <3>4, <3>5
    <3> QED
      BY <3>6, <3>7
  <2> QED
    BY <2>1, <2>2
<1>2. S \in P
  <2> HIDE DEF P
  <2> QED
    BY <1>1, AllSubsets
<1>3. On(g, S) = g
  BY DEF On
<1> QED
  BY <1>2, <1>3

-----------------------------------------------------------------------------
(* The receivers *)

\* Products compare as their first factors do.
LEMMA Scaled ==
    ASSUME NEW x \in Nat, NEW y \in Nat, NEW k \in Nat \ {0}
    PROVE  /\ x < y <=> x * k < y * k
           /\ x <= y <=> x * k <= y * k
<1>1. ASSUME x < y PROVE x * k < y * k
  <2>1. PICK d \in Nat : y = x + d /\ d > 0
    <3>1. y - x \in Nat /\ y = x + (y - x) /\ y - x > 0
      BY <1>1
    <3> QED
      BY <3>1
  <2>2. y * k = x * k + d * k
    BY <2>1
  <2>3. d * k > 0 /\ x * k \in Nat
    BY <2>1
  <2> QED
    BY <2>2, <2>3
<1>2. ASSUME y < x PROVE y * k < x * k
  <2>1. PICK d \in Nat : x = y + d /\ d > 0
    <3>1. x - y \in Nat /\ x = y + (x - y) /\ x - y > 0
      BY <1>2
    <3> QED
      BY <3>1
  <2>2. x * k = y * k + d * k
    BY <2>1
  <2>3. d * k > 0 /\ y * k \in Nat
    BY <2>1
  <2> QED
    BY <2>2, <2>3
<1>3. x = y => x * k = y * k
  OBVIOUS
<1>4. x * k \in Nat /\ y * k \in Nat
  OBVIOUS
<1> QED
  BY <1>1, <1>2, <1>3, <1>4

\* How full players are is an order, by which of the fractions a/A, b/B, c/C is less.
LEMMA Fractions ==
    ASSUME NEW a \in Nat, NEW b \in Nat, NEW c \in Nat,
           NEW A \in Nat \ {0}, NEW B \in Nat \ {0}, NEW C \in Nat \ {0},
           a * B <= b * A, b * C <= c * B
    PROVE  /\ a * C <= c * A
           /\ a * B < b * A \/ b * C < c * B => a * C < c * A
<1> DEFINE p == a * B
           q == b * A
           r == b * C
           t == c * B
           u == a * C
           v == c * A
<1>1. p \in Nat /\ q \in Nat /\ r \in Nat /\ t \in Nat /\ u \in Nat /\ v \in Nat
  OBVIOUS
<1>2. p * C = u * B /\ q * C = r * A /\ t * A = v * B
  OBVIOUS
<1>3. p <= q /\ r <= t
  OBVIOUS
<1> HIDE DEF p, q, r, t, u, v
<1>4. /\ p * C <= q * C /\ r * A <= t * A
      /\ p < q => p * C < q * C
      /\ r < t => r * A < t * A
  BY <1>1, <1>3, Scaled
<1>5. u * B <= v * B /\ (p < q \/ r < t => u * B < v * B)
  <2> DEFINE f == p * C
             g == q * C
             h == t * A
  <2>1. f \in Int /\ g \in Int /\ h \in Int
    BY <1>1
  <2>2. f <= g /\ g <= h /\ (p < q => f < g) /\ (r < t => g < h)
    BY <1>2, <1>4
  <2>3. u * B = f /\ v * B = h
    BY <1>2
  <2> HIDE DEF f, g, h
  <2> QED
    BY <2>1, <2>2, <2>3
<1>6. u <= v /\ (p < q \/ r < t => u < v)
  BY <1>1, <1>5, Scaled
<1> QED
  BY <1>6 DEF p, q, r, t, u, v

\* The candidates are slots of players with storage.
LEMMA CandidateFacts ==
    ASSUME SplitTypeOK
    PROVE  /\ Candidates \subseteq SplitSlots \ {Sender}
           /\ IsFiniteSet(Candidates)
           /\ \A i \in Candidates :
                 /\ i \in Nat /\ stock[i] \in Nat /\ capacity[i] \in Nat \ {0}
                 /\ Room(i) \in Nat /\ MinGive <= Room(i)
<1>1. Candidates \subseteq SplitSlots \ {Sender}
  BY DEF SplitTypeOK, Candidates
<1>2. IsFiniteSet(Candidates)
  BY <1>1, SplitAssumption, FS_Subset
<1>3. ASSUME NEW i \in Candidates
      PROVE  /\ i \in Nat /\ stock[i] \in Nat /\ capacity[i] \in Nat \ {0}
             /\ Room(i) \in Nat /\ MinGive <= Room(i)
  <2>1. i \in Nat /\ capacity[i] \in Nat /\ stock[i] \in 0 .. capacity[i]
    BY <1>1, SplitAssumption DEF SplitTypeOK
  <2>2. capacity[i] > 0 /\ Room(i) >= MinGive
    BY DEF Candidates
  <2>3. MinGive \in Nat
    BY SplitAssumption
  <2> QED
    BY <2>1, <2>2, <2>3 DEF Room
<1> QED
  BY <1>1, <1>2, <1>3

\* SortCands has an order to sort by.
LEMMA BeforeIsOrder ==
    ASSUME SplitTypeOK, NEW i \in Candidates, NEW j \in Candidates
    PROVE  /\ ~Before(i, i)
           /\ i # j => Before(i, j) \/ Before(j, i)
           /\ \A k \in Candidates : Before(i, j) /\ Before(j, k) => Before(i, k)
<1>1. \A k \in Candidates : k \in Nat /\ stock[k] \in Nat /\ capacity[k] \in Nat \ {0}
  BY CandidateFacts
<1>2. \A k, l \in Candidates : stock[k] * capacity[l] \in Nat
  BY <1>1
<1>3. ~Before(i, i)
  BY <1>1, <1>2 DEF Before, LessFull
<1>4. i # j => Before(i, j) \/ Before(j, i)
  BY <1>1, <1>2 DEF Before, LessFull
<1>5. ASSUME NEW k \in Candidates, Before(i, j), Before(j, k) PROVE Before(i, k)
  <2>1. stock[i] * capacity[j] <= stock[j] * capacity[i]
    BY <1>2, <1>5 DEF Before, LessFull
  <2>2. stock[j] * capacity[k] <= stock[k] * capacity[j]
    BY <1>2, <1>5 DEF Before, LessFull
  <2>3. /\ stock[i] * capacity[k] <= stock[k] * capacity[i]
        /\ LessFull(i, j) \/ LessFull(j, k) => LessFull(i, k)
    BY <1>1, <2>1, <2>2, Fractions DEF LessFull
  <2>4. ~LessFull(k, i)
    BY <1>2, <2>3 DEF LessFull
  <2>5. LessFull(i, j) \/ LessFull(j, k) \/ i < k
    BY <1>1, <1>5 DEF Before
  <2> QED
    BY <2>3, <2>4, <2>5 DEF Before
<1> QED
  BY <1>3, <1>4, <1>5

\* A numbering of a finite set without a gap.
LEMMA Ranked ==
    ASSUME NEW C, IsFiniteSet(C), NEW r \in [C -> Nat],
           \A i \in C : r[i] < Cardinality(C),
           \A i, j \in C : i # j => r[i] # r[j],
           NEW n \in Nat, n <= Cardinality(C)
    PROVE  Cardinality({i \in C : r[i] < n}) = n
<1> DEFINE N == Cardinality(C)
           T == {i \in C : r[i] < n}
           first == [i \in T |-> r[i]]
<1>1. N \in Nat
  BY FS_CardinalityType
<1>2. IsFiniteSet(0 .. N - 1) /\ Cardinality(0 .. N - 1) = N
  <2> HIDE DEF N
  <2>1. 0 \in Int /\ N - 1 \in Int /\ (0 > N - 1 => N = 0) /\ (N - 1) - 0 + 1 = N
    BY <1>1
  <2>2. /\ IsFiniteSet(0 .. N - 1)
        /\ Cardinality(0 .. N - 1) = IF 0 > N - 1 THEN 0 ELSE (N - 1) - 0 + 1
    BY <2>1, FS_Interval
  <2> QED
    BY <2>1, <2>2
<1>3. IsFiniteSet(0 .. n - 1) /\ Cardinality(0 .. n - 1) = n
  BY FS_Interval
<1>4. r \in Injection(C, 0 .. N - 1)
  <2>1. r \in [C -> 0 .. N - 1]
    BY <1>1
  <2> QED
    BY <2>1 DEF Injection, IsInjective
<1>5. r \in Surjection(C, 0 .. N - 1)
  <2> HIDE DEF N
  <2> QED
    BY <1>2, <1>4, FS_Injection DEF N
<1>6. \A k \in 0 .. N - 1 : \E i \in C : r[i] = k
  BY <1>5 DEF Surjection
<1>7. first \in [T -> 0 .. n - 1]
  OBVIOUS
<1>8. first \in Injection(T, 0 .. n - 1)
  BY <1>7 DEF Injection, IsInjective
<1>9. first \in Surjection(T, 0 .. n - 1)
  <2>1. \A k \in 0 .. n - 1 : \E i \in T : first[i] = k
    <3> SUFFICES ASSUME NEW k \in 0 .. n - 1 PROVE \E i \in T : first[i] = k
      OBVIOUS
    <3>1. k \in 0 .. N - 1
      BY <1>1
    <3>2. PICK i \in C : r[i] = k
      BY <1>6, <3>1
    <3>3. i \in T
      BY <3>2
    <3> QED
      BY <3>2, <3>3
  <2> QED
    BY <1>7, <2>1 DEF Surjection
<1> HIDE DEF T, first
<1>10. Cardinality(T) = Cardinality(0 .. n - 1)
  BY <1>3, <1>8, <1>9, FS_Injection
<1> QED
  BY <1>3, <1>10 DEF T

\* The n least full are n, or all.
LEMMA LeastFullFacts ==
    ASSUME SplitTypeOK, NEW n \in Nat
    PROVE  /\ LeastFull(n) \subseteq Candidates /\ IsFiniteSet(LeastFull(n))
           /\ n <= Cardinality(Candidates) => Cardinality(LeastFull(n)) = n
           /\ n >= Cardinality(Candidates) => LeastFull(n) = Candidates
<1> DEFINE C == Candidates
           N == Cardinality(C)
           before(i) == {j \in C : Before(j, i)}
           r == [i \in C |-> Cardinality(before(i))]
<1>1. IsFiniteSet(C) /\ N \in Nat
  BY CandidateFacts, FS_CardinalityType
<1>2. ASSUME NEW i \in C
      PROVE IsFiniteSet(before(i)) /\ Cardinality(before(i)) \in Nat /\ Cardinality(before(i)) < N
  <2>1. before(i) \subseteq C /\ i \notin before(i)
    BY BeforeIsOrder
  <2> HIDE DEF before
  <2>2. before(i) # C
    BY <2>1
  <2> QED
    BY <1>1, <2>1, <2>2, FS_Subset, FS_CardinalityType
<1>3. ASSUME NEW i \in C, NEW j \in C, Before(i, j)
      PROVE  Cardinality(before(i)) # Cardinality(before(j))
  <2>1. before(i) \subseteq before(j)
    BY <1>3, BeforeIsOrder
  <2>2. i \in before(j) /\ i \notin before(i)
    BY <1>3, BeforeIsOrder
  <2> HIDE DEF before
  <2> QED
    BY <1>2, <2>1, <2>2, FS_Subset
<1>4. \A i, j \in C : i # j => Cardinality(before(i)) # Cardinality(before(j))
  BY <1>3, BeforeIsOrder
<1>5. LeastFull(n) = {i \in C : r[i] < n}
  BY DEF LeastFull
<1>6. r \in [C -> Nat] /\ \A i \in C : r[i] < N
  BY <1>2
<1>7. \A i, j \in C : i # j => r[i] # r[j]
  BY <1>4
<1> HIDE DEF r
<1>8. n <= N => Cardinality(LeastFull(n)) = n
  BY <1>1, <1>5, <1>6, <1>7, Ranked
<1>9. n >= N => LeastFull(n) = C
  BY <1>1, <1>5, <1>6
<1>10. LeastFull(n) \subseteq C
  BY DEF LeastFull
<1>11. IsFiniteSet(LeastFull(n))
  BY <1>1, <1>10, FS_Subset
<1> QED
  BY <1>8, <1>9, <1>10, <1>11

-----------------------------------------------------------------------------
(* WaterFill *)

\* The pool is to be poured over S.
Pourable(S) ==
    /\ SplitTypeOK /\ S \subseteq Candidates /\ IsFiniteSet(S)
    /\ Pool \in Nat \ {0}

\* Before the last round: who is not open has its room, no more than an equal share;
\* the others have nothing yet.
Pouring(S, s) ==
    /\ s \in [left : Nat, open : SUBSET S, give : [S -> Nat]]
    /\ s.left + Total(s.give) = Pool
    /\ \A i \in S \ s.open : s.give[i] = Room(i)
    /\ \A i \in s.open : s.give[i] = 0
    /\ s.open # {} => s.left > 0
    /\ \E q \in Nat : /\ \A i \in S \ s.open : Room(i) <= q
                      /\ q * Cardinality(s.open) <= s.left

\* After it: q for each that is open, and less than one each is left.
Settled(S, s, q) ==
    /\ s \in [left : Nat, open : SUBSET S, give : [S -> Nat]]
    /\ s.left = 0 /\ s.open # {} /\ q \in Nat
    /\ \A i \in S \ s.open : s.give[i] = Room(i) /\ Room(i) <= q
    /\ \A i \in s.open : s.give[i] = q /\ q < Room(i)
    /\ Total(s.give) <= Pool /\ Pool < Total(s.give) + Cardinality(s.open)

\* The share of a round.
LEMMA ShareFacts ==
    ASSUME NEW left \in Nat, NEW o \in Nat \ {0}, NEW q \in Nat, q * o <= left
    PROVE  /\ left \div o \in Nat /\ q <= left \div o
           /\ (left \div o) * o <= left /\ left < (left \div o) * o + o
<1> DEFINE d == left \div o
           t == left % o
<1>1. d \in Nat /\ t \in 0 .. o - 1 /\ left = o * d + t
  BY DivMod
<1> HIDE DEF d, t
<1>2. o * d = d * o /\ d * o \in Nat
  BY <1>1
<1>3. q <= d
  <2> SUFFICES ASSUME ~(q <= d) PROVE FALSE
    OBVIOUS
  <2>1. PICK e \in Nat : q = d + 1 + e
    <3>1. q - d - 1 \in Nat /\ q = d + 1 + (q - d - 1)
      BY <1>1
    <3> QED
      BY <3>1
  <2>2. q * o = d * o + o + e * o
    BY <1>1, <2>1
  <2>3. e * o \in Nat
    BY <2>1
  <2> QED
    BY <1>1, <1>2, <2>2, <2>3
<1> QED
  BY <1>1, <1>2, <1>3 DEF d

\* A round caps receivers, or is the last.
LEMMA RoundStep ==
    ASSUME NEW S, Pourable(S), NEW s, Pouring(S, s), s.open # {}
    PROVE  \/ /\ Pouring(S, Round(s))
              /\ Cardinality(Round(s).open) < Cardinality(s.open)
           \/ \E q : Settled(S, Round(s), q)
<1> DEFINE open == s.open
           left == s.left
           give == s.give
           o == Cardinality(open)
           share == left \div o
           hit == {i \in open : Room(i) <= share}
           rooms == [i \in hit |-> Room(i)]
<1>1. open \in SUBSET S /\ left \in Nat \ {0} /\ give \in [S -> Nat] /\ left + Total(give) = Pool
  BY DEF Pouring
<1>2. IsFiniteSet(S) /\ IsFiniteSet(open) /\ o \in Nat \ {0}
  <2>1. IsFiniteSet(S) /\ IsFiniteSet(open)
    BY <1>1, FS_Subset DEF Pourable
  <2> QED
    BY <2>1, FS_CardinalityType, FS_EmptySet
<1>3. PICK q \in Nat : (\A i \in S \ open : Room(i) <= q) /\ q * o <= left
  BY DEF Pouring
<1>4. \A i \in S : Room(i) \in Nat /\ 1 <= Room(i)
  <2>1. \A i \in S : Room(i) \in Nat /\ MinGive <= Room(i)
    BY CandidateFacts DEF Pourable
  <2> QED
    BY <2>1, SplitAssumption
<1>5. /\ \A i \in S \ open : give[i] = Room(i)
      /\ \A i \in open : give[i] = 0
  BY DEF Pouring
<1>6. Total(give) \in Nat
  BY <1>1, <1>2, TotalFacts
<1>7. /\ share \in Nat /\ q <= share
      /\ share * o <= left /\ left < share * o + o
  BY <1>1, <1>2, <1>3, ShareFacts
<1>8. Round(s) = IF hit # {} THEN Cap(s, hit)
                 ELSE [s EXCEPT !.left = 0,
                                !.give = [i \in DOMAIN @ |-> IF i \in open THEN share ELSE @[i]]]
  BY DEF Round
<1>9. s = [left |-> left, open |-> open, give |-> give] /\ DOMAIN give = S
  BY DEF Pouring
<1> HIDE DEF open, left, give, o, share
<1>10. CASE hit # {}
  <2> DEFINE h == Cardinality(hit)
             next == [left |-> left - Total(rooms), open |-> open \ hit,
                      give |-> [i \in S |-> IF i \in hit THEN Room(i) ELSE give[i]]]
  <2>1. Round(s) = next
    BY <1>8, <1>9, <1>10 DEF Cap
  <2>2. hit \in SUBSET open /\ hit \in SUBSET S /\ rooms \in [hit -> Nat] /\ IsFiniteSet(hit)
    BY <1>1, <1>2, <1>4, FS_Subset
  <2>3. h \in Nat /\ h > 0 /\ Cardinality(open \ hit) = o - h /\ Cardinality(open \ hit) \in Nat
    <3>1. open \cap hit = hit /\ IsFiniteSet(open \ hit)
      BY <1>2, FS_Subset
    <3>2. Cardinality(open \ hit) = Cardinality(open) - Cardinality(open \cap hit)
      BY <1>2, FS_Difference
    <3> HIDE DEF hit
    <3>3. Cardinality(open \ hit) = o - h
      BY <3>1, <3>2 DEF o
    <3>4. h \in Nat /\ Cardinality(open \ hit) \in Nat
      BY <2>2, <3>1, FS_CardinalityType
    <3>5. h # 0
      BY <1>10, <2>2, FS_EmptySet
    <3> QED
      BY <3>3, <3>4, <3>5
  <2>4. Total(rooms) \in Nat /\ Total(rooms) <= share * h
    <3>1. \A i \in hit : rooms[i] <= share
      OBVIOUS
    <3> HIDE DEF hit, rooms
    <3> QED
      BY <1>7, <2>2, <3>1, TotalFacts, TotalBounds
  <2>5. PICK x \in hit : TRUE
    BY <1>10
  <2>6. 1 <= share
    BY <1>1, <1>4, <1>7, <2>2, <2>5
  <2>7. next.give = Raised(give, hit, rooms)
    BY <1>5, <1>9, <1>1, <2>2, <1>4 DEF Raised
  <2>8. Total(next.give) = Total(give) + Total(rooms)
    <3> HIDE DEF next, hit, rooms
    <3> QED
      BY <1>1, <1>2, <2>2, <2>7, TotalRaised
  <2>9. \A i \in S \ (open \ hit) : next.give[i] = Room(i) /\ Room(i) <= share
    <3> SUFFICES ASSUME NEW i \in S \ (open \ hit)
                 PROVE  next.give[i] = Room(i) /\ Room(i) <= share
      OBVIOUS
    <3>1. CASE i \in hit
      BY <2>2, <3>1
    <3>2. CASE i \in S \ open
      BY <1>3, <1>4, <1>5, <1>7, <2>2, <3>2
    <3> QED
      BY <3>1, <3>2
  <2>10. \A i \in open \ hit : next.give[i] = 0
    BY <1>1, <1>5
  <2>11. next.give \in [S -> Nat]
    BY <1>1, <1>4, <2>2
  <2> DEFINE p == share * h
             a == share * (o - h)
  <2>12. a = share * o - p /\ p \in Nat /\ a \in Nat /\ share * o \in Nat
    <3> HIDE DEF h
    <3>1. share * (o - h) = share * o - share * h
      BY <1>2, <1>7, <2>3
    <3>2. o - h \in Nat
      BY <2>3
    <3> QED
      BY <1>2, <1>7, <2>3, <3>1, <3>2
  <2>13. left - Total(rooms) \in Nat /\ a <= left - Total(rooms)
    <3> HIDE DEF h, rooms
    <3>1. Total(rooms) <= p
      BY <2>4
    <3> HIDE DEF a, p
    <3> QED
      BY <1>1, <1>7, <2>4, <2>12, <3>1
  <2>14. open \ hit # {} => left - Total(rooms) > 0
    <3>1. open \ hit # {} => o - h > 0
      BY <2>2, <2>3, <1>2, FS_Subset, FS_EmptySet
    <3>2. o - h > 0 => a > 0
      <4> HIDE DEF h
      <4>1. o - h \in Nat
        BY <2>3
      <4> QED
        BY <1>7, <2>6, <4>1
    <3> HIDE DEF hit, h, a, rooms
    <3> QED
      BY <2>12, <2>13, <3>1, <3>2
  <2>15. Pouring(S, next)
    <3>1. next.left = left - Total(rooms) /\ next.open = open \ hit
      OBVIOUS
    <3>2. next \in [left : Nat, open : SUBSET S, give : [S -> Nat]]
      <4>1. next = [left |-> next.left, open |-> next.open, give |-> next.give]
        OBVIOUS
      <4>2. next.open \in SUBSET S
        BY <1>1
      <4> HIDE DEF next
      <4> QED
        BY <2>11, <2>13, <3>1, <4>1, <4>2
    <3>3. next.left + Total(next.give) = Pool
      <4> HIDE DEF next, rooms
      <4> QED
        BY <1>1, <1>6, <2>4, <2>8, <3>1
    <3>4. share * Cardinality(next.open) <= next.left
      <4> HIDE DEF next, rooms, h
      <4> QED
        BY <2>3, <2>13, <3>1
    <3> HIDE DEF next, rooms, hit
    <3> QED
      BY <1>7, <2>9, <2>10, <2>14, <3>1, <3>2, <3>3, <3>4 DEF Pouring
  <2>16. Cardinality(next.open) < o
    <3>1. next.open = open \ hit
      OBVIOUS
    <3> HIDE DEF next, hit, h
    <3> QED
      BY <1>2, <2>3, <3>1
  <2> HIDE DEF next
  <2> QED
    BY <2>1, <2>15, <2>16 DEF o, open
<1>11. CASE hit = {}
  <2> DEFINE shares == [i \in open |-> share]
             last == [left |-> 0, open |-> open,
                      give |-> [i \in S |-> IF i \in open THEN share ELSE give[i]]]
  <2>1. Round(s) = last
    BY <1>8, <1>9, <1>11
  <2>2. last.give = Raised(give, open, shares)
    BY <1>1, <1>5, <1>7, <1>9 DEF Raised
  <2>3. shares \in [open -> Nat] /\ \A i \in open : shares[i] <= share /\ share <= shares[i]
    BY <1>7
  <2>4. Total(shares) = share * o
    <3> HIDE DEF shares
    <3>1. Total(shares) <= share * o /\ share * o <= Total(shares)
      BY <1>2, <1>7, <2>3, TotalBounds DEF o
    <3>2. Total(shares) \in Nat /\ share * o \in Nat
      BY <1>2, <1>7, <2>3, TotalFacts
    <3> QED
      BY <3>1, <3>2
  <2>5. Total(last.give) = Total(give) + share * o
    <3> HIDE DEF last, shares
    <3> QED
      BY <1>1, <1>2, <2>2, <2>3, <2>4, TotalRaised
  <2>6. last \in [left : Nat, open : SUBSET S, give : [S -> Nat]]
    BY <1>1, <1>7
  <2>7. \A i \in open : share < Room(i)
    BY <1>1, <1>4, <1>7, <1>11
  <2>8. \A i \in S \ open : last.give[i] = Room(i) /\ Room(i) <= share
    BY <1>3, <1>4, <1>5, <1>7
  <2>9. Total(last.give) <= Pool /\ Pool < Total(last.give) + o
    <3> DEFINE m == share * o
    <3>1. m \in Nat
      BY <1>2, <1>7
    <3> HIDE DEF m, last
    <3> QED
      BY <1>1, <1>2, <1>6, <1>7, <2>5, <3>1 DEF m
  <2>10. last.open = open /\ last.left = 0 /\ \A i \in open : last.give[i] = share
    BY <1>1
  <2> HIDE DEF last
  <2>11. Settled(S, last, share)
    BY <1>7, <2>6, <2>7, <2>8, <2>9, <2>10 DEF Settled, o, open
  <2> QED
    BY <2>1, <2>11
<1> QED
  BY <1>10, <1>11

\* The rounds of Poured, one after the other.
LEMMA PouredSteps ==
    ASSUME NEW S, IsFiniteSet(S)
    PROVE  \E rounds :
              /\ Poured(S) = rounds[Cardinality(S)]
              /\ rounds[0] = [left |-> Pool, open |-> S, give |-> [i \in S |-> 0]]
              /\ \A k \in 1 .. Cardinality(S) :
                    rounds[k] = IF rounds[k - 1].open = {} \/ rounds[k - 1].left = 0
                                THEN rounds[k - 1] ELSE Round(rounds[k - 1])
<1> DEFINE n == Cardinality(S)
           base == [left |-> Pool, open |-> S, give |-> [i \in S |-> 0]]
           Next(s) == IF s.open = {} \/ s.left = 0 THEN s ELSE Round(s)
           Follows(g, m) == g = [k \in 0 .. m |-> IF k = 0 THEN base ELSE Next(g[k - 1])]
           rounds[k \in 0 .. n] == IF k = 0 THEN base ELSE Next(rounds[k - 1])
<1>1. n \in Nat
  BY FS_CardinalityType
<1>2. Poured(S) = rounds[n]
  BY DEF Poured
<1>3. rounds = CHOOSE g : Follows(g, n)
  BY DEF rounds
<1> HIDE DEF rounds, n, base, Next
<1>4. \E g : Follows(g, n)
  <2> DEFINE P == {m \in 0 .. n : \E g : Follows(g, m)}
  <2>1. 0 \in P
    <3>1. Follows([k \in 0 .. 0 |-> base], 0)
      OBVIOUS
    <3> HIDE DEF Follows
    <3> QED
      BY <1>1, <3>1
  <2>2. ASSUME NEW m \in 0 .. n - 1, m \in P PROVE m + 1 \in P
    <3>1. PICK g : Follows(g, m)
      BY <2>2
    <3> DEFINE h == [k \in 0 .. m + 1 |-> IF k <= m THEN g[k] ELSE Next(g[m])]
    <3>2. ASSUME NEW k \in 0 .. m + 1
          PROVE h[k] = IF k = 0 THEN base ELSE Next(h[k - 1])
      <4>1. CASE k = m + 1
        <5>1. h[k] = Next(g[m]) /\ h[k - 1] = g[m]
          BY <4>1
        <5> QED
          BY <4>1, <5>1
      <4>2. CASE k \in 0 .. m
        <5>1. g[k] = IF k = 0 THEN base ELSE Next(g[k - 1])
          BY <3>1, <4>2
        <5>2. h[k] = g[k] /\ (k # 0 => h[k - 1] = g[k - 1])
          BY <4>2
        <5> QED
          BY <5>1, <5>2
      <4> QED
        BY <4>1, <4>2
    <3>3. Follows(h, m + 1)
      <4>1. h = [k \in 0 .. m + 1 |-> h[k]]
        OBVIOUS
      <4> HIDE DEF h
      <4> QED
        BY <3>2, <4>1
    <3>4. m + 1 \in 0 .. n
      BY <1>1
    <3> HIDE DEF Follows
    <3> QED
      BY <3>3, <3>4
  <2> HIDE DEF P
  <2>3. n \in P
    <3>1. 0 .. n \subseteq P
      BY <1>1, <2>1, <2>2, UpTo
    <3> QED
      BY <1>1, <3>1
  <2> QED
    BY <2>3 DEF P
<1>5. Follows(rounds, n)
  <2> HIDE DEF Follows
  <2> QED
    BY <1>3, <1>4
<1>6. rounds[0] = base /\ \A k \in 1 .. n : rounds[k] = Next(rounds[k - 1])
  BY <1>1, <1>5
<1> QED
  BY <1>2, <1>6 DEF n, base, Next

\* What is poured in the end: all have their room, or the rest has the same.
LEMMA PouredFacts ==
    ASSUME NEW S, Pourable(S)
    PROVE  \/ Pouring(S, Poured(S)) /\ Poured(S).open = {}
           \/ \E q : Settled(S, Poured(S), q)
<1> DEFINE n == Cardinality(S)
<1>1. IsFiniteSet(S) /\ n \in Nat
  BY FS_CardinalityType DEF Pourable
<1>2. PICK rounds :
              /\ Poured(S) = rounds[n]
              /\ rounds[0] = [left |-> Pool, open |-> S, give |-> [i \in S |-> 0]]
              /\ \A k \in 1 .. n :
                    rounds[k] = IF rounds[k - 1].open = {} \/ rounds[k - 1].left = 0
                                THEN rounds[k - 1] ELSE Round(rounds[k - 1])
  BY <1>1, PouredSteps
<1> DEFINE Inv(k) == \/ /\ Pouring(S, rounds[k])
                        /\ rounds[k].open = {} \/ Cardinality(rounds[k].open) + k <= n
                     \/ \E q : Settled(S, rounds[k], q)
           P == {k \in 0 .. n : Inv(k)}
<1>3. 0 \in P
  <2> DEFINE zero == [i \in S |-> 0]
             s == [left |-> Pool, open |-> S, give |-> zero]
  <2>1. Total(zero) = 0
    <3>1. zero \in [S -> Nat] /\ \A i \in S : zero[i] <= 0
      OBVIOUS
    <3> HIDE DEF zero
    <3>2. Total(zero) <= 0 * n /\ Total(zero) \in Nat
      BY <1>1, <3>1, TotalBounds, TotalFacts
    <3> QED
      BY <1>1, <3>2
  <2>2. Pool \in Nat /\ Pool > 0
    BY DEF Pourable
  <2>3. Pouring(S, s)
    <3>1. s \in [left : Nat, open : SUBSET S, give : [S -> Nat]]
      BY <2>2
    <3>2. s.left = Pool /\ s.open = S /\ s.give = zero /\ \A i \in S : s.give[i] = 0
      OBVIOUS
    <3>3. 0 \in Nat /\ 0 * n = 0
      BY <1>1
    <3>4. 0 * n <= s.left
      BY <2>2, <3>2, <3>3
    <3>5. \A i \in S \ s.open : Room(i) <= 0 /\ s.give[i] = Room(i)
      BY <3>2
    <3> HIDE DEF s, zero
    <3>6. s.left + Total(s.give) = Pool
      BY <2>1, <2>2, <3>2
    <3>7. 0 * Cardinality(s.open) <= s.left
      BY <3>2, <3>4
    <3> QED
      BY <2>2, <3>1, <3>2, <3>3, <3>5, <3>6, <3>7 DEF Pouring
  <2>4. s.open = S /\ n + 0 <= n
    BY <1>1
  <2>5. rounds[0] = s
    BY <1>2
  <2> HIDE DEF s
  <2> QED
    BY <1>1, <2>3, <2>4, <2>5
<1>4. ASSUME NEW k \in 0 .. n - 1, k \in P PROVE k + 1 \in P
  <2>1. k + 1 \in 1 .. n /\ k + 1 \in 0 .. n /\ (k + 1) - 1 = k /\ k \in Nat
    BY <1>1
  <2> DEFINE s == rounds[k]
  <2>2. rounds[k + 1] = IF s.open = {} \/ s.left = 0 THEN s ELSE Round(s)
    BY <1>2, <2>1
  <2>3. Inv(k)
    BY <1>4
  <2>4. CASE s.open = {} \/ s.left = 0
    <3>1. rounds[k + 1] = s
      BY <2>2, <2>4
    <3>2. Pouring(S, s) => s.open = {}
      BY <2>4 DEF Pouring
    <3>3. Inv(k + 1)
      BY <2>3, <3>1, <3>2
    <3> QED
      BY <2>1, <3>3
  <2>5. CASE ~(s.open = {} \/ s.left = 0)
    <3>1. ~(\E q : Settled(S, s, q))
      BY <2>5 DEF Settled
    <3>2. Pouring(S, s) /\ Cardinality(s.open) + k <= n
      BY <2>3, <2>5, <3>1
    <3>3. rounds[k + 1] = Round(s)
      BY <2>2, <2>5
    <3>4. \/ Pouring(S, Round(s)) /\ Cardinality(Round(s).open) < Cardinality(s.open)
          \/ \E q : Settled(S, Round(s), q)
      BY <2>5, <3>2, RoundStep
    <3>5. Pouring(S, Round(s)) => Cardinality(Round(s).open) \in Nat
      <4>1. Pouring(S, Round(s)) => Round(s).open \subseteq S
        BY DEF Pouring
      <4> QED
        BY <1>1, <4>1, FS_Subset, FS_CardinalityType
    <3>6. Cardinality(s.open) \in Nat
      <4>1. s.open \subseteq S
        BY <3>2 DEF Pouring
      <4> QED
        BY <1>1, <4>1, FS_Subset, FS_CardinalityType
    <3> HIDE DEF s, n
    <3>7. Inv(k + 1)
      BY <1>1, <2>1, <3>2, <3>3, <3>4, <3>5, <3>6
    <3> QED
      BY <2>1, <3>7
  <2> QED
    BY <2>4, <2>5
<1>5. Inv(n)
  <2> HIDE DEF P, n, Inv
  <2>1. 0 .. n \subseteq P
    BY <1>1, <1>3, <1>4, UpTo
  <2> QED
    BY <1>1, <2>1 DEF P
<1>6. Pouring(S, rounds[n]) /\ Cardinality(rounds[n].open) + n <= n => rounds[n].open = {}
  <2> SUFFICES ASSUME Pouring(S, rounds[n]), Cardinality(rounds[n].open) + n <= n
               PROVE  rounds[n].open = {}
    OBVIOUS
  <2>1. IsFiniteSet(rounds[n].open)
    <3>1. rounds[n].open \subseteq S
      BY DEF Pouring
    <3> QED
      BY <1>1, <3>1, FS_Subset
  <2>2. Cardinality(rounds[n].open) \in Nat
    BY <2>1, FS_CardinalityType
  <2> HIDE DEF n
  <2>3. Cardinality(rounds[n].open) = 0
    BY <1>1, <2>2
  <2> QED
    BY <2>1, <2>3, FS_EmptySet
<1> QED
  BY <1>2, <1>5, <1>6

\* What WaterFill makes of the receivers, and when it is content with them.
LEMMA PouredFairly ==
    ASSUME NEW S, Pourable(S)
    PROVE  LET s == Poured(S)
           IN /\ s.give \in [S -> Nat]
              /\ ~IsDust(s) <=> MinGive * Cardinality(S) <= Pool
              /\ ~IsDust(s) => \A i \in S : MinGive <= s.give[i]
              /\ \A i \in S : s.give[i] <= Room(i)
              /\ \A i, j \in S : s.give[i] < s.give[j] => s.give[i] = Room(i)
              /\ Total(s.give) <= Pool
              /\ \/ Total(s.give) + Cardinality(S) > Pool
                 \/ \A i \in S : s.give[i] = Room(i)
<1> DEFINE s == Poured(S)
           n == Cardinality(S)
<1>1. IsFiniteSet(S) /\ n \in Nat /\ Pool \in Nat /\ MinGive \in Nat \ {0}
  BY FS_CardinalityType, SplitAssumption DEF Pourable
<1>2. \A i \in S : Room(i) \in Nat /\ MinGive <= Room(i)
  BY CandidateFacts DEF Pourable
<1>3. \/ Pouring(S, s) /\ s.open = {}
      \/ \E q : Settled(S, s, q)
  BY PouredFacts
<1>4. s.give \in [S -> Nat]
  BY <1>3 DEF Pouring, Settled
<1>5. Total(s.give) \in Nat
  BY <1>1, <1>4, TotalFacts
<1>6. (\A i \in S : MinGive <= s.give[i]) => MinGive * n <= Total(s.give)
  BY <1>1, <1>4, TotalBounds
<1>7. MinGive * n \in Nat
  BY <1>1
<1> HIDE DEF s, n
<1>8. CASE Pouring(S, s) /\ s.open = {}
  <2>1. \A i \in S : s.give[i] = Room(i)
    BY <1>8 DEF Pouring
  <2>2. ~IsDust(s)
    BY <1>8 DEF IsDust
  <2>3. s.left \in Nat /\ s.left + Total(s.give) = Pool
    BY <1>8 DEF Pouring
  <2>4. Total(s.give) <= Pool
    BY <1>1, <1>5, <2>3
  <2>5. \A i \in S : MinGive <= s.give[i] /\ s.give[i] <= Room(i)
    BY <1>2, <2>1
  <2>6. MinGive * n <= Pool
    BY <1>1, <1>5, <1>6, <1>7, <2>4, <2>5
  <2> QED
    BY <1>4, <2>1, <2>2, <2>4, <2>5, <2>6 DEF s, n
<1>9. ASSUME NEW q, Settled(S, s, q)
      PROVE  /\ ~IsDust(s) <=> MinGive * n <= Pool
             /\ ~IsDust(s) => \A i \in S : MinGive <= s.give[i]
             /\ \A i \in S : s.give[i] <= Room(i)
             /\ \A i, j \in S : s.give[i] < s.give[j] => s.give[i] = Room(i)
             /\ Total(s.give) <= Pool
             /\ Total(s.give) + n > Pool
  <2>1. /\ s.open \in SUBSET S /\ s.open # {} /\ q \in Nat
        /\ \A i \in S \ s.open : s.give[i] = Room(i) /\ Room(i) <= q
        /\ \A i \in s.open : s.give[i] = q /\ q < Room(i)
        /\ Total(s.give) <= Pool /\ Pool < Total(s.give) + Cardinality(s.open)
    BY <1>9 DEF Settled
  <2>2. IsDust(s) <=> q < MinGive
    BY <1>1, <2>1 DEF IsDust
  <2>3. \A i \in S : s.give[i] <= Room(i)
    BY <1>2, <2>1
  <2>4. \A i, j \in S : s.give[i] < s.give[j] => s.give[i] = Room(i)
    BY <1>2, <2>1
  <2>5. Cardinality(s.open) \in Nat /\ Cardinality(s.open) <= n
    BY <1>1, <2>1, FS_Subset, FS_CardinalityType DEF n
  <2>6. Total(s.give) + n > Pool
    BY <1>1, <1>5, <2>1, <2>5
  <2>7. CASE MinGive <= q
    <3>1. \A i \in S : MinGive <= s.give[i]
      BY <1>1, <1>2, <2>1, <2>7
    <3>2. MinGive * n <= Pool
      BY <1>1, <1>5, <1>6, <1>7, <2>1, <3>1
    <3>3. ~IsDust(s)
      BY <1>1, <2>1, <2>2, <2>7
    <3> QED
      BY <2>1, <2>3, <2>4, <2>6, <3>1, <3>2, <3>3
  <2>8. CASE ~(MinGive <= q)
    <3>1. \A i \in S : i \in s.open
      <4> SUFFICES ASSUME NEW i \in S, i \notin s.open PROVE FALSE
        OBVIOUS
      <4>1. Room(i) \in Nat /\ MinGive <= Room(i) /\ Room(i) <= q
        BY <1>2, <2>1
      <4> QED
        BY <1>1, <2>1, <2>8, <4>1
    <3>2. \A i \in S : s.give[i] <= q
      BY <2>1, <3>1
    <3>3. Total(s.give) <= q * n
      BY <1>1, <1>4, <2>1, <3>2, TotalBounds DEF n
    <3>4. PICK d \in Nat : MinGive = q + 1 + d
      <4>1. MinGive - q - 1 \in Nat /\ MinGive = q + 1 + (MinGive - q - 1)
        BY <1>1, <2>1, <2>8
      <4> QED
        BY <4>1
    <3>5. MinGive * n = q * n + n + d * n /\ d * n \in Nat /\ q * n \in Nat
      BY <1>1, <2>1, <3>4
    <3> DEFINE a == MinGive * n
               b == q * n
               c == d * n
    <3>6. a = b + n + c /\ a \in Nat /\ b \in Nat /\ c \in Nat /\ Total(s.give) <= b
      BY <1>7, <3>3, <3>5
    <3> HIDE DEF a, b, c
    <3>7. Pool < a
      BY <1>1, <1>5, <2>6, <3>6
    <3>8. ~(a <= Pool)
      BY <1>1, <3>6, <3>7
    <3>9. IsDust(s)
      BY <1>1, <2>1, <2>2, <2>8
    <3> QED
      BY <2>1, <2>3, <2>4, <2>6, <3>8, <3>9 DEF a
  <2> QED
    BY <2>7, <2>8
<1> QED
  <2>1. CASE \E q : Settled(S, s, q)
    BY <1>4, <1>9, <2>1 DEF s, n
  <2> QED
    BY <1>3, <1>8, <2>1

\* The attempts of WaterFill, with one receiver more each.
LEMMA WaterFillSteps ==
    \E kept :
        /\ WaterFill = kept[Min({MaxReceivers, Cardinality(Candidates)})]
        /\ kept[0] = NoGives
        /\ \A n \in 1 .. MaxReceivers :
              kept[n] = IF IsDust(Poured(LeastFull(n))) THEN kept[n - 1]
                        ELSE Poured(LeastFull(n)).give
<1> DEFINE top == MaxReceivers
           base == NoGives
           Next(g, n) == IF IsDust(Poured(LeastFull(n))) THEN g ELSE Poured(LeastFull(n)).give
           Follows(g, m) == g = [n \in 0 .. m |-> IF n = 0 THEN base ELSE Next(g[n - 1], n)]
           kept[n \in 0 .. top] == IF n = 0 THEN base ELSE Next(kept[n - 1], n)
<1>1. top \in Nat
  BY SplitAssumption
<1>2. WaterFill = kept[Min({MaxReceivers, Cardinality(Candidates)})]
  BY DEF WaterFill
<1>3. kept = CHOOSE g : Follows(g, top)
  BY DEF kept
<1> HIDE DEF kept, top, base, Next
<1>4. \E g : Follows(g, top)
  <2> DEFINE P == {m \in 0 .. top : \E g : Follows(g, m)}
  <2>1. 0 \in P
    <3>1. Follows([k \in 0 .. 0 |-> base], 0)
      OBVIOUS
    <3> HIDE DEF Follows
    <3> QED
      BY <1>1, <3>1
  <2>2. ASSUME NEW m \in 0 .. top - 1, m \in P PROVE m + 1 \in P
    <3>1. PICK g : Follows(g, m)
      BY <2>2
    <3> DEFINE h == [k \in 0 .. m + 1 |-> IF k <= m THEN g[k] ELSE Next(g[m], m + 1)]
    <3>2. ASSUME NEW k \in 0 .. m + 1
          PROVE h[k] = IF k = 0 THEN base ELSE Next(h[k - 1], k)
      <4>1. CASE k = m + 1
        <5>1. h[k] = Next(g[m], k) /\ h[k - 1] = g[m]
          BY <4>1
        <5> QED
          BY <4>1, <5>1
      <4>2. CASE k \in 0 .. m
        <5>1. g[k] = IF k = 0 THEN base ELSE Next(g[k - 1], k)
          BY <3>1, <4>2
        <5>2. h[k] = g[k] /\ (k # 0 => h[k - 1] = g[k - 1])
          BY <4>2
        <5> QED
          BY <5>1, <5>2
      <4> QED
        BY <4>1, <4>2
    <3>3. Follows(h, m + 1)
      <4>1. h = [k \in 0 .. m + 1 |-> h[k]]
        OBVIOUS
      <4> HIDE DEF h
      <4> QED
        BY <3>2, <4>1
    <3>4. m + 1 \in 0 .. top
      BY <1>1
    <3> HIDE DEF Follows
    <3> QED
      BY <3>3, <3>4
  <2> HIDE DEF P
  <2>3. top \in P
    <3>1. 0 .. top \subseteq P
      BY <1>1, <2>1, <2>2, UpTo
    <3> QED
      BY <1>1, <3>1
  <2> QED
    BY <2>3 DEF P
<1>5. Follows(kept, top)
  <2> HIDE DEF Follows
  <2> QED
    BY <1>3, <1>4
<1>6. kept[0] = base /\ \A n \in 1 .. top : kept[n] = Next(kept[n - 1], n)
  BY <1>1, <1>5
<1> QED
  BY <1>2, <1>6 DEF top, base, Next

\* The pool is not more than the sender has.
LEMMA PoolFacts ==
    ASSUME SplitTypeOK, SenderMayGive
    PROVE  Pool \in Nat /\ Pool <= stock[Sender] /\ stock[Sender] \in Nat
<1> DEFINE h == stock[Sender]
           a == (h - threshold) \div Divisor
           b == (h * 999999) \div 1000000
<1>1. h \in Nat /\ threshold \in Int /\ h - threshold \in Nat
  BY SplitAssumption DEF SplitTypeOK, SenderMayGive
<1>2. a \in Nat
  BY <1>1, SplitAssumption, DivMod
<1>3. b \in Nat /\ b <= h
  <2> HIDE DEF h
  <2> QED
    BY <1>1
<1>4. Pool = Min({a, b})
  BY DEF Pool
<1> HIDE DEF a, b, h
<1>5. Pool \in {a, b} /\ Pool <= b
  BY <1>2, <1>3, <1>4 DEF Min
<1> QED
  BY <1>1, <1>2, <1>3, <1>5 DEF h

\* Least of two numbers.
LEMMA MinOfTwo ==
    ASSUME NEW a \in Nat, NEW b \in Nat
    PROVE  Min({a, b}) = IF a <= b THEN a ELSE b
BY DEF Min

\* The plan WaterFill ends with: as many of the least full as the pool has smallest
\* gives for.
LEMMA WaterFillIs ==
    ASSUME SplitTypeOK, Pool \in Nat, MinGive <= Pool
    PROVE  LET S == LeastFull(Min({MaxReceivers, Pool \div MinGive}))
           IN \/ WaterFill = NoGives /\ S = {}
              \/ WaterFill = Poured(S).give /\ ~IsDust(Poured(S)) /\ S # {}
<1> DEFINE c == Cardinality(Candidates)
           top == Min({MaxReceivers, c})
           K == Pool \div MinGive
           goal == Min({MaxReceivers, K})
           S(n) == LeastFull(n)
<1>0. MinGive \in Nat \ {0} /\ MaxReceivers \in Nat \ {0}
  BY SplitAssumption
<1>1. c \in Nat
  BY CandidateFacts, FS_CardinalityType
<1>2. K \in Nat /\ \A n \in Nat : MinGive * n <= Pool <=> n <= K
  <2> DEFINE t == Pool % MinGive
  <2>1. K \in Nat /\ t \in 0 .. MinGive - 1 /\ Pool = MinGive * K + t
    BY <1>0, DivMod
  <2> HIDE DEF K, t
  <2>2. ASSUME NEW n \in Nat, n <= K PROVE MinGive * n <= Pool
    <3>1. PICK d \in Nat : K = n + d
      <4>1. K - n \in Nat /\ K = n + (K - n)
        BY <2>1, <2>2
      <4> QED
        BY <4>1
    <3>2. MinGive * K = MinGive * n + MinGive * d /\ MinGive * d \in Nat /\ MinGive * n \in Nat
      BY <1>0, <3>1
    <3> QED
      BY <2>1, <3>2
  <2>3. ASSUME NEW n \in Nat, MinGive * n <= Pool PROVE n <= K
    <3>1. n * MinGive <= Pool
      BY <1>0, <2>3
    <3> QED
      BY <1>0, <3>1, ShareFacts DEF K
  <2> QED
    BY <2>1, <2>2, <2>3
<1>3. 1 <= K
  <2>1. MinGive * 1 <= Pool
    BY <1>0
  <2> HIDE DEF K
  <2> QED
    BY <1>2, <2>1
<1>4. /\ top = IF MaxReceivers <= c THEN MaxReceivers ELSE c
      /\ goal = IF MaxReceivers <= K THEN MaxReceivers ELSE K
  <2> HIDE DEF c, K
  <2> QED
    BY <1>0, <1>1, <1>2, MinOfTwo
<1>5. \A n \in 1 .. top : /\ n \in 1 .. MaxReceivers /\ n \in Nat
                          /\ Cardinality(S(n)) = n /\ Pourable(S(n)) /\ S(n) # {}
  <2> SUFFICES ASSUME NEW n \in 1 .. top
               PROVE  /\ n \in 1 .. MaxReceivers /\ n \in Nat
                      /\ Cardinality(S(n)) = n /\ Pourable(S(n)) /\ S(n) # {}
    OBVIOUS
  <2>1. n \in Nat /\ n <= c /\ n \in 1 .. MaxReceivers
    <3> HIDE DEF c, top
    <3> QED
      BY <1>0, <1>1, <1>4
  <2>2. S(n) \subseteq Candidates /\ IsFiniteSet(S(n)) /\ Cardinality(S(n)) = n
    BY <2>1, LeastFullFacts
  <2>3. Pool \in Nat \ {0}
    BY <1>0
  <2>4. S(n) # {}
    <3>1. n # 0
      BY <2>1
    <3> HIDE DEF S
    <3> QED
      BY <2>2, <3>1, FS_EmptySet
  <2> QED
    BY <2>1, <2>2, <2>3, <2>4 DEF Pourable
<1>6. ASSUME NEW n \in 1 .. top PROVE IsDust(Poured(S(n))) <=> K < n
  <2>1. ~IsDust(Poured(S(n))) <=> MinGive * Cardinality(S(n)) <= Pool
    BY <1>5, PouredFairly
  <2>2. n \in Nat /\ Cardinality(S(n)) = n
    BY <1>5
  <2> HIDE DEF K, S
  <2> QED
    BY <1>2, <2>1, <2>2
<1>7. PICK kept :
        /\ WaterFill = kept[top]
        /\ kept[0] = NoGives
        /\ \A n \in 1 .. MaxReceivers :
              kept[n] = IF IsDust(Poured(S(n))) THEN kept[n - 1] ELSE Poured(S(n)).give
  BY WaterFillSteps
<1> DEFINE Inv(n) == kept[n] = IF n = 0 THEN NoGives
                               ELSE IF n <= K THEN Poured(S(n)).give ELSE Poured(S(K)).give
           P == {n \in 0 .. top : Inv(n)}
<1> HIDE DEF c, K, S, top, goal
<1>8. top \in Nat
  BY <1>0, <1>1, <1>4
<1>9. 0 \in P
  BY <1>7, <1>8
<1>10. ASSUME NEW n \in 0 .. top - 1, n \in P PROVE n + 1 \in P
  <2>1. n + 1 \in 1 .. top /\ n + 1 \in 0 .. top /\ (n + 1) - 1 = n /\ n \in Nat
    BY <1>8
  <2>2. kept[n + 1] = IF IsDust(Poured(S(n + 1))) THEN kept[n] ELSE Poured(S(n + 1)).give
    BY <1>5, <1>7, <2>1
  <2>3. IsDust(Poured(S(n + 1))) <=> K < n + 1
    BY <1>6, <2>1
  <2>4. Inv(n)
    BY <1>10
  <2>5. CASE n + 1 <= K
    <3>1. kept[n + 1] = Poured(S(n + 1)).give
      BY <1>2, <2>1, <2>2, <2>3, <2>5
    <3>2. Inv(n + 1)
      BY <2>1, <2>5, <3>1
    <3> QED
      BY <2>1, <3>2
  <2>6. CASE ~(n + 1 <= K)
    <3>1. kept[n + 1] = kept[n] /\ n # 0
      BY <1>2, <1>3, <2>1, <2>2, <2>3, <2>6
    <3>2. n <= K => n = K
      BY <1>2, <2>1, <2>6
    <3>3. kept[n] = Poured(S(K)).give
      BY <2>4, <3>1, <3>2
    <3>4. Inv(n + 1)
      BY <2>1, <2>6, <3>1, <3>3
    <3> QED
      BY <2>1, <3>4
  <2> QED
    BY <2>5, <2>6
<1>11. Inv(top)
  <2> HIDE DEF P, Inv
  <2>1. 0 .. top \subseteq P
    BY <1>8, <1>9, <1>10, UpTo
  <2> QED
    BY <1>8, <2>1 DEF P
<1>12. CASE top = 0
  <2>1. c = 0
    BY <1>0, <1>1, <1>4, <1>12
  <2>2. Candidates = {}
    BY <2>1, CandidateFacts, FS_EmptySet DEF c
  <2>3. goal \in Nat
    BY <1>0, <1>2, <1>4
  <2>4. S(goal) = {}
    BY <2>2, <2>3, LeastFullFacts DEF S
  <2>5. WaterFill = NoGives
    BY <1>7, <1>12
  <2> QED
    BY <2>4, <2>5 DEF goal, S, K
<1>13. CASE top # 0
  <2> DEFINE m == IF top <= K THEN top ELSE K
  <2>1. m \in 1 .. top /\ m <= K
    BY <1>2, <1>3, <1>8, <1>13
  <2>2. WaterFill = Poured(S(m)).give
    BY <1>7, <1>11, <1>13
  <2>3. S(goal) = S(m)
    <3>1. CASE goal = m
      BY <3>1
    <3>2. CASE goal # m
      <4>1. goal \in Nat /\ m \in Nat /\ goal >= c /\ m >= c
        BY <1>0, <1>1, <1>2, <1>4, <2>1, <3>2
      <4> HIDE DEF m
      <4>2. S(goal) = Candidates
        BY <4>1, LeastFullFacts DEF S, c
      <4>3. S(m) = Candidates
        BY <4>1, LeastFullFacts DEF S, c
      <4> QED
        BY <4>2, <4>3
    <3> QED
      BY <3>1, <3>2
  <2> HIDE DEF m
  <2>4. ~IsDust(Poured(S(m)))
    BY <1>2, <1>6, <2>1
  <2>5. S(m) # {}
    BY <1>5, <2>1
  <2>6. WaterFill = Poured(S(goal)).give /\ ~IsDust(Poured(S(goal))) /\ S(goal) # {}
    BY <2>2, <2>3, <2>4, <2>5
  <2> QED
    BY <2>6 DEF goal, S, K
<1> QED
  BY <1>12, <1>13

\* The plan for the next pulse is the fairest split there is.
LEMMA PlanIsFair ==
    ASSUME SplitTypeOK
    PROVE  /\ IsFairSplit(Plan)
           /\ DOMAIN Plan \subseteq Candidates
           /\ Plan \in [DOMAIN Plan -> Nat]
<1> DEFINE pours == SenderMayGive /\ Pool >= MinGive /\ capacity[Sender] > 0
           m == Min({MaxReceivers, Pool \div MinGive})
           S == LeastFull(m)
<1>0. MinGive \in Nat \ {0} /\ MaxReceivers \in Nat \ {0}
  BY SplitAssumption
<1>1. DOMAIN NoGives = {} /\ NoGives \in [{} -> Nat]
  BY DEF NoGives
<1>2. ASSUME Plan = NoGives, SenderMayGive /\ capacity[Sender] > 0 => S = {}
      PROVE  /\ IsFairSplit(Plan)
             /\ DOMAIN Plan \subseteq Candidates
             /\ Plan \in [DOMAIN Plan -> Nat]
  BY <1>1, <1>2 DEF IsFairSplit
<1>3. SenderMayGive => Pool \in Nat
  BY PoolFacts
<1>4. SenderMayGive => m \in Nat
  <2> SUFFICES ASSUME SenderMayGive PROVE m \in Nat
    OBVIOUS
  <2>1. Pool \div MinGive \in Nat
    BY <1>0, <1>3, DivMod
  <2> QED
    BY <1>0, <2>1, MinOfTwo
<1>5. CASE ~pours
  <2>1. Plan = NoGives
    BY <1>5 DEF Plan
  <2>2. ASSUME SenderMayGive /\ capacity[Sender] > 0 PROVE S = {}
    <3>1. Pool \in Nat /\ ~(Pool >= MinGive)
      BY <1>3, <1>5, <2>2
    <3>2. Pool \div MinGive = 0
      <4>1. Pool \in 0 .. MinGive - 1 /\ MinGive * 0 + Pool = Pool
        BY <1>0, <3>1
      <4>2. (MinGive * 0 + Pool) \div MinGive = 0
        BY <1>0, <4>1, DivModOf
      <4> QED
        BY <4>1, <4>2
    <3>3. m = 0
      BY <1>0, <3>2, MinOfTwo
    <3>4. Cardinality(LeastFull(0)) = 0 /\ IsFiniteSet(LeastFull(0))
      <4>1. Cardinality(Candidates) \in Nat /\ 0 \in Nat
        BY CandidateFacts, FS_CardinalityType
      <4> QED
        BY <4>1, LeastFullFacts
    <3> QED
      BY <3>3, <3>4, FS_EmptySet
  <2> HIDE DEF S, m
  <2> QED
    BY <1>2, <2>1, <2>2
<1>6. CASE pours
  <2>1. Plan = WaterFill
    BY <1>6 DEF Plan
  <2>2. Pool \in Nat /\ MinGive <= Pool /\ m \in Nat
    BY <1>0, <1>3, <1>4, <1>6
  <2>3. \/ WaterFill = NoGives /\ S = {}
        \/ WaterFill = Poured(S).give /\ ~IsDust(Poured(S)) /\ S # {}
    BY <2>2, WaterFillIs
  <2>4. S \subseteq Candidates /\ IsFiniteSet(S)
    <3> HIDE DEF m
    <3> QED
      BY <2>2, LeastFullFacts
  <2> HIDE DEF S, m
  <2>5. CASE WaterFill = NoGives /\ S = {}
    BY <1>2, <2>1, <2>5
  <2>6. CASE WaterFill = Poured(S).give /\ ~IsDust(Poured(S)) /\ S # {}
    <3> DEFINE g == Poured(S).give
    <3>1. Pourable(S)
      BY <1>0, <2>2, <2>4 DEF Pourable
    <3>2. /\ g \in [S -> Nat]
          /\ \A i \in S : MinGive <= g[i]
          /\ \A i \in S : g[i] <= Room(i)
          /\ \A i, j \in S : g[i] < g[j] => g[i] = Room(i)
          /\ Total(g) <= Pool
          /\ \/ Total(g) + Cardinality(S) > Pool
             \/ \A i \in S : g[i] = Room(i)
      BY <2>6, <3>1, PouredFairly
    <3>3. Plan = g
      BY <2>1, <2>6
    <3> HIDE DEF g
    <3>4. DOMAIN g = S
      BY <3>2
    <3>5. PlanHolds(g)
      BY <3>2, <3>4 DEF PlanHolds
    <3>6. IsFairSplit(g)
      BY <1>6, <3>2, <3>4, <3>5 DEF IsFairSplit, S, m
    <3> QED
      BY <2>4, <3>2, <3>3, <3>4, <3>6
  <2> QED
    BY <2>3, <2>5, <2>6
<1> QED
  BY <1>5, <1>6

-----------------------------------------------------------------------------
(* Theorems on the split *)

LEMMA SplitInitType ==
    ASSUME SplitInit PROVE SplitTypeOK
<1>1. PICK holding \in [SplitSlots -> Holdings], setting \in Thresholds, players \in SUBSET SplitSlots :
         SplitInitWith(holding, setting, players)
  BY DEF SplitInit
<1>2. \A i \in SplitSlots : holding[i].max \in Nat /\ holding[i].stock \in 0 .. holding[i].max
  BY SplitAssumption
<1> QED
  BY <1>1, <1>2 DEF SplitInitWith, SplitTypeOK, NoGives

\* A pulse moves what the plan says, and nobody's stock leaves its storage.
LEMMA SplitStepType ==
    ASSUME SplitTypeOK, [SplitNext]_splitVars PROVE SplitTypeOK'
<1>1. CASE UNCHANGED splitVars
  BY <1>1 DEF SplitTypeOK, splitVars
<1>2. CASE Pulse
  <2>1. /\ DOMAIN Plan \subseteq Candidates /\ Plan \in [DOMAIN Plan -> Nat]
        /\ Candidates \subseteq SplitSlots \ {Sender} /\ IsFiniteSet(Candidates)
    BY PlanIsFair, CandidateFacts
  <2>2. Total(Plan) \in Nat
    BY <2>1, TotalFacts, FS_Subset
  <2>3. /\ gives' = Plan /\ capacity' = capacity /\ threshold' = threshold /\ ready' = ready
        /\ stock' = IF Plan # NoGives /\ PlanHolds(Plan)
                    THEN [i \in SplitSlots |->
                            IF i \in DOMAIN Plan THEN stock[i] + Plan[i]
                            ELSE IF i = Sender THEN stock[i] - Total(Plan) ELSE stock[i]]
                    ELSE stock
    BY <1>2 DEF Pulse
  <2>4. \A i \in SplitSlots : capacity[i] \in Nat /\ stock[i] \in 0 .. capacity[i]
    BY DEF SplitTypeOK
  <2>5. ASSUME NEW i \in SplitSlots PROVE stock'[i] \in 0 .. capacity[i]
    <3>1. CASE ~(Plan # NoGives /\ PlanHolds(Plan))
      BY <2>3, <2>4, <3>1
    <3>2. CASE Plan # NoGives /\ PlanHolds(Plan)
      <4>1. stock'[i] = IF i \in DOMAIN Plan THEN stock[i] + Plan[i]
                        ELSE IF i = Sender THEN stock[i] - Total(Plan) ELSE stock[i]
        BY <2>3, <3>2
      <4>2. CASE i \in DOMAIN Plan
        <5>1. Plan[i] \in Nat /\ Plan[i] <= capacity[i] - stock[i]
          BY <2>1, <3>2, <4>2 DEF PlanHolds, Room
        <5> QED
          BY <2>4, <4>1, <4>2, <5>1
      <4>3. CASE i \notin DOMAIN Plan /\ i = Sender
        <5>1. SenderMayGive
          BY <3>2 DEF Plan
        <5>2. Pool \in Nat /\ Pool <= stock[Sender] /\ Total(Plan) <= Pool
          BY <3>2, <5>1, PoolFacts DEF PlanHolds
        <5>3. stock'[i] = stock[i] - Total(Plan)
          BY <4>1, <4>3
        <5>4. stock[i] \in Nat /\ capacity[i] \in Nat /\ stock[i] <= capacity[i] /\ Total(Plan) <= stock[i]
          BY <2>2, <2>4, <4>3, <5>2
        <5> QED
          BY <2>2, <5>3, <5>4
      <4>4. CASE i \notin DOMAIN Plan /\ i # Sender
        BY <2>4, <4>1, <4>4
      <4> QED
        BY <4>2, <4>3, <4>4
    <3> QED
      BY <3>1, <3>2
  <2>6. DOMAIN gives' \subseteq SplitSlots \ {Sender}
    BY <2>1, <2>3
  <2> QED
    BY <2>3, <2>5, <2>6 DEF SplitTypeOK
<1> QED
  BY <1>1, <1>2 DEF SplitNext

\* The split's variables keep their types; no pulse fills a storage beyond its size
\* or overdraws the sender.
THEOREM SplitTypeInvariant == SplitSpec => []SplitTypeOK
<1>1. SplitInit => SplitTypeOK
  BY SplitInitType
<1>2. SplitTypeOK /\ [SplitNext]_splitVars => SplitTypeOK'
  BY SplitStepType
<1> QED
  BY <1>1, <1>2, PTL DEF SplitSpec

\* Whatever the sender and its allies own, WaterFill finds the fairest split there
\* is: as many of the least full allies as the pool has smallest gives for, all
\* with the same but for those who are full with less, and nothing left but a
\* rounding unless all are full.
THEOREM FairSplitHolds == SplitSpec => []FairSplit
<1>1. SplitTypeOK => FairSplit
  BY PlanIsFair DEF FairSplit
<1> QED
  BY <1>1, SplitTypeInvariant, PTL
=============================================================================
