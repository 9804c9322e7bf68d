--------------------------- MODULE ServicesProofs ----------------------------
(***************************************************************************)
(* That the lag-switch guard freezes a client only in silence and that a   *)
(* frozen client stands still, for any number of clients, any failing      *)
(* links, and any thresholds with an interval no longer than the silence   *)
(* that freezes; that the sequence lock of the status exporter works, for  *)
(* any fields, any values and any number of writes; and that the nine      *)
(* components of MCServices keep their specifications side by side, so     *)
(* that what is proved of each alone holds in the run of all.              *)
(***************************************************************************)
EXTENDS MCServices, SharingProofs, IntegrityProofs, DemoProofs, TLAPS

-----------------------------------------------------------------------------
(* The lag-switch guard *)

Ages == 0 .. FreezeThreshold
Leaks == 0 .. LeakInterval

\* What was tracked of a player is not older than the time nothing of it was dispatched.
SilenceIsTracked ==
    \A c \in Clients : \A p \in Others(c) \ heard[c] : track[c][p] <= quiet[c][p]

\* A frozen client found everybody silent in its last frame.
FrozenInSilence ==
    \A c \in Clients : frozen[c] => \A p \in Others(c) : track[c][p] >= FreezeThreshold

\* The time of the last leak is known while frozen; afterwards somebody was heard
\* since, so that a new silence is longer than an interval.
LeakIsRemembered ==
    \A c \in Clients :
        /\ frozen[c] => leakAge[c] <= still[c]
        /\ ~frozen[c] => \/ still[c] >= LeakInterval
                         \/ c \notin playing
                         \/ Others(c) = {}
                         \/ \E p \in Others(c) : track[c][p] <= still[c]

LagInv == LagTypeOK /\ SilenceIsTracked /\ FrozenInSilence /\ LeakIsRemembered

-----------------------------------------------------------------------------
(* Facts about the operators *)

LEMMA Intervals ==
    /\ FreezeThreshold \in Nat /\ LeakInterval \in Nat /\ FreezeThreshold > 0
    /\ LeakInterval > 0 /\ LeakInterval <= FreezeThreshold
BY LagAssumption

LEMMA OlderAge ==
  ASSUME NEW limit \in Nat, NEW age \in 0 .. limit
  PROVE  /\ Older(age, limit) \in 0 .. limit
         /\ Older(age, limit) = limit \/ Older(age, limit) = age + 1
         /\ Older(age, limit) >= age
BY DEF Older

TrackAges == [Clients -> {Untracked} \cup Ages]

LEMMA WipedType == Wiped \in TrackAges
BY DEF Wiped, TrackAges

LEMMA TrackedType ==
  ASSUME LagTypeOK, NEW c \in Clients
  PROVE  Tracked(c) \in TrackAges
<1>1. track[c] \in TrackAges
  BY DEF LagTypeOK, TrackAges, Ages
<1>2. 0 \in Ages
  BY Intervals DEF Ages
<1> QED
  BY <1>1, <1>2 DEF Tracked, TrackAges

-----------------------------------------------------------------------------
(* Types *)

LEMMA LagTypeInit == LagInit => LagTypeOK
<1> SUFFICES ASSUME LagInit PROVE LagTypeOK
    OBVIOUS
<1>1. 0 \in Ages /\ 0 \in Leaks /\ LeakInterval \in Leaks
  BY Intervals DEF Ages, Leaks
<1>2. track \in [Clients -> TrackAges] /\ quiet \in [Clients -> [Clients -> Ages]]
  BY <1>1, WipedType DEF LagInit
<1>3. leakAge \in [Clients -> Leaks] /\ still \in [Clients -> Leaks]
  BY <1>1 DEF LagInit
<1> QED
  BY <1>2, <1>3 DEF LagInit, LagTypeOK, TrackAges, Ages, Leaks

LEMMA LagTypeStep == LagTypeOK /\ [LagNext]_lagVars => LagTypeOK'
<1> SUFFICES ASSUME LagTypeOK, [LagNext]_lagVars PROVE LagTypeOK'
    OBVIOUS
<1>0. 0 \in Ages /\ 0 \in Leaks /\ LeakInterval \in Leaks
  BY Intervals DEF Ages, Leaks
<1>1. ASSUME NEW c \in Clients, Frame(c) PROVE LagTypeOK'
  <2>1. track' \in [Clients -> TrackAges]
    <3>1. track \in [Clients -> TrackAges]
      BY DEF LagTypeOK, TrackAges, Ages
    <3>2. track' = [track EXCEPT ![c] = IF Skips(c) THEN Wiped ELSE Tracked(c)]
      BY <1>1 DEF Frame
    <3> QED BY <3>1, <3>2, TrackedType, WipedType
  <2>2. leakAge' \in [Clients -> Leaks] /\ still' \in [Clients -> Leaks]
    BY <1>0, <1>1 DEF Frame, Leaked, LagTypeOK, Leaks
  <2>3. frozen' \in [Clients -> BOOLEAN]
    <3>1. Freezes(c) \in BOOLEAN
      BY DEF Freezes, Skips, AllSilent
    <3> QED BY <1>1, <3>1 DEF Frame, LagTypeOK
  <2>4. heard' \in [Clients -> SUBSET Clients]
    BY <1>1 DEF Frame, LagTypeOK
  <2>5. inbox' \in [Clients -> SUBSET Clients]
    BY <1>1 DEF Frame, LagTypeOK
  <2>6. quiet' \in [Clients -> [Clients -> Ages]]
    <3>1. quiet \in [Clients -> [Clients -> Ages]]
      BY DEF LagTypeOK, Ages
    <3>2. \A p \in Clients : quiet[c][p] \in Ages
      BY <3>1
    <3>3. [p \in Clients |-> IF (paused[c] /\ ~frozen[c]) \/ (Runs(c) /\ p \in inbox[c]) THEN 0
                             ELSE quiet[c][p]] \in [Clients -> Ages]
      BY <1>0, <3>2
    <3> QED BY <1>1, <3>1, <3>3 DEF Frame
  <2>7. paused' \in [Clients -> BOOLEAN] /\ pauseMsg' \in [Clients -> {"None", "Pause", "Resume"}]
    <3>1. CASE Dispatches(c) /\ c \in linked /\ pauseMsg[c] # "None"
      BY <1>1, <3>1 DEF Frame, LagTypeOK
    <3>2. CASE ~(Dispatches(c) /\ c \in linked /\ pauseMsg[c] # "None")
      BY <1>1, <3>2 DEF Frame, LagTypeOK
    <3> QED BY <3>1, <3>2
  <2>8. playing' \subseteq Clients /\ linked' \subseteq Clients /\ rendered' \subseteq Clients
    BY <1>1 DEF Frame, LagTypeOK
  <2> QED
    BY <2>1, <2>2, <2>3, <2>4, <2>5, <2>6, <2>7, <2>8 DEF LagTypeOK, TrackAges, Ages, Leaks
<1>2. ASSUME NEW c \in Clients, PauseKey(c) PROVE LagTypeOK'
  <2>1. paused' \in [Clients -> BOOLEAN]
    BY <1>2 DEF PauseKey, LagTypeOK
  <2>2. pauseMsg' \in [Clients -> {"None", "Pause", "Resume"}]
    BY <1>2 DEF PauseKey, LagTypeOK
  <2> QED
    BY <1>2, <2>1, <2>2 DEF PauseKey, LagTypeOK
<1>3. ASSUME NEW c \in Clients, LinkFails(c) PROVE LagTypeOK'
  BY <1>3 DEF LinkFails, LagTypeOK
<1>4. ASSUME NEW c \in Clients, LinkReturns(c) PROVE LagTypeOK'
  BY <1>4 DEF LinkReturns, LagTypeOK
<1>5. ASSUME NEW c \in Clients, PlayerLeaves(c) PROVE LagTypeOK'
  <2>1. still' \in [Clients -> Leaks]
    BY <1>0, <1>5 DEF PlayerLeaves, LagTypeOK, Leaks
  <2> QED
    BY <1>5, <2>1 DEF PlayerLeaves, LagTypeOK, Leaks
<1>6. CASE Clock
  <2>1. track' \in [Clients -> TrackAges]
    <3>1. \A c, p \in Clients : track[c][p] # Untracked => track[c][p] \in Ages
      BY DEF LagTypeOK, Ages
    <3>2. \A c, p \in Clients :
             track[c][p] # Untracked => Older(track[c][p], FreezeThreshold) \in Ages
      BY <3>1, OlderAge, Intervals DEF Ages
    <3> QED BY <1>6, <3>2 DEF Clock, TrackAges
  <2>2. quiet' \in [Clients -> [Clients -> Ages]]
    <3>1. \A c, p \in Clients : quiet[c][p] \in Ages
      BY DEF LagTypeOK, Ages
    <3>2. \A c, p \in Clients : Older(quiet[c][p], FreezeThreshold) \in Ages
      BY <3>1, OlderAge, Intervals DEF Ages
    <3> QED BY <1>6, <3>2 DEF Clock
  <2>3. leakAge' \in [Clients -> Leaks] /\ still' \in [Clients -> Leaks]
    <3>1. \A c \in Clients : leakAge[c] \in Leaks /\ still[c] \in Leaks
      BY DEF LagTypeOK, Leaks
    <3>2. \A c \in Clients : /\ Older(leakAge[c], LeakInterval) \in Leaks
                             /\ Older(still[c], LeakInterval) \in Leaks
      BY <3>1, OlderAge, Intervals DEF Leaks
    <3> QED BY <1>6, <3>2 DEF Clock
  <2> QED
    BY <1>6, <2>1, <2>2, <2>3 DEF Clock, LagTypeOK, TrackAges, Ages, Leaks
<1>7. CASE UNCHANGED lagVars
  BY <1>7 DEF lagVars, LagTypeOK
<1> QED
  BY <1>1, <1>2, <1>3, <1>4, <1>5, <1>6, <1>7 DEF LagNext

-----------------------------------------------------------------------------
(* The invariant *)

LEMMA LagInvInit == LagInit => SilenceIsTracked /\ FrozenInSilence /\ LeakIsRemembered
<1> SUFFICES ASSUME LagInit PROVE SilenceIsTracked /\ FrozenInSilence /\ LeakIsRemembered
    OBVIOUS
<1>1. \A c, p \in Clients : track[c][p] = -1 /\ quiet[c][p] = 0
  BY DEF LagInit, Wiped, Untracked
<1>2. \A c \in Clients : Others(c) \subseteq Clients
  BY DEF LagInit, Others
<1>3. SilenceIsTracked
  BY <1>1, <1>2 DEF SilenceIsTracked
<1>4. \A c \in Clients : ~frozen[c] /\ still[c] = LeakInterval
  BY DEF LagInit
<1> QED
  BY <1>3, <1>4, Intervals DEF FrozenInSilence, LeakIsRemembered

\* What one frame of a client makes of what it tracks: a player it goes on to track
\* was heard, or is as old as before.
LEMMA TrackedAge ==
  ASSUME LagTypeOK, NEW c \in Clients, NEW p \in Others(c)
  PROVE  /\ Tracked(c)[p] = 0 \/ (p \notin heard[c] /\ Tracked(c)[p] = track[c][p])
         /\ Wiped[p] = -1
         /\ p \in Clients /\ Tracked(c)[p] \in {Untracked} \cup Ages /\ track[c][p] \in {Untracked} \cup Ages
<1>1. p \in Clients
  BY DEF Others, LagTypeOK
<1>2. Tracked(c) \in TrackAges /\ track[c] \in TrackAges
  BY TrackedType DEF LagTypeOK, TrackAges, Ages
<1> QED
  BY <1>1, <1>2 DEF Tracked, Wiped, Untracked, TrackAges

\* A client that freezes found nobody to have been heard.
LEMMA FreezesInSilence ==
  ASSUME LagTypeOK, SilenceIsTracked, NEW c \in Clients, Freezes(c)
  PROVE  /\ Others(c) # {}
         /\ c \in playing
         /\ \A p \in Others(c) : /\ Tracked(c)[p] >= FreezeThreshold
                                 /\ Tracked(c)[p] = track[c][p]
                                 /\ quiet[c][p] >= FreezeThreshold
<1>1. Others(c) # {} /\ \A p \in Others(c) : Tracked(c)[p] >= FreezeThreshold
  BY DEF Freezes, AllSilent
<1>2. c \in playing
  BY DEF Freezes, Skips
<1>3. ASSUME NEW p \in Others(c)
      PROVE  Tracked(c)[p] = track[c][p] /\ quiet[c][p] >= FreezeThreshold
  <2>1. p \notin heard[c] /\ Tracked(c)[p] = track[c][p]
    BY <1>1, TrackedAge, Intervals
  <2>2. track[c][p] <= quiet[c][p]
    BY <2>1 DEF SilenceIsTracked
  <2>3. p \in Clients /\ track[c][p] \in {Untracked} \cup Ages /\ quiet[c][p] \in Ages
    BY TrackedAge DEF LagTypeOK, Ages
  <2> QED
    BY <1>1, <2>1, <2>2, <2>3, Intervals DEF Ages, Untracked
<1> QED
  BY <1>1, <1>2, <1>3

\* The others of a client that a step keeps, and what the steps other than frames and
\* the clock leave alone.
LEMMA OthersShrink ==
  ASSUME LagTypeOK, [LagNext]_lagVars, NEW c \in Clients
  PROVE  Others(c)' \subseteq Others(c) /\ Others(c) \subseteq Clients
BY DEF LagNext, Frame, PauseKey, LinkFails, LinkReturns, PlayerLeaves, Clock, lagVars, Others, LagTypeOK

\* A frame, as far as the invariant looks at it.
LEMMA FrameEffect ==
  ASSUME LagTypeOK, NEW c \in Clients, Frame(c)
  PROVE  /\ UNCHANGED playing
         /\ \A d \in Clients \ {c} :
               /\ track'[d] = track[d] /\ heard'[d] = heard[d] /\ quiet'[d] = quiet[d]
               /\ frozen'[d] = frozen[d] /\ leakAge'[d] = leakAge[d] /\ still'[d] = still[d]
         /\ track'[c] = IF Skips(c) THEN Wiped ELSE Tracked(c)
         /\ frozen'[c] = Freezes(c)
         /\ heard'[c] = IF Runs(c) THEN inbox[c] ELSE {}
         /\ \A p \in Clients : quiet'[c][p] =
               IF (paused[c] /\ ~frozen[c]) \/ (Runs(c) /\ p \in inbox[c]) THEN 0 ELSE quiet[c][p]
         /\ leakAge'[c] = IF Freezes(c) /\ Dispatches(c) THEN 0 ELSE leakAge[c]
         /\ still'[c] = IF Freezes(c) /\ Dispatches(c) THEN 0 ELSE still[c]
<1>1. UNCHANGED playing /\ frozen' = [frozen EXCEPT ![c] = Freezes(c)]
  BY DEF Frame
<1>2. /\ track' = [track EXCEPT ![c] = IF Skips(c) THEN Wiped ELSE Tracked(c)]
      /\ heard' = [heard EXCEPT ![c] = IF Runs(c) THEN inbox[c] ELSE {}]
  BY DEF Frame
<1>3. quiet' = [quiet EXCEPT ![c] = [p \in Clients |->
                  IF (paused[c] /\ ~frozen[c]) \/ (Runs(c) /\ p \in inbox[c]) THEN 0
                  ELSE quiet[c][p]]]
  BY DEF Frame
<1>4. /\ leakAge' = IF Freezes(c) /\ Dispatches(c) THEN [leakAge EXCEPT ![c] = 0] ELSE leakAge
      /\ still' = IF Freezes(c) /\ Dispatches(c) THEN [still EXCEPT ![c] = 0] ELSE still
  BY DEF Frame, Leaked
<1>5. /\ track'[c] = IF Skips(c) THEN Wiped ELSE Tracked(c)
      /\ heard'[c] = IF Runs(c) THEN inbox[c] ELSE {}
      /\ \A d \in Clients \ {c} : track'[d] = track[d] /\ heard'[d] = heard[d]
  BY <1>2 DEF LagTypeOK
<1>6. /\ frozen'[c] = Freezes(c)
      /\ \A d \in Clients \ {c} : frozen'[d] = frozen[d]
  BY <1>1 DEF LagTypeOK
<1>7. /\ \A p \in Clients : quiet'[c][p] =
            IF (paused[c] /\ ~frozen[c]) \/ (Runs(c) /\ p \in inbox[c]) THEN 0 ELSE quiet[c][p]
      /\ \A d \in Clients \ {c} : quiet'[d] = quiet[d]
  BY <1>3 DEF LagTypeOK
<1>8. /\ leakAge'[c] = IF Freezes(c) /\ Dispatches(c) THEN 0 ELSE leakAge[c]
      /\ still'[c] = IF Freezes(c) /\ Dispatches(c) THEN 0 ELSE still[c]
      /\ \A d \in Clients \ {c} : leakAge'[d] = leakAge[d] /\ still'[d] = still[d]
  BY <1>4 DEF LagTypeOK
<1> QED
  BY <1>1, <1>5, <1>6, <1>7, <1>8

\* The clock makes everything older, up to the limits.
LEMMA ClockEffect ==
  ASSUME LagTypeOK, Clock
  PROVE  /\ UNCHANGED <<playing, heard, frozen>>
         /\ \A c, p \in Clients :
               /\ track'[c][p] = IF track[c][p] = Untracked THEN Untracked
                                 ELSE Older(track[c][p], FreezeThreshold)
               /\ quiet'[c][p] = Older(quiet[c][p], FreezeThreshold)
         /\ \A c \in Clients : /\ leakAge'[c] = Older(leakAge[c], LeakInterval)
                                /\ still'[c] = Older(still[c], LeakInterval)
BY DEF Clock

\* The steps that are neither.
LEMMA OtherEffect ==
  ASSUME LagTypeOK, [LagNext]_lagVars, ~Clock, ~\E c \in Clients : Frame(c)
  PROVE  /\ UNCHANGED <<track, heard, quiet, frozen, leakAge>>
         /\ \/ UNCHANGED <<still, playing>>
            \/ still' = [d \in Clients |-> IF frozen[d] THEN still[d] ELSE LeakInterval]
BY DEF LagNext, PauseKey, LinkFails, LinkReturns, PlayerLeaves, lagVars

LEMMA SilenceStep ==
  ASSUME LagInv, [LagNext]_lagVars
  PROVE  SilenceIsTracked'
<1> USE DEF LagInv
<1> SUFFICES ASSUME NEW d \in Clients, NEW p \in Others(d)', p \notin heard'[d]
             PROVE  track'[d][p] <= quiet'[d][p]
    BY DEF SilenceIsTracked
<1>0. p \in Others(d) /\ p \in Clients
  BY OthersShrink
<1>t. track[d][p] \in {Untracked} \cup Ages /\ quiet[d][p] \in Ages
  BY <1>0 DEF LagTypeOK, Ages
<1>1. CASE Clock
  <2>1. heard' = heard /\ track[d][p] <= quiet[d][p]
    BY <1>0, <1>1, ClockEffect DEF SilenceIsTracked
  <2>2. /\ track'[d][p] = IF track[d][p] = Untracked THEN Untracked
                          ELSE Older(track[d][p], FreezeThreshold)
        /\ quiet'[d][p] = Older(quiet[d][p], FreezeThreshold)
    BY <1>0, <1>1, ClockEffect
  <2> QED
    BY <1>t, <2>1, <2>2, Intervals DEF Older, Untracked, Ages
<1>2. ASSUME NEW c \in Clients, Frame(c), c # d PROVE track'[d][p] <= quiet'[d][p]
  BY <1>0, <1>2, FrameEffect DEF SilenceIsTracked
<1>3. CASE Frame(d)
  <2>1. quiet'[d][p] \in Ages
    BY <1>0, <1>t, <1>3, FrameEffect, Intervals DEF Ages
  <2>2. CASE Skips(d)
    BY <1>0, <1>3, <2>1, <2>2, FrameEffect, TrackedAge DEF Ages
  <2>3. CASE ~Skips(d)
    <3>1. track'[d][p] = Tracked(d)[p]
      BY <1>3, <2>3, FrameEffect
    <3>2. CASE Tracked(d)[p] = 0
      BY <2>1, <3>1, <3>2 DEF Ages
    <3>3. CASE p \notin heard[d] /\ Tracked(d)[p] = track[d][p]
      <4>1. track[d][p] <= quiet[d][p]
        BY <1>0, <3>3 DEF SilenceIsTracked
      <4>2. ~(paused[d] /\ ~frozen[d])
        BY <2>3 DEF Skips
      <4>3. ~(Runs(d) /\ p \in inbox[d])
        BY <1>3, FrameEffect
      <4>4. quiet'[d][p] = quiet[d][p]
        BY <1>0, <1>3, <4>2, <4>3, FrameEffect
      <4> QED BY <3>1, <3>3, <4>1, <4>4
    <3> QED BY <1>0, <3>2, <3>3, TrackedAge
  <2> QED BY <2>2, <2>3
<1>4. CASE ~Clock /\ ~\E c \in Clients : Frame(c)
  BY <1>0, <1>4, OtherEffect DEF SilenceIsTracked
<1> QED
  BY <1>1, <1>2, <1>3, <1>4

LEMMA FrozenStep ==
  ASSUME LagInv, [LagNext]_lagVars
  PROVE  FrozenInSilence'
<1> USE DEF LagInv
<1> SUFFICES ASSUME NEW d \in Clients, frozen'[d], NEW p \in Others(d)'
             PROVE  track'[d][p] >= FreezeThreshold
    BY DEF FrozenInSilence
<1>0. p \in Others(d) /\ p \in Clients
  BY OthersShrink
<1>1. CASE Clock
  <2>1. track[d][p] >= FreezeThreshold /\ track[d][p] \in {Untracked} \cup Ages
    BY <1>0, <1>1, ClockEffect DEF FrozenInSilence, LagTypeOK, Ages
  <2>2. track'[d][p] = IF track[d][p] = Untracked THEN Untracked
                       ELSE Older(track[d][p], FreezeThreshold)
    BY <1>0, <1>1, ClockEffect
  <2> QED
    BY <2>1, <2>2, Intervals DEF Older, Untracked, Ages
<1>2. ASSUME NEW c \in Clients, Frame(c), c # d PROVE track'[d][p] >= FreezeThreshold
  BY <1>0, <1>2, FrameEffect DEF FrozenInSilence
<1>3. CASE Frame(d)
  <2>1. Freezes(d)
    BY <1>3, FrameEffect
  <2>2. track'[d] = Tracked(d)
    BY <1>3, <2>1, FrameEffect DEF Freezes
  <2> QED
    BY <1>0, <2>1, <2>2, FreezesInSilence
<1>4. CASE ~Clock /\ ~\E c \in Clients : Frame(c)
  BY <1>0, <1>4, OtherEffect DEF FrozenInSilence
<1> QED
  BY <1>1, <1>2, <1>3, <1>4

\* A tick that a freezing client runs comes an interval after the last one.
LEMMA LeakIsDue ==
  ASSUME LagInv, NEW c \in Clients, Freezes(c), Dispatches(c)
  PROVE  still[c] >= LeakInterval
<1> USE DEF LagInv
<1>0. still[c] \in Leaks /\ leakAge[c] \in Leaks
  BY DEF LagTypeOK, Leaks
<1>1. CASE frozen[c]
  <2>1. leakAge[c] >= LeakInterval
    BY <1>1 DEF Dispatches, LeakDue
  <2> QED
    BY <1>0, <1>1, <2>1, Intervals DEF LeakIsRemembered, Leaks
<1>2. CASE ~frozen[c] /\ ~(still[c] >= LeakInterval)
  <2>1. PICK p \in Others(c) : track[c][p] <= still[c]
    BY <1>2, FreezesInSilence DEF LeakIsRemembered
  <2>2. track[c][p] >= FreezeThreshold /\ track[c][p] \in {Untracked} \cup Ages
    BY <2>1, FreezesInSilence, TrackedAge
  <2> QED
    BY <1>0, <1>2, <2>1, <2>2, Intervals DEF Leaks, Ages, Untracked
<1> QED
  BY <1>1, <1>2

LEMMA LeakStep ==
  ASSUME LagInv, [LagNext]_lagVars
  PROVE  LeakIsRemembered'
<1> USE DEF LagInv
<1> SUFFICES ASSUME NEW d \in Clients
             PROVE  /\ frozen'[d] => leakAge'[d] <= still'[d]
                    /\ ~frozen'[d] => \/ still'[d] >= LeakInterval
                                      \/ d \notin playing'
                                      \/ Others(d)' = {}
                                      \/ \E p \in Others(d)' : track'[d][p] <= still'[d]
    BY DEF LeakIsRemembered
<1>0. still[d] \in Leaks /\ leakAge[d] \in Leaks
  BY DEF LagTypeOK, Leaks
<1>1. CASE Clock
  <2>1. /\ UNCHANGED <<playing, frozen>> /\ Others(d)' = Others(d)
        /\ leakAge'[d] = Older(leakAge[d], LeakInterval)
        /\ still'[d] = Older(still[d], LeakInterval)
    BY <1>1, ClockEffect DEF Others
  <2>2. ASSUME frozen[d] PROVE leakAge'[d] <= still'[d]
    <3>1. leakAge[d] <= still[d]
      BY <2>2 DEF LeakIsRemembered
    <3> QED
      BY <1>0, <2>1, <3>1, Intervals DEF Older, Leaks
  <2>3. ASSUME still[d] >= LeakInterval PROVE still'[d] >= LeakInterval
    BY <1>0, <2>1, <2>3, Intervals DEF Older, Leaks
  <2>4. ASSUME NEW p \in Others(d), track[d][p] <= still[d]
        PROVE  still'[d] >= LeakInterval \/ track'[d][p] <= still'[d]
    <3>1. p \in Clients /\ track[d][p] \in {Untracked} \cup Ages
      BY TrackedAge
    <3>2. track'[d][p] = IF track[d][p] = Untracked THEN Untracked
                         ELSE Older(track[d][p], FreezeThreshold)
      BY <1>1, <3>1, ClockEffect
    <3> QED
      BY <1>0, <2>1, <2>4, <3>1, <3>2, Intervals DEF Older, Leaks, Ages, Untracked
  <2> QED
    BY <2>1, <2>2, <2>3, <2>4 DEF LeakIsRemembered
<1>2. ASSUME NEW c \in Clients, Frame(c), c # d
      PROVE  /\ UNCHANGED playing /\ Others(d)' = Others(d)
             /\ frozen'[d] = frozen[d] /\ leakAge'[d] = leakAge[d]
             /\ still'[d] = still[d] /\ track'[d] = track[d]
  BY <1>2, FrameEffect DEF Others
<1>3. CASE Frame(d)
  <2>0. /\ Others(d)' = Others(d) /\ playing' = playing /\ frozen'[d] = Freezes(d)
        /\ leakAge'[d] = IF Freezes(d) /\ Dispatches(d) THEN 0 ELSE leakAge[d]
        /\ still'[d] = IF Freezes(d) /\ Dispatches(d) THEN 0 ELSE still[d]
        /\ track'[d] = IF Skips(d) THEN Wiped ELSE Tracked(d)
    BY <1>3, FrameEffect DEF Others
  <2>1. CASE Freezes(d) /\ Dispatches(d)
    BY <2>0, <2>1
  <2>2. CASE Freezes(d) /\ ~Dispatches(d)
    <3>1. frozen[d]
      BY <2>2, FreezesInSilence DEF Dispatches, LeakDue
    <3> QED
      BY <2>0, <2>2, <3>1 DEF LeakIsRemembered
  <2>3. CASE ~Freezes(d)
    <3>0. still'[d] = still[d] /\ still'[d] >= 0
      BY <1>0, <2>0, <2>3, Intervals DEF Leaks
    <3>1. CASE Skips(d) \/ Others(d) = {}
      <4>1. ASSUME Skips(d), NEW p \in Others(d) PROVE track'[d][p] <= still'[d]
        BY <1>0, <2>0, <3>0, <4>1, TrackedAge DEF Leaks
      <4> QED BY <2>0, <2>3, <3>1, <4>1
    <3>2. CASE ~Skips(d) /\ Others(d) # {}
      <4>1. PICK p \in Others(d) : ~(Tracked(d)[p] >= FreezeThreshold)
        BY <2>3, <3>2 DEF Freezes, AllSilent
      <4>2. CASE Tracked(d)[p] = 0
        BY <2>0, <2>3, <3>0, <3>2, <4>2
      <4>3. CASE Tracked(d)[p] = track[d][p]
        <5>1. ~frozen[d]
          BY <4>1, <4>3 DEF FrozenInSilence
        <5>2. CASE still[d] >= LeakInterval
          BY <2>0, <2>3, <3>0, <5>2
        <5>3. CASE ~(still[d] >= LeakInterval)
          <6>1. d \in playing
            BY <3>2 DEF Skips
          <6>2. PICK q \in Others(d) : track[d][q] <= still[d]
            BY <3>2, <5>1, <5>3, <6>1 DEF LeakIsRemembered
          <6>3. Tracked(d)[q] <= still[d]
            BY <3>0, <6>2, TrackedAge
          <6> QED BY <2>0, <2>3, <3>0, <3>2, <6>3
        <5> QED BY <5>2, <5>3
      <4> QED BY <4>2, <4>3, TrackedAge
    <3> QED BY <3>1, <3>2
  <2> QED BY <2>1, <2>2, <2>3
<1>4. CASE ~Clock /\ ~\E c \in Clients : Frame(c)
  <2>1. UNCHANGED <<track, frozen, leakAge>>
    BY <1>4, OtherEffect
  <2>2. CASE UNCHANGED still /\ UNCHANGED playing
    <3>1. Others(d)' = Others(d)
      BY <2>2 DEF Others
    <3> QED BY <2>1, <2>2, <3>1 DEF LeakIsRemembered
  <2>3. CASE still' = [e \in Clients |-> IF frozen[e] THEN still[e] ELSE LeakInterval]
    <3>1. still'[d] = IF frozen[d] THEN still[d] ELSE LeakInterval
      BY <2>3
    <3>2. LeakInterval >= LeakInterval
      BY Intervals
    <3> QED BY <2>1, <3>1, <3>2 DEF LeakIsRemembered
  <2> QED BY <1>4, <2>2, <2>3, OtherEffect
<1>5. ASSUME NEW c \in Clients, Frame(c), c # d
      PROVE  /\ frozen'[d] => leakAge'[d] <= still'[d]
             /\ ~frozen'[d] => \/ still'[d] >= LeakInterval
                               \/ d \notin playing'
                               \/ Others(d)' = {}
                               \/ \E p \in Others(d)' : track'[d][p] <= still'[d]
  BY <1>2, <1>5 DEF LeakIsRemembered
<1> QED
  BY <1>1, <1>3, <1>4, <1>5

-----------------------------------------------------------------------------
(* The theorems *)

\* What a client tracks of the others never claims more silence than there was,
\* a frozen client has heard nobody since, and every leaked tick is remembered.
THEOREM LagInvariant == LagSpec => []LagInv
<1>1. LagInit => LagInv
  BY LagTypeInit, LagInvInit DEF LagInv
<1>2. LagInv /\ [LagNext]_lagVars => LagInv'
  BY LagTypeStep, SilenceStep, FrozenStep, LeakStep DEF LagInv
<1> QED
  BY <1>1, <1>2, PTL DEF LagSpec

\* The variables of LagSwitchGuard keep their types.
THEOREM LagTypeInvariant == LagSpec => []LagTypeOK
<1>1. LagInv => LagTypeOK
  BY DEF LagInv
<1> QED
  BY <1>1, LagInvariant, PTL

\* A client freezes only when it has dispatched nothing of any other player for the
\* threshold: no pause, no player who left and no failing link of others freezes it.
THEOREM FreezeNeedsSilenceHolds == LagSpec => FreezeNeedsSilence
<1>1. LagInv /\ [LagNext]_lagVars =>
        [\A c \in Clients : frozen'[c] /\ ~frozen[c] =>
           Others(c) # {} /\ \A p \in Others(c) : quiet[c][p] >= FreezeThreshold]_lagVars
  <2> SUFFICES ASSUME LagInv, [LagNext]_lagVars, NEW c \in Clients, frozen'[c], ~frozen[c]
               PROVE  Others(c) # {} /\ \A p \in Others(c) : quiet[c][p] >= FreezeThreshold
      OBVIOUS
  <2> USE DEF LagInv
  <2>1. Freezes(c)
    <3>1. ~Clock
      BY ClockEffect
    <3>2. PICK d \in Clients : Frame(d)
      BY <3>1, OtherEffect
    <3> QED BY <3>2, FrameEffect
  <2> QED BY <2>1, FreezesInSilence
<1> QED
  BY <1>1, LagInvariant, PTL DEF LagSpec, FreezeNeedsSilence

\* A frozen client runs at most one tick per interval, whatever it hears in between.
THEOREM FrozenStandsStillHolds == LagSpec => FrozenStandsStill
<1>1. LagInv /\ [LagNext]_lagVars =>
        [\A c \in Clients :
            Frame(c) /\ frozen'[c] /\ Dispatches(c) => still[c] >= LeakInterval]_lagVars
  <2> SUFFICES ASSUME LagInv, NEW c \in Clients, Frame(c), frozen'[c], Dispatches(c)
               PROVE  still[c] >= LeakInterval
      OBVIOUS
  <2>1. Freezes(c)
    BY FrameEffect DEF LagInv
  <2> QED BY <2>1, LeakIsDue
<1> QED
  BY <1>1, LagInvariant, PTL DEF LagSpec, FrozenStandsStill

-----------------------------------------------------------------------------
(* The status exporter *)

Contents == [Fields -> Values]

\* What the number in shared memory says of the writer, and what the arrays hold.
WriterInv ==
    /\ prev.sequence % 2 = 0
    /\ writing.at = "Idle" => shmSequence = prev.sequence
    /\ writing.at = "Writing" =>
          /\ shmSequence = prev.sequence + 1
          /\ \A f \in Fields \ writing.left : shm[f] = writing.next[f]
    /\ writing.at = "Clearing" => shmSequence = 0 /\ prev.sequence = 0

\* An even number stands for the contents written under it; numbers only grow.
StableInv ==
    /\ writing.at = "Idle" /\ shmSequence # 0 =>
          shmSequence \in DOMAIN stable /\ shm = stable[shmSequence]
    /\ \A s \in DOMAIN stable : s <= prev.sequence

\* What a read has copied so far, unless a write has begun or the game was restarted.
ReaderInv ==
    reader.at = "Reading" /\ restarted = FALSE =>
        /\ reader.sequence % 2 = 0 /\ reader.sequence # 0
        /\ reader.sequence <= shmSequence
        /\ reader.sequence \in DOMAIN stable
        /\ shmSequence = reader.sequence =>
              \A f \in Fields \ reader.left : reader.copy[f] = stable[reader.sequence][f]

ExporterInv == ExporterTypeOK /\ WriterInv /\ StableInv /\ ReaderInv

-----------------------------------------------------------------------------
(* Types *)

LEMMA BlankType == Blank \in Contents
BY ExporterAssumption DEF Blank, Contents

LEMMA ExporterTypeInit == ExporterInit => ExporterTypeOK
<1> SUFFICES ASSUME ExporterInit PROVE ExporterTypeOK
    OBVIOUS
<1> USE DEF ExporterInit, Contents
<1>1. prev \in [sequence : Nat, fields : Contents]
  BY BlankType
<1>2. writing \in [at : {"Idle", "Writing", "Clearing"}, next : Contents, left : SUBSET Fields]
  BY BlankType DEF NotWriting
<1>3. reader \in [at : {"Idle", "Reading"}, sequence : Nat, copy : Contents, left : SUBSET Fields]
  BY BlankType DEF NotReading
<1>4. sinceWrite \in Nat /\ shmSequence \in Nat /\ restarted \in BOOLEAN
  BY ExporterAssumption
<1>5. DOMAIN stable = {}
  OBVIOUS
<1> QED
  BY BlankType, <1>1, <1>2, <1>3, <1>4, <1>5 DEF ExporterTypeOK

LEMMA ExporterTypeStep == ExporterTypeOK /\ [ExporterNext]_exporterVars => ExporterTypeOK'
<1> SUFFICES ASSUME ExporterTypeOK, [ExporterNext]_exporterVars PROVE ExporterTypeOK'
    OBVIOUS
<1> USE DEF ExporterTypeOK
<1>1. CASE FrameUpdate
  BY <1>1 DEF FrameUpdate
<1>2. CASE EndWrite
  <2>1. prev' \in [sequence : Nat, fields : Contents] /\ shmSequence' \in Nat
    BY <1>2 DEF EndWrite, Contents
  <2>2. writing' \in [at : {"Idle", "Writing", "Clearing"}, next : Contents, left : SUBSET Fields]
    BY <1>2, BlankType DEF EndWrite, NotWriting
  <2>3. DOMAIN stable' \subseteq Nat /\ \A s \in DOMAIN stable' : stable'[s] \in Contents
    BY <1>2 DEF EndWrite, Contents
  <2> QED
    BY <1>2, <2>1, <2>2, <2>3 DEF EndWrite, Contents
<1>3. CASE Restart
  BY <1>3, BlankType, ExporterAssumption DEF Restart, Contents
<1>4. ASSUME NEW f \in Fields, WriteField(f) PROVE ExporterTypeOK'
  BY <1>4 DEF WriteField
<1>5. ASSUME NEW f \in Fields, ClearField(f) PROVE ExporterTypeOK'
  BY <1>5, BlankType, ExporterAssumption DEF ClearField, NotWriting, Contents
<1>6. ASSUME NEW f \in Fields, ReadField(f) PROVE ExporterTypeOK'
  BY <1>6 DEF ReadField
<1>7. ASSUME NEW f \in Fields, NEW v \in Values, PlayersChange(f, v) PROVE ExporterTypeOK'
  BY <1>7 DEF PlayersChange
<1>8. CASE BeginRead
  BY <1>8, BlankType DEF BeginRead, Contents
<1>9. CASE EndRead
  BY <1>9, BlankType DEF EndRead, NotReading, Contents
<1>10. CASE UNCHANGED exporterVars
  BY <1>10 DEF exporterVars
<1> QED
  BY <1>1, <1>2, <1>3, <1>4, <1>5, <1>6, <1>7, <1>8, <1>9, <1>10 DEF ExporterNext

-----------------------------------------------------------------------------
(* The invariant *)

LEMMA ExporterInvInit == ExporterInit => WriterInv /\ StableInv /\ ReaderInv
BY DEF ExporterInit, WriterInv, StableInv, ReaderInv, NotWriting, NotReading

\* While the number is even and not 0, nothing is being written.
LEMMA EvenIsIdle ==
  ASSUME ExporterTypeOK, WriterInv, shmSequence % 2 = 0, shmSequence # 0
  PROVE  writing.at = "Idle"
<1>1. writing.at \in {"Idle", "Writing", "Clearing"} /\ prev.sequence \in Nat
  BY DEF ExporterTypeOK
<1>2. writing.at # "Writing"
  <2> SUFFICES ASSUME writing.at = "Writing" PROVE FALSE
    OBVIOUS
  <2>1. shmSequence = prev.sequence + 1 /\ prev.sequence % 2 = 0
    BY DEF WriterInv
  <2> QED BY <1>1, <2>1
<1>3. writing.at # "Clearing"
  BY DEF WriterInv
<1> QED BY <1>1, <1>2, <1>3

LEMMA WriterStep ==
  ASSUME ExporterInv, [ExporterNext]_exporterVars
  PROVE  WriterInv'
<1> USE DEF ExporterInv
<1>0. /\ prev.sequence \in Nat /\ shmSequence \in Nat
      /\ shm \in Contents /\ writing.next \in Contents /\ writing.left \subseteq Fields
  BY DEF ExporterTypeOK, Contents
<1>1. CASE FrameUpdate
  BY <1>0, <1>1 DEF FrameUpdate, WriterInv
<1>2. CASE EndWrite
  <2>1. (prev.sequence + 2) % 2 = 0
    BY <1>0 DEF WriterInv
  <2> QED
    BY <1>0, <1>2, <2>1 DEF EndWrite, WriterInv, NotWriting, ExporterTypeOK
<1>3. CASE Restart
  BY <1>3 DEF Restart, WriterInv
<1>4. ASSUME NEW f \in Fields, WriteField(f) PROVE WriterInv'
  <2>1. writing.at = "Writing" /\ writing' = [writing EXCEPT !.left = @ \ {f}]
    BY <1>4 DEF WriteField
  <2>2. writing'.at = "Writing" /\ writing'.next = writing.next /\ writing'.left = writing.left \ {f}
    BY <2>1 DEF ExporterTypeOK
  <2>3. \A g \in Fields \ writing'.left : shm'[g] = writing'.next[g]
    BY <1>0, <1>4, <2>1, <2>2 DEF WriteField, WriterInv, Contents
  <2> QED
    BY <1>4, <2>1, <2>2, <2>3 DEF WriteField, WriterInv
<1>5. ASSUME NEW f \in Fields, ClearField(f) PROVE WriterInv'
  BY <1>0, <1>5 DEF ClearField, WriterInv, NotWriting, ExporterTypeOK
<1>6. ASSUME NEW f \in Fields, ReadField(f) PROVE WriterInv'
  BY <1>6 DEF ReadField, WriterInv
<1>7. ASSUME NEW f \in Fields, NEW v \in Values, PlayersChange(f, v) PROVE WriterInv'
  BY <1>7 DEF PlayersChange, WriterInv
<1>8. CASE BeginRead
  BY <1>8 DEF BeginRead, WriterInv
<1>9. CASE EndRead
  BY <1>9 DEF EndRead, WriterInv
<1>10. CASE UNCHANGED exporterVars
  BY <1>10 DEF exporterVars, WriterInv
<1> QED
  BY <1>1, <1>2, <1>3, <1>4, <1>5, <1>6, <1>7, <1>8, <1>9, <1>10 DEF ExporterNext

LEMMA StableStep ==
  ASSUME ExporterInv, [ExporterNext]_exporterVars
  PROVE  StableInv'
<1> USE DEF ExporterInv
<1>0. /\ prev.sequence \in Nat /\ shmSequence \in Nat /\ DOMAIN stable \subseteq Nat
      /\ shm \in Contents /\ writing.next \in Contents
  BY DEF ExporterTypeOK, Contents
<1>1. CASE FrameUpdate
  BY <1>0, <1>1 DEF FrameUpdate, WriterInv, StableInv
<1>2. CASE EndWrite
  <2>1. shm = writing.next
    BY <1>0, <1>2 DEF EndWrite, AllWritten, WriterInv, Contents
  <2>2. /\ DOMAIN stable' = DOMAIN stable \cup {prev.sequence + 2}
        /\ stable'[prev.sequence + 2] = writing.next
    BY <1>2 DEF EndWrite
  <2>3. shm' = shm /\ shmSequence' = prev.sequence + 2 /\ prev'.sequence = prev.sequence + 2
    BY <1>2 DEF EndWrite
  <2>4. \A s \in DOMAIN stable' : s <= prev'.sequence
    BY <1>0, <2>2, <2>3 DEF StableInv
  <2> QED
    BY <2>1, <2>2, <2>3, <2>4 DEF StableInv
<1>3. CASE Restart
  BY <1>3 DEF Restart, StableInv
<1>4. ASSUME NEW f \in Fields, WriteField(f) PROVE StableInv'
  BY <1>4 DEF WriteField, StableInv, ExporterTypeOK
<1>5. ASSUME NEW f \in Fields, ClearField(f) PROVE StableInv'
  <2>1. shmSequence' = 0 /\ UNCHANGED <<stable, prev>>
    BY <1>5 DEF ClearField, WriterInv
  <2> QED
    BY <2>1 DEF StableInv
<1>6. ASSUME NEW f \in Fields, ReadField(f) PROVE StableInv'
  BY <1>6 DEF ReadField, StableInv
<1>7. ASSUME NEW f \in Fields, NEW v \in Values, PlayersChange(f, v) PROVE StableInv'
  BY <1>7 DEF PlayersChange, StableInv
<1>8. CASE BeginRead
  BY <1>8 DEF BeginRead, StableInv
<1>9. CASE EndRead
  BY <1>9 DEF EndRead, StableInv
<1>10. CASE UNCHANGED exporterVars
  BY <1>10 DEF exporterVars, StableInv
<1> QED
  BY <1>1, <1>2, <1>3, <1>4, <1>5, <1>6, <1>7, <1>8, <1>9, <1>10 DEF ExporterNext

LEMMA ReaderStep ==
  ASSUME ExporterInv, [ExporterNext]_exporterVars
  PROVE  ReaderInv'
<1> USE DEF ExporterInv
<1>0. /\ prev.sequence \in Nat /\ shmSequence \in Nat /\ reader.sequence \in Nat
      /\ shm \in Contents /\ reader.copy \in Contents /\ reader.left \subseteq Fields
  BY DEF ExporterTypeOK, Contents
<1>1. CASE FrameUpdate
  <2>1. shmSequence' = shmSequence \/ shmSequence' = shmSequence + 1
    BY <1>1 DEF FrameUpdate, WriterInv
  <2> QED
    BY <1>0, <1>1, <2>1 DEF FrameUpdate, ReaderInv
<1>2. CASE EndWrite
  <2>1. /\ shmSequence = prev.sequence + 1 /\ shmSequence' = prev.sequence + 2
        /\ DOMAIN stable' = DOMAIN stable \cup {prev.sequence + 2}
        /\ UNCHANGED <<reader, restarted>>
    BY <1>2 DEF EndWrite, AllWritten, WriterInv
  <2>2. reader.sequence <= shmSequence => reader.sequence # shmSequence'
    BY <1>0, <2>1
  <2> QED
    BY <1>0, <2>1, <2>2 DEF ReaderInv
<1>3. CASE Restart
  BY <1>3 DEF Restart, ReaderInv
<1>4. ASSUME NEW f \in Fields, WriteField(f) PROVE ReaderInv'
  BY <1>4 DEF WriteField, ReaderInv
<1>5. ASSUME NEW f \in Fields, ClearField(f) PROVE ReaderInv'
  BY <1>5 DEF ClearField, ReaderInv
<1>6. ASSUME NEW f \in Fields, ReadField(f) PROVE ReaderInv'
  <2> SUFFICES ASSUME reader'.at = "Reading", restarted' = FALSE PROVE ReaderInv'
    BY DEF ReaderInv
  <2>1. /\ reader.at = "Reading" /\ restarted = FALSE
        /\ reader'.sequence = reader.sequence
        /\ reader'.left = reader.left \ {f}
        /\ reader'.copy = [reader.copy EXCEPT ![f] = shm[f]]
        /\ UNCHANGED <<shmSequence, stable>>
    BY <1>6 DEF ReadField, ExporterTypeOK
  <2>2. ASSUME shmSequence = reader.sequence
        PROVE  \A g \in Fields \ reader'.left : reader'.copy[g] = stable[reader.sequence][g]
    <3>1. writing.at = "Idle"
      BY <2>1, <2>2, EvenIsIdle DEF ReaderInv
    <3>2. shm = stable[reader.sequence]
      BY <2>1, <2>2, <3>1 DEF StableInv, ReaderInv
    <3> QED
      BY <1>0, <2>1, <2>2, <3>2 DEF ReaderInv, Contents
  <2> QED
    BY <2>1, <2>2 DEF ReaderInv
<1>7. ASSUME NEW f \in Fields, NEW v \in Values, PlayersChange(f, v) PROVE ReaderInv'
  BY <1>7 DEF PlayersChange, ReaderInv
<1>8. CASE BeginRead
  <2>1. shmSequence % 2 = 0 /\ shmSequence # 0
    BY <1>8 DEF BeginRead, Stable
  <2>2. shmSequence \in DOMAIN stable
    BY <2>1, EvenIsIdle DEF StableInv
  <2>3. /\ reader'.sequence = shmSequence /\ reader'.left = Fields
        /\ UNCHANGED <<shmSequence, stable>>
    BY <1>8 DEF BeginRead
  <2> QED
    BY <1>0, <2>1, <2>2, <2>3 DEF ReaderInv
<1>9. CASE EndRead
  BY <1>9 DEF EndRead, ReaderInv, NotReading
<1>10. CASE UNCHANGED exporterVars
  BY <1>10 DEF exporterVars, ReaderInv
<1> QED
  BY <1>1, <1>2, <1>3, <1>4, <1>5, <1>6, <1>7, <1>8, <1>9, <1>10 DEF ExporterNext

-----------------------------------------------------------------------------
(* The theorems *)

\* The sequence lock's bookkeeping: where the writer stands, that the page is stable
\* under an even number, and what a reader in the middle of a copy has seen.
THEOREM ExporterInvariant == ExporterSpec => []ExporterInv
<1>1. ExporterInit => ExporterInv
  BY ExporterTypeInit, ExporterInvInit DEF ExporterInv
<1>2. ExporterInv /\ [ExporterNext]_exporterVars => ExporterInv'
  BY ExporterTypeStep, WriterStep, StableStep, ReaderStep DEF ExporterInv
<1> QED
  BY <1>1, <1>2, PTL DEF ExporterSpec

\* The variables of StatusExporter keep their types.
THEOREM ExporterTypeInvariant == ExporterSpec => []ExporterTypeOK
<1>1. ExporterInv => ExporterTypeOK
  BY DEF ExporterInv
<1> QED
  BY <1>1, ExporterInvariant, PTL

\* What a reader of the shared memory takes for stable is the table of players as one
\* FrameUpdate found it, unless the game was started again during the read.
THEOREM ReadsAreWholeHolds == ExporterSpec => []ReadsAreWhole
<1>1. ExporterInv => ReadsAreWhole
  <2> SUFFICES ASSUME ExporterInv, Accepts, restarted = FALSE
               PROVE  reader.sequence \in DOMAIN stable /\ reader.copy = stable[reader.sequence]
    BY DEF ReadsAreWhole, ExporterInv, ExporterTypeOK
  <2>1. /\ reader.sequence \in DOMAIN stable
        /\ \A f \in Fields : reader.copy[f] = stable[reader.sequence][f]
    BY DEF ExporterInv, ReaderInv, Accepts
  <2>2. reader.copy \in Contents /\ stable[reader.sequence] \in Contents
    BY <2>1 DEF ExporterInv, ExporterTypeOK, Contents
  <2> QED
    BY <2>1, <2>2 DEF Contents
<1> QED
  BY <1>1, ExporterInvariant, PTL
-----------------------------------------------------------------------------
(* The components side by side *)

\* A behaviour of the components side by side starts each of them as it starts alone.
LEMMA AllStart ==
    ASSUME MCInit
    PROVE  /\ ShareInit /\ LagInit /\ ChallengeInit /\ ExporterInit /\ AuditInit
           /\ DemoInit /\ PacketsInit /\ CompressionInit /\ SplitInit
<1>1. SplitInit
  <2>1. CASE component = "split"
    BY <2>1 DEF MCInit
  <2>2. CASE component # "split"
    <3> DEFINE h == CHOOSE x \in Holdings : TRUE
               t == CHOOSE x \in Thresholds : TRUE
               holding == [i \in SplitSlots |-> h]
    <3>1. h \in Holdings /\ t \in Thresholds
      BY ServicesAssumption
    <3>2. SplitInitWith(holding, t, {})
      BY <2>2 DEF MCInit
    <3> HIDE DEF h, t
    <3>3. holding \in [SplitSlots -> Holdings] /\ {} \in SUBSET SplitSlots
      BY <3>1
    <3> HIDE DEF holding
    <3> QED
      BY <3>1, <3>2, <3>3 DEF SplitInit
  <2> QED
    BY <2>1, <2>2
<1> QED
  BY <1>1 DEF MCInit

\* Each step is a step of one of them and leaves the others as they are.
LEMMA OneRuns ==
    ASSUME [MCNext]_vars
    PROVE  /\ [ShareNext]_shareVars /\ [LagNext]_lagVars /\ [ChallengeNext]_challengeVars
           /\ [ExporterNext]_exporterVars /\ [AuditNext]_auditVars /\ [DemoNext]_demoVars
           /\ [PacketsNext]_packetsVars /\ [CompressionNext]_compressionVars
           /\ [SplitNext]_splitVars
BY DEF MCNext, vars, ShareStep, LagStep, BesidesLag, ChallengeStep, ExporterStep, AuditStep,
       DemoStep, PacketsStep, CompressionStep, SplitStep

\* Side by side the components keep their specifications, so that what is proved of
\* each alone holds of all.
THEOREM SideBySide ==
    MCSpec => /\ ShareSpec /\ LagSpec /\ ChallengeSpec /\ ExporterSpec /\ AuditSpec
              /\ DemoSpec /\ PacketsSpec /\ CompressionSpec /\ SplitSpec
<1>1. MCSpec => MCInit /\ [][MCNext]_vars
  BY PTL DEF MCSpec
<1>2. MCInit => /\ ShareInit /\ LagInit /\ ChallengeInit /\ ExporterInit /\ AuditInit
                /\ DemoInit /\ PacketsInit /\ CompressionInit /\ SplitInit
  BY AllStart
<1>3. [MCNext]_vars =>
         /\ [ShareNext]_shareVars /\ [LagNext]_lagVars /\ [ChallengeNext]_challengeVars
         /\ [ExporterNext]_exporterVars /\ [AuditNext]_auditVars /\ [DemoNext]_demoVars
         /\ [PacketsNext]_packetsVars /\ [CompressionNext]_compressionVars
         /\ [SplitNext]_splitVars
  BY OneRuns
<1> QED
  BY <1>1, <1>2, <1>3, PTL
  DEF ShareSpec, LagSpec, ChallengeSpec, ExporterSpec, AuditSpec, DemoSpec, PacketsSpec,
      CompressionSpec, SplitSpec

\* Every component's variables keep their types, side by side.
THEOREM ServicesTypeInvariant == MCSpec => []ServicesTypeOK
<1>1. ShareTypeOK /\ LagTypeOK /\ ChallengeTypeOK /\ ExporterTypeOK /\ AuditTypeOK
      /\ DemoTypeOK /\ PacketsTypeOK /\ CompressionTypeOK /\ SplitTypeOK => ServicesTypeOK
  BY DEF ServicesTypeOK
<1> QED
  BY <1>1, SideBySide, ShareTypeInvariant, LagTypeInvariant, ChallengeTypeInvariant,
     ExporterTypeInvariant, AuditTypeInvariant, DemoTypeInvariant, PacketsTypeInvariant,
     CompressionTypeInvariant, SplitTypeInvariant, PTL
=============================================================================
