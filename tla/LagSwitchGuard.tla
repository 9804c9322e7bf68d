--------------------------- MODULE LagSwitchGuard ---------------------------
(***************************************************************************)
(* The lag-switch guard of tdraw.dll (DDraw/LagSwitchGuard.cpp): a client  *)
(* that has heard none of the others for a while freezes its simulation,   *)
(* and runs one tick now and then so that it can hear them again.  All     *)
(* clients do so at once when the network fails.                           *)
(*                                                                         *)
(* Time is counted in units in which every client renders a frame.         *)
(***************************************************************************)
EXTENDS Integers

CONSTANTS
    Clients,
    Fragile,             \* the clients whose network may fail
    FreezeThreshold,     \* FREEZE_THRESHOLD_MS
    LeakInterval         \* TICK_LEAK_INTERVAL_MS

ASSUME LagAssumption ==
    Fragile \subseteq Clients /\ FreezeThreshold \in Nat \ {0} /\ LeakInterval \in 1 .. FreezeThreshold

VARIABLES
    playing,       \* the clients in the game
    linked,        \* those of them whose network works
    paused,        \* IsGamePaused, per client
    pauseMsg,      \* the pause or resume not yet dispatched, "None" if there is none
    inbox,         \* the clients whose packets wait for the dispatcher, per client
    heard,         \* those whose LastMsgTimeStamp changed since the last Tick
    track,         \* m_playerTrack: the age of the last change seen, or Untracked
    frozen,        \* m_frozen
    leakAge,       \* the age of m_lastTickLeakMs
    rendered,      \* the clients that rendered their frame in this unit of time
    quiet,         \* history: how long no packet of a player was dispatched; a pause that
                   \* finds the client not frozen starts the count anew
    still          \* history: how long ago the last tick run while frozen was; a player
                   \* who leaves a client that is not frozen ends the count

lagVars == <<playing, linked, paused, pauseMsg, inbox, heard, track, frozen, leakAge,
             rendered, quiet, still>>

Untracked == -1
Older(age, limit) == IF age < limit THEN age + 1 ELSE limit
Others(c) == playing \ {c}

-----------------------------------------------------------------------------
(* Tick                                                                      *)

Wiped == [p \in Clients |-> Untracked]

\* Faulty variant: a pause does not interrupt the count.
SkipsInGame(c) == c \notin playing

\* Tick gives up: outside a game, or during a pause, when no time stamp moves.
Skips(c) == c \notin playing \/ (paused[c] /\ ~frozen[c])

\* A player seen for the first time counts as heard.
Tracked(c) ==
    [p \in Clients |->
        IF p \notin Others(c) THEN track[c][p]
        ELSE IF p \in heard[c] \/ track[c][p] = Untracked THEN 0
        ELSE track[c][p]]

AllSilent(c) ==
    Others(c) # {} /\ \A p \in Others(c) : Tracked(c)[p] >= FreezeThreshold

Freezes(c) == ~Skips(c) /\ AllSilent(c)

-----------------------------------------------------------------------------
(* PostApplyDeltaTimeRouter: does the simulation run in this frame?          *)

\* Faulty variant: a frozen client runs no tick at all.
LeakDueNever(c) == FALSE

\* The first tick leaks at once: freezing sets m_lastTickLeakMs to 0.
LeakDue(c) == ~frozen[c] \/ leakAge[c] >= LeakInterval

\* Faulty variant: the leaked tick is not remembered.
LeakedForgotten(c) == leakAge

Leaked(c) == [leakAge EXCEPT ![c] = 0]

Dispatches(c) == c \in playing /\ (Freezes(c) => LeakDue(c))

\* The time stamps and what the others get: no tick is run during a pause.
Runs(c) == Dispatches(c) /\ ~paused[c]

\* One turn of the game loop: the frame, whose Unlock calls Tick, and GameTickFunction,
\* with the packets it dispatches and sends.
Frame(c) ==
    /\ c \notin rendered
    /\ rendered' = rendered \cup {c}
    /\ track' = [track EXCEPT ![c] = IF Skips(c) THEN Wiped ELSE Tracked(c)]
    /\ frozen' = [frozen EXCEPT ![c] = Freezes(c)]
    /\ leakAge' = IF Freezes(c) /\ Dispatches(c) THEN Leaked(c) ELSE leakAge
    /\ heard' = [heard EXCEPT ![c] = IF Runs(c) THEN inbox[c] ELSE {}]
    /\ quiet' = [quiet EXCEPT ![c] = [p \in Clients |->
                    IF (paused[c] /\ ~frozen[c]) \/ (Runs(c) /\ p \in inbox[c]) THEN 0
                    ELSE quiet[c][p]]]
    /\ still' = IF Freezes(c) /\ Dispatches(c) THEN [still EXCEPT ![c] = 0] ELSE still
    /\ inbox' = [d \in Clients |->
                    IF d = c THEN (IF Dispatches(c) THEN {} ELSE inbox[c])
                    ELSE IF Runs(c) /\ {c, d} \subseteq linked /\ d \in playing
                    THEN inbox[d] \cup {c} ELSE inbox[d]]
    /\ IF Dispatches(c) /\ c \in linked /\ pauseMsg[c] # "None"
       THEN /\ paused' = [paused EXCEPT ![c] = (pauseMsg[c] = "Pause")]
            /\ pauseMsg' = [pauseMsg EXCEPT ![c] = "None"]
       ELSE UNCHANGED <<paused, pauseMsg>>
    /\ UNCHANGED <<playing, linked>>

-----------------------------------------------------------------------------
(* The player, the network and the clock *)

\* The pause key; PauseKeyRouter ignores it while frozen.
PauseKey(c) ==
    /\ c \in playing /\ ~frozen[c]
    /\ paused' = [paused EXCEPT ![c] = ~@]
    /\ pauseMsg' = [d \in Clients |->
                      IF d = c \/ d \notin playing THEN pauseMsg[d]
                      ELSE IF paused[c] THEN "Resume" ELSE "Pause"]
    /\ UNCHANGED <<playing, linked, inbox, heard, track, frozen, leakAge, rendered, quiet, still>>

LinkFails(c) ==
    /\ c \in linked \cap Fragile /\ linked' = linked \ {c}
    /\ UNCHANGED <<playing, paused, pauseMsg, inbox, heard, track, frozen, leakAge, rendered,
                   quiet, still>>

LinkReturns(c) ==
    /\ c \notin linked /\ linked' = linked \cup {c}
    /\ UNCHANGED <<playing, paused, pauseMsg, inbox, heard, track, frozen, leakAge, rendered,
                   quiet, still>>

\* A player leaves or is rejected.
PlayerLeaves(c) ==
    /\ c \in playing /\ playing' = playing \ {c}
    /\ still' = [d \in Clients |-> IF frozen[d] THEN still[d] ELSE LeakInterval]
    /\ UNCHANGED <<linked, paused, pauseMsg, inbox, heard, track, frozen, leakAge, rendered, quiet>>

Clock ==
    /\ rendered = Clients /\ rendered' = {}
    /\ track' = [c \in Clients |-> [p \in Clients |->
                    IF track[c][p] = Untracked THEN Untracked
                    ELSE Older(track[c][p], FreezeThreshold)]]
    /\ leakAge' = [c \in Clients |-> Older(leakAge[c], LeakInterval)]
    /\ quiet' = [c \in Clients |-> [p \in Clients |-> Older(quiet[c][p], FreezeThreshold)]]
    /\ still' = [c \in Clients |-> Older(still[c], LeakInterval)]
    /\ UNCHANGED <<playing, linked, paused, pauseMsg, inbox, heard, frozen>>

LagInit ==
    /\ playing = Clients /\ linked = Clients /\ rendered = {}
    /\ paused = [c \in Clients |-> FALSE] /\ pauseMsg = [c \in Clients |-> "None"]
    /\ inbox = [c \in Clients |-> {}] /\ heard = [c \in Clients |-> {}]
    /\ track = [c \in Clients |-> Wiped]
    /\ frozen = [c \in Clients |-> FALSE]
    /\ leakAge = [c \in Clients |-> LeakInterval]
    /\ quiet = [c \in Clients |-> [p \in Clients |-> 0]]
    /\ still = [c \in Clients |-> LeakInterval]

LagNext ==
    \/ \E c \in Clients : Frame(c) \/ PauseKey(c) \/ LinkFails(c) \/ LinkReturns(c) \/ PlayerLeaves(c)
    \/ Clock

LagSpec == LagInit /\ [][LagNext]_lagVars

\* The game loops run and time passes.
LagFairSpec == LagSpec /\ WF_lagVars(Clock) /\ \A c \in Clients : WF_lagVars(Frame(c))

-----------------------------------------------------------------------------
(* Properties *)

\* The variables keep their types.
LagTypeOK ==
    /\ playing \subseteq Clients /\ linked \subseteq Clients /\ rendered \subseteq Clients
    /\ paused \in [Clients -> BOOLEAN] /\ frozen \in [Clients -> BOOLEAN]
    /\ pauseMsg \in [Clients -> {"None", "Pause", "Resume"}]
    /\ inbox \in [Clients -> SUBSET Clients] /\ heard \in [Clients -> SUBSET Clients]
    /\ track \in [Clients -> [Clients -> {Untracked} \cup 0 .. FreezeThreshold]]
    /\ quiet \in [Clients -> [Clients -> 0 .. FreezeThreshold]]
    /\ leakAge \in [Clients -> 0 .. LeakInterval] /\ still \in [Clients -> 0 .. LeakInterval]

\* "If ALL remote humans go silent for longer than FREEZE_THRESHOLD_MS, the
\* simulation is frozen": only then; no pause, however it comes and goes, and no
\* player who has left makes a client freeze.
FreezeNeedsSilence ==
    [][\A c \in Clients : frozen'[c] /\ ~frozen[c] =>
         Others(c) # {} /\ \A p \in Others(c) : quiet[c][p] >= FreezeThreshold]_lagVars

\* "So the cheater cannot maneuver": a frozen simulation runs one tick per
\* interval at most, also when it thaws and freezes again.  (Not when the player
\* whose packet thawed it leaves at once: it freezes anew on the silence of the
\* others, and the first tick of a freeze leaks immediately.)
FrozenStandsStill ==
    [][\A c \in Clients : Frame(c) /\ frozen'[c] /\ Dispatches(c) => still[c] >= LeakInterval]_lagVars

\* "Avoids detection deadlock": when the network works again and nobody pauses,
\* all clients thaw for good, although each of them was waiting for the others.
Thaw ==
    <>[](linked = Clients /\ \A c \in Clients : ~paused[c]) => <>[](\A c \in Clients : ~frozen[c])
=============================================================================
