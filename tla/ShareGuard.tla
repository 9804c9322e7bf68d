----------------------------- MODULE ShareGuard -----------------------------
(***************************************************************************)
(* The delay on shared structures of tdraw.dll (DDraw/ShareGuard.cpp): a   *)
(* share of buildings to an ally goes through at once while the shares of  *)
(* the last 30 s stay within an allowance; otherwise the whole share is    *)
(* held and handed over together 30 s later, named by unit indices that    *)
(* the engine may have recycled by then.                                   *)
(***************************************************************************)
EXTENDS Integers, Sequences, FiniteSets

CONSTANTS
    MaxSlot,           \* the engine's table of units has the indices up to it
    BuildingTypes,
    Me, Allies,
    Window,            \* kWindowTicks
    Allowance,         \* kStructuresPerWin
    MaxTick,           \* bound: ticks of a game
    MaxGame,           \* bound: games played in the process
    MaxBuilt,          \* bound: units built before the last slot is used again
    MaxHeld            \* bound: blocks held at a time

ASSUME ShareAssumption ==
    /\ MaxSlot \in Nat /\ Me \notin Allies
    /\ Window \in Nat \ {0} /\ Allowance \in Nat /\ MaxTick \in Nat
    /\ MaxGame \in Nat /\ MaxBuilt \in Nat /\ MaxHeld \in Nat

VARIABLES
    shareTime,     \* the engine's GameTime
    lastTick,      \* g_lastTick
    unitAt,        \* the engine's units; id tells the units of one slot apart
    built,         \* the number of units built so far
    connected,     \* the allies in the game (PlayerActive)
    windowLog,     \* g_windowLog: the structures it counts, with the tick of their release
    held,          \* g_delayedBlocks
    game,          \* history: the number of the game
    immediate      \* history: the structures of this game handed over without delay

shareVars == <<shareTime, lastTick, unitAt, built, connected, windowLog, held, game, immediate>>

Slots   == 1 .. MaxSlot
Players == {Me} \cup Allies
Unit    == [id : Nat, type : BuildingTypes, owner : Players, alive : BOOLEAN]
Entry   == [slot : Slots, type : BuildingTypes, target : Allies]
Block   == [due : Nat, units : SUBSET Entry, game : Nat]
Release == [tick : Nat, unit : Nat]

-----------------------------------------------------------------------------
(* The rate limiter.  PruneWindow is called first by everything else.        *)

\* Faulty variant: only the window is pruned.
ClockWentBackNever(now) == FALSE

\* A new game, or a replay that was rewound.
ClockWentBack(now) == now < lastTick

\* Faulty variant: the boundary belongs to the window no longer.
RecentShort(log, now) == {r \in log : now - r.tick < Window - 1}

Recent(log, now) == {r \in log : now - r.tick < Window}

Pruned(now)     == IF ClockWentBack(now) THEN {} ELSE Recent(windowLog, now)
HeldStill(now)  == IF ClockWentBack(now) THEN <<>> ELSE held

\* Faulty variant: also a dead unit.
ResolvesDead(q) == unitAt[q.slot].type = q.type /\ unitAt[q.slot].owner = Me

\* ResolveQueued: the slot holds a live unit of the type that was shared, and
\* the giver still owns it.
Resolves(q) ==
    unitAt[q.slot].type = q.type /\ unitAt[q.slot].owner = Me /\ unitAt[q.slot].alive

\* ReleaseBlock hands this entry over.
Releases(q) == Resolves(q) /\ q.target \in connected

Released(block) == {q \in block : Releases(q)}

\* Faulty variant: a block waits one tick more.
DueBlocksLate(blocks, now) ==
    {i \in DOMAIN blocks : \A j \in 1 .. i : blocks[j].due < now}

\* The loop of OnGameTick takes blocks from the front while they are due.
DueBlocks(blocks, now) ==
    {i \in DOMAIN blocks : \A j \in 1 .. i : blocks[j].due <= now}

\* A slot named by several blocks goes to the target of the first that resolves:
\* afterwards the giver does not own it.
Handed(blocks, due) ==
    {q \in UNION {Released(blocks[i].units) : i \in due} :
        \E i \in due : /\ q \in blocks[i].units
                       /\ \A j \in due : \A p \in Released(blocks[j].units) :
                             p.slot = q.slot => i <= j}

Given(handed) ==
    [s \in Slots |-> IF \E q \in handed : q.slot = s
                     THEN [unitAt[s] EXCEPT !.owner = (CHOOSE q \in handed : q.slot = s).target]
                     ELSE unitAt[s]]

Logged(handed, now) == {[tick |-> now, unit |-> unitAt[q.slot].id] : q \in handed}

\* The player shares the buildings in S with an ally: GiveSelect_Entry_Proc,
\* ShouldSuppressGive for each of them, and FinishPlayerShare.
Share(S, target) ==
    /\ shareTime > 0
    /\ S # {} /\ target \in connected
    /\ \A s \in S : unitAt[s].owner = Me /\ unitAt[s].alive
    /\ LET block == {[slot |-> s, type |-> unitAt[s].type, target |-> target] : s \in S}
           log   == Pruned(shareTime)
           fits  == Cardinality(log) + Cardinality(S) <= Allowance
       IN  /\ lastTick' = shareTime
           /\ \/ /\ fits
                 /\ unitAt' = Given(Released(block))
                 /\ windowLog' = log \cup Logged(Released(block), shareTime)
                 /\ immediate' = immediate \cup Logged(Released(block), shareTime)
                 /\ held' = HeldStill(shareTime)
              \/ /\ ~fits
                 /\ Len(HeldStill(shareTime)) < MaxHeld
                 /\ held' = Append(HeldStill(shareTime),
                              [due |-> shareTime + Window, units |-> block, game |-> game])
                 /\ windowLog' = log
                 /\ UNCHANGED <<unitAt, immediate>>
    /\ UNCHANGED <<shareTime, built, connected, game>>

\* OnGameTick.
ShareTick ==
    /\ shareTime < MaxTick
    /\ LET now    == shareTime + 1
           blocks == HeldStill(now)
           due    == DueBlocks(blocks, now)
       IN  /\ shareTime' = now /\ lastTick' = now
           /\ unitAt' = Given(Handed(blocks, due))
           /\ windowLog' = Pruned(now) \cup Logged(Handed(blocks, due), now)
           /\ held' = SubSeq(blocks, Cardinality(due) + 1, Len(blocks))
    /\ UNCHANGED <<built, connected, game, immediate>>

-----------------------------------------------------------------------------
(* The engine *)

Dies(s) ==
    /\ unitAt[s].alive
    /\ unitAt' = [unitAt EXCEPT ![s].alive = FALSE]
    /\ UNCHANGED <<shareTime, lastTick, built, connected, windowLog, held, game, immediate>>

\* The slot of a dead unit is used again.
Recycled(s, type, player) ==
    /\ ~unitAt[s].alive /\ built < MaxBuilt
    /\ unitAt' = [unitAt EXCEPT ![s] =
                    [id |-> built + 1, type |-> type, owner |-> player, alive |-> TRUE]]
    /\ built' = built + 1
    /\ UNCHANGED <<shareTime, lastTick, connected, windowLog, held, game, immediate>>

AllyLeaves(a) ==
    /\ a \in connected
    /\ connected' = connected \ {a}
    /\ UNCHANGED <<shareTime, lastTick, unitAt, built, windowLog, held, game, immediate>>

\* Every slot holds a building of the player.
Fresh(type, count) ==
    [s \in Slots |-> [id |-> count + s, type |-> type[s], owner |-> Me, alive |-> TRUE]]

\* The next game of the process.  Nobody tells ShareGuard; the last one had more
\* than one tick.
NewGame ==
    /\ shareTime > 1 /\ game < MaxGame
    /\ shareTime' = 0 /\ game' = game + 1 /\ immediate' = {}
    /\ \E type \in [Slots -> BuildingTypes] : unitAt' = Fresh(type, built)
    /\ built' = built + MaxSlot
    /\ connected' = Allies
    /\ UNCHANGED <<lastTick, windowLog, held>>

ShareInit ==
    /\ shareTime = 0 /\ lastTick = 0 /\ game = 0
    /\ \E type \in [Slots -> BuildingTypes] : unitAt = Fresh(type, 0)
    /\ built = MaxSlot
    /\ connected = Allies
    /\ windowLog = {} /\ held = <<>> /\ immediate = {}

ShareNext ==
    \/ \E S \in SUBSET Slots, a \in Allies : Share(S, a)
    \/ ShareTick
    \/ \E s \in Slots : Dies(s)
    \/ \E s \in Slots, type \in BuildingTypes, player \in Players : Recycled(s, type, player)
    \/ \E a \in Allies : AllyLeaves(a)
    \/ NewGame

ShareSpec == ShareInit /\ [][ShareNext]_shareVars

-----------------------------------------------------------------------------
(* Properties *)

\* The variables keep their types.
ShareTypeOK ==
    /\ shareTime \in Nat /\ lastTick \in Nat /\ built \in Nat /\ game \in Nat
    /\ unitAt \in [Slots -> Unit]
    /\ connected \subseteq Allies
    /\ windowLog \subseteq Release /\ immediate \subseteq Release
    /\ held \in Seq(Block)

\* "Default 10 structures per 30s": however the shares are cut into batches and
\* whatever falls due meanwhile, what goes through without delay in any 30 s is
\* within the allowance.
FreeAllowance ==
    Cardinality({r \in immediate : shareTime - r.tick < Window}) <= Allowance

\* "The ENTIRE share is held and released together 30s later": a held share is
\* there until its tick; then every building in it that is still the giver's
\* changes hands, also when others of the share have died, were recycled, or
\* were handed over by another share.
HeldSharesArrive ==
    [][ShareTick /\ shareTime' >= lastTick =>
         \A i \in DOMAIN held :
            IF held[i].due <= shareTime'
            THEN \A q \in held[i].units : Releases(q) => unitAt'[q.slot].owner # Me
            ELSE held[i] \in {held'[j] : j \in DOMAIN held'}]_shareVars

\* Indices are recycled while a share is held: what is handed over is alive, the
\* giver's own, and of a type that was shared under that index.
NoForeignGive ==
    [][ShareTick => \A s \in Slots : unitAt'[s].owner # unitAt[s].owner =>
         /\ unitAt[s].alive /\ unitAt[s].owner = Me
         /\ \E i \in DOMAIN held : \E q \in held[i].units :
               q.slot = s /\ q.type = unitAt[s].type /\ q.target = unitAt'[s].owner]_shareVars

\* A share held when a game ends hands nothing over in the next one, where the
\* indices mean other units.
NoCarryOver ==
    [][ShareTick => \A s \in Slots : unitAt'[s].owner # unitAt[s].owner =>
         \E i \in DOMAIN held : held[i].game = game /\ \E q \in held[i].units : q.slot = s]_shareVars
=============================================================================
