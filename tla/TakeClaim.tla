----------------------------- MODULE TakeClaim -----------------------------
(***************************************************************************)
(* The '.take' election of tdraw.dll (DDraw/TakeClaim.cpp): which ally     *)
(* inherits the units of one disconnected player, the target.  Elections   *)
(* on different targets are separate entries of g_elections and share      *)
(* nothing, so one target is enough.                                       *)
(*                                                                         *)
(* Allies broadcast claims stamped with their sim tick and collect the     *)
(* claims of the others; when its own window closes each one picks the     *)
(* winner alone.  The winner emits the '.take', watches the walk that      *)
(* hands over the units and broadcasts Complete; everybody then rejects    *)
(* the target.                                                             *)
(***************************************************************************)
EXTENDS Naturals, FiniteSets

CONSTANTS
    Client,        \* allies of the target, named by their dpid
    None,          \* no entry in g_elections
    SettleTicks, GraceTicks, ElectionKeepTicks, QuietTicks, SamplePeriod,
    CompleteBackstop, FinishDelayTicks, TickSkewTolerance,   \* as in the source
    MaxDelay,      \* ticks a packet may be on its way
    MaxSkew,       \* ticks one client may be ahead of another
    MaxGap,        \* ticks between two units of the walk, or before the first
    Units,         \* units of the target that the walk hands over
    Leftover,      \* units it leaves: unfinished ones, the commander
    MaxClaims,     \* bound: claims a client makes
    LastClaim,     \* bound: no claim is made after this tick
    MaxTick,       \* bound: the clocks stop here
    CanCrash,      \* clients that may drop out of the game
    CanRefuse,     \* clients whose MayTake may turn false
    CanDecline     \* clients whose dplayx may decline the '.take' (OnTake)

ASSUME ClientAssumption == Client \subseteq Nat /\ IsFiniteSet(Client)
ASSUME SubsetAssumption == CanCrash \subseteq Client /\ CanRefuse \subseteq Client /\ CanDecline \subseteq Client
ASSUME TickAssumption ==
    \A n \in {SettleTicks, GraceTicks, ElectionKeepTicks, QuietTicks, SamplePeriod,
              CompleteBackstop, FinishDelayTicks, TickSkewTolerance, MaxDelay, MaxSkew,
              MaxGap, Units, Leftover, MaxClaims, LastClaim, MaxTick} : n \in Nat
ASSUME SourceAssumption ==        \* the relations between the source's constants
    /\ SettleTicks > 0 /\ GraceTicks > 0 /\ FinishDelayTicks > 0
    /\ TickSkewTolerance = 2 * SettleTicks
    /\ CompleteBackstop = ElectionKeepTicks
ASSUME SkewAssumption == MaxSkew > 0
ASSUME SettleAssumption ==        \* the window outlasts the network and the skew
    MaxDelay < SettleTicks /\ MaxSkew < SettleTicks
ASSUME GraceAssumption ==         \* a '.take' of a winner that drops out arrives in time
    MaxDelay < GraceTicks
ASSUME QuietAssumption == MaxGap < QuietTicks                 \* "> p99 gap"

VARIABLES
    now,        \* now[c]: SimTick() of client c
    election,   \* election[c]: c's g_elections entry for the target, or None
    net,        \* packets and chat lines in flight
    alive,      \* clients still in the game
    eligible,   \* eligible[c]: at c the target is pending rejection and may be taken
    units,      \* units the walk has not handed over yet
    walking,    \* clients whose dplayx walks the target's units (SelfTaking)
    walked,     \* tick of the last hand-over, or of the '.take'
    takers,     \* clients that emitted a '.take'
    completers, \* clients that broadcast Complete
    noted,      \* clients whose VoteReject holds the row open (NoteTake)
    rejected,   \* clients that rejected the target (FinishTake)
    made        \* made[c]: claims c has made

walk == <<units, walking, walked>>
vars == <<now, election, net, alive, eligible, walk, takers, completers, noted, rejected, made>>

-----------------------------------------------------------------------------
(* One election *)

TargetLiveUnits == units + Leftover

NoSample == Units + Leftover + 1    \* for -1: no count is that high

NewElection ==
    [claims |-> {}, closeTick |-> 0, graceTick |-> 0, resolved |-> FALSE, executed |-> FALSE,
     retireTick |-> 0, awaitDrain |-> FALSE, finishAt |-> 0, drainBy |-> 0,
     liveCount |-> NoSample, lastChange |-> 0, nextSample |-> 0, excluded |-> {}]

\* g_elections[target]: the entry, created when there is none.
Entry(c) == IF election[c] = None THEN NewElection ELSE election[c]

\* Faulty variant: the window closes at once.
RecordClaimUnsettled(e, p, tick) ==
    IF e.executed \/ \E x \in e.claims : x.dpid = p THEN e
    ELSE [e EXCEPT !.claims = @ \cup {[dpid |-> p, tick |-> tick]},
                   !.closeTick = IF e.claims = {} /\ ~e.resolved THEN tick ELSE @]

\* A claim of p stamped tick is recorded in e.
RecordClaim(e, p, tick) ==
    LET old == {x \in e.claims : x.dpid = p}
        new == [dpid |-> p, tick |-> tick]
    IN  IF e.executed THEN e
        ELSE IF old = {}
        THEN [e EXCEPT !.claims = @ \cup {new},
                       !.closeTick = IF e.claims = {} /\ ~e.resolved THEN tick + SettleTicks ELSE @]
        ELSE IF ~e.resolved /\ \A x \in old : tick < x.tick
        THEN [e EXCEPT !.claims = (@ \ old) \cup {new}]
        ELSE e

Candidates(e) == {x \in e.claims : x.dpid \notin e.excluded}

Beats(x, y) == x.tick < y.tick \/ (x.tick = y.tick /\ x.dpid < y.dpid)

\* PickWinner, when there is a candidate.
Winner(e) == (CHOOSE x \in Candidates(e) : \A y \in Candidates(e) \ {x} : Beats(x, y)).dpid

\* Faulty variant: the winner is waited for without end.
NobodyIsGone(p) == FALSE

ClaimantIsGone(p) == p \notin alive

\* Once c has rejected the target there is nobody to take.
MayTake(c) == eligible[c] /\ c \notin rejected

\* Faulty variant: claims are ordered by the receiver's clock.
StampOnArrival(tick, t) == t

\* Only what cannot be an honest stamp is replaced by the receiver's clock.
Stamp(tick, t) ==
    IF tick + TickSkewTolerance < t \/ tick > t + TickSkewTolerance THEN t ELSE tick

\* Faulty variant: the sight of a '.take' rejects the target.
StandDownRejecting(e, t) ==
    [e EXCEPT !.resolved = TRUE, !.executed = TRUE, !.retireTick = t + ElectionKeepTicks,
              !.finishAt = t + FinishDelayTicks]

\* A '.take' of the target was seen: stand down.
StandDown(e, t) ==
    [e EXCEPT !.resolved = TRUE, !.executed = TRUE, !.retireTick = t + ElectionKeepTicks]

\* TransferQuiescent: whether the walk is over, and what the sample leaves in e.
Sampled(e, t) == t >= e.nextSample

\* Faulty variant: one unchanged sample is taken for the end of the walk.
QuiescentAtOnce(e, t) == Sampled(e, t) /\ TargetLiveUnits = e.liveCount

Quiescent(e, t) ==
    /\ Sampled(e, t) /\ TargetLiveUnits = e.liveCount
    /\ TargetLiveUnits = 0 \/ t >= e.lastChange + QuietTicks

Sample(e, t) ==
    IF ~Sampled(e, t) THEN e
    ELSE [e EXCEPT !.nextSample = t + SamplePeriod,
                   !.liveCount  = TargetLiveUnits,
                   !.lastChange = IF TargetLiveUnits = e.liveCount THEN @ ELSE t]

-----------------------------------------------------------------------------
(* Packets *)

\* Every packet carries the sender's tick of its sending.
Packet(command, c, d, tick) == [command |-> command, from |-> c, to |-> d, tick |-> tick]

ToOthers(command, c, tick) == {Packet(command, c, d, tick) : d \in alive \ {c}}

\* The chat line of the '.take' reaches the others; the accept line of dplayx
\* ("<taker> taking <target>s units") is also shown to the taker itself.
ToAll(command, c, tick) == {Packet(command, c, d, tick) : d \in alive}

-----------------------------------------------------------------------------
(* BeginClaim *)

BeginClaim(c) ==
    /\ c \in alive
    /\ made[c] < MaxClaims /\ now[c] <= LastClaim
    /\ MayTake(c)
    /\ election[c] # None =>
          /\ ~election[c].executed
          /\ election[c].resolved \/ \A x \in election[c].claims : x.dpid # c
    /\ election' = [election EXCEPT ![c] = RecordClaim(Entry(c), c, now[c])]
    /\ net' = net \cup ToOthers("Claim", c, now[c])
    /\ made' = [made EXCEPT ![c] = @ + 1]
    /\ UNCHANGED <<now, alive, eligible, walk, takers, completers, noted, rejected>>

-----------------------------------------------------------------------------
(* OnClaimPacket and OnIncomingChat *)

Arrives(m) == m.to \in alive /\ net' = net \ {m}

OnClaim(m) ==
    /\ m.command = "Claim" /\ Arrives(m)
    /\ election' = [election EXCEPT ![m.to] =
                      RecordClaim(Entry(m.to), m.from, Stamp(m.tick, now[m.to]))]
    /\ UNCHANGED <<now, alive, eligible, walk, takers, completers, noted, rejected, made>>

\* The name of a target that is rejected resolves to nobody.  dplayx aborts a
\* walk of its own when it sees the '.take' of another.
OnTakeSeen(m) ==
    /\ m.command = "take" /\ Arrives(m)
    /\ IF m.to \in rejected THEN UNCHANGED <<election, noted>>
       ELSE /\ election' = [election EXCEPT ![m.to] = StandDown(Entry(m.to), now[m.to])]
            /\ noted' = noted \cup {m.to}
    /\ walking' = IF m.from = m.to THEN walking ELSE walking \ {m.to}
    /\ UNCHANGED <<now, alive, eligible, units, walked, takers, completers, rejected, made>>

\* The reject is left to the game tick: no network I/O in a packet handler.
OnComplete(m) ==
    /\ m.command = "Complete" /\ Arrives(m)
    /\ election' = [election EXCEPT ![m.to] =
                      [StandDown(Entry(m.to), now[m.to]) EXCEPT
                          !.awaitDrain = FALSE, !.finishAt = now[m.to] + FinishDelayTicks]]
    /\ UNCHANGED <<now, alive, eligible, walk, takers, completers, noted, rejected, made>>

\* No code sends a Withdraw; a client that received one would exclude its sender.

-----------------------------------------------------------------------------
(* ResolveElections, once per game tick *)

\* The taker's Complete is due: the walk has stopped, or the backstop is reached.
DrainEnds(e, t) == e.awaitDrain /\ (Quiescent(e, t) \/ t >= e.drainBy)

AfterDrain(e, t) ==
    IF ~e.awaitDrain THEN e
    ELSE IF DrainEnds(e, t)
    THEN [Sample(e, t) EXCEPT !.awaitDrain = FALSE, !.finishAt = t + FinishDelayTicks]
    ELSE Sample(e, t)

Finishes(e, t) == e.finishAt > 0 /\ t >= e.finishAt

AfterFinish(e, t) == IF Finishes(e, t) THEN [e EXCEPT !.finishAt = 0] ELSE e

Retires(e, t) == e.executed /\ e.retireTick > 0 /\ t >= e.retireTick

\* What closing the window, or the end of the grace time, decides at c.
Decision(c, e, t) ==
    IF ~e.resolved /\ t >= e.closeTick
    THEN IF e.executed THEN "stand down"
         ELSE IF Candidates(e) = {} THEN "nobody"
         ELSE IF Winner(e) # c THEN "lost"
         ELSE IF MayTake(c) THEN "take" ELSE "pass on"
    ELSE IF e.resolved /\ ~e.executed /\ t >= e.graceTick
    THEN IF Candidates(e) = {} THEN "nobody"
         ELSE IF ClaimantIsGone(Winner(e)) THEN "pass on" ELSE "hold"
    ELSE "wait"

\* The entry after the decision.
Decided(e, d, t) ==
    CASE d \in {"stand down", "lost", "hold"} ->
            [e EXCEPT !.resolved = TRUE, !.graceTick = t + GraceTicks]
      [] d = "nobody"  -> StandDown(e, t)
      [] d = "take"    -> [StandDown(e, t) EXCEPT
                              !.awaitDrain = TRUE, !.drainBy = t + CompleteBackstop,
                              !.liveCount = NoSample, !.lastChange = t, !.nextSample = t]
      [] d = "pass on" -> [e EXCEPT !.excluded = @ \cup {Winner(e)},
                              !.resolved = FALSE, !.closeTick = t]
      [] OTHER         -> e

\* The lockstep, the network and the walk let c's clock move on.
MayAdvance(c) ==
    /\ c \in alive /\ now[c] < MaxTick
    /\ \A d \in alive : now[c] < now[d] + MaxSkew
    /\ \A m \in net : m.to = c => now[c] < m.tick + MaxDelay
    /\ c \in walking /\ units > 0 => now[c] < walked + MaxGap

\* The '.take' goes out; its accept line, which the taker sees too, only when
\* dplayx accepts and starts to walk.
Announced(c, t, accepted) == IF accepted THEN ToAll("take", c, t) ELSE ToOthers("take", c, t)

GameTick(c, accepted) ==
    /\ accepted \/ c \in CanDecline
    /\ MayAdvance(c)
    /\ now' = [now EXCEPT ![c] = @ + 1]
    /\ LET t  == now[c] + 1
           e  == election[c]
           e2 == AfterFinish(AfterDrain(e, t), t)
           d  == IF e = None THEN "wait" ELSE IF Retires(e2, t) THEN "retire"
                 ELSE Decision(c, e2, t)
           take     == d = "take"
           complete == e # None /\ DrainEnds(e, t)
           finish   == e # None /\ Finishes(AfterDrain(e, t), t)
           Adding(set, b) == IF b THEN set \cup {c} ELSE set
       IN  /\ election' = IF e = None THEN election
                          ELSE [election EXCEPT ![c] = IF d = "retire" THEN None
                                                       ELSE Decided(e2, d, t)]
           /\ net' = net \cup (IF complete THEN ToOthers("Complete", c, t) ELSE {})
                         \cup (IF take THEN Announced(c, t, accepted) ELSE {})
           /\ completers' = Adding(completers, complete)
           /\ rejected' = Adding(rejected, finish)
           /\ takers' = Adding(takers, take)
           /\ noted' = Adding(noted, take)
           /\ walking' = Adding(walking, take /\ accepted)
           /\ walked' = IF take THEN t ELSE walked
    /\ UNCHANGED <<alive, eligible, units, made>>

-----------------------------------------------------------------------------
(* Around the election *)

\* Faulty variant: the walk does not notice that nothing is left.
WalkOn(c) ==
    /\ c \in walking \cap alive
    /\ units' = units - 1
    /\ walked' = now[c]
    /\ UNCHANGED <<now, election, net, alive, eligible, walking, takers, completers, noted,
                   rejected, made>>

\* dplayx hands one more unit over to the taker.
Walk(c) ==
    /\ c \in walking \cap alive /\ units > 0
    /\ units' = units - 1
    /\ walked' = now[c]
    /\ UNCHANGED <<now, election, net, alive, eligible, walking, takers, completers, noted,
                   rejected, made>>

\* A client drops out.  To each of the others, its last packets on their way
\* may be lost: those it sent at or after some tick.
Crash(c) ==
    /\ c \in alive \cap CanCrash
    /\ alive' = alive \ {c}
    /\ \E cut \in [Client -> {m.tick : m \in {n \in net : n.from = c}} \cup {now[c] + 1}] :
          net' = {m \in net : m.to # c /\ (m.from = c => m.tick < cut[m.to])}
    /\ UNCHANGED <<now, election, eligible, walk, takers, completers, noted, rejected, made>>

\* The target is heard again at c, or ShareGuard refuses: MayTake turns false.
LoseEligibility(c) ==
    /\ c \in CanRefuse /\ eligible[c]
    /\ eligible' = [eligible EXCEPT ![c] = FALSE]
    /\ UNCHANGED <<now, election, net, alive, walk, takers, completers, noted, rejected, made>>

Init ==
    /\ now        = [c \in Client |-> 1]
    /\ election   = [c \in Client |-> None]
    /\ net        = {}
    /\ alive      = Client
    /\ eligible   = [c \in Client |-> TRUE]
    /\ units      = Units
    /\ walking    = {}
    /\ walked     = 0
    /\ takers     = {}
    /\ completers = {}
    /\ noted      = {}
    /\ rejected   = {}
    /\ made       = [c \in Client |-> 0]

Next ==
    \/ \E c \in Client : \/ BeginClaim(c) \/ Walk(c)
                         \/ \E accepted \in BOOLEAN : GameTick(c, accepted)
                         \/ Crash(c) \/ LoseEligibility(c)
    \/ \E m \in net : OnClaim(m) \/ OnTakeSeen(m) \/ OnComplete(m)

Spec == Init /\ [][Next]_vars

\* The game loops run, packets arrive and the walk goes on; nobody has to
\* claim, to drop out or to lose eligibility.
Progress ==
    \/ \E c \in Client : Walk(c) \/ \E accepted \in BOOLEAN : GameTick(c, accepted)
    \/ \E m \in net : OnClaim(m) \/ OnTakeSeen(m) \/ OnComplete(m)

FairSpec == Spec /\ WF_vars(Progress)

-----------------------------------------------------------------------------
(* Properties *)

ElectionType ==
    [claims : SUBSET [dpid : Client, tick : Nat], closeTick : Nat, graceTick : Nat,
     resolved : BOOLEAN, executed : BOOLEAN, retireTick : Nat, awaitDrain : BOOLEAN,
     finishAt : Nat, drainBy : Nat, liveCount : Nat, lastChange : Nat, nextSample : Nat,
     excluded : SUBSET Client]

ASSUME NoneAssumption == None \notin ElectionType

PacketType ==
    [command : {"Claim", "take", "Complete"}, from : Client, to : Client, tick : Nat]

\* The variables keep their types; only a client that emitted a '.take' walks, and
\* the walk stops when no unit is left.
TypeOK ==
    /\ now \in [Client -> Nat] /\ made \in [Client -> Nat]
    /\ election \in [Client -> ElectionType \cup {None}]
    /\ net \subseteq PacketType
    /\ alive \subseteq Client /\ eligible \in [Client -> BOOLEAN]
    /\ units \in 0..Units /\ walked \in Nat /\ walking \subseteq takers
    /\ takers \subseteq Client /\ completers \subseteq Client
    /\ noted \subseteq Client /\ rejected \subseteq Client

\* c has closed its window and waits for the winner it elected.
Waits(c) == c \in alive /\ election[c] # None /\ election[c].resolved /\ ~election[c].executed

WaitsFor(c, w) == Waits(c) /\ Candidates(election[c]) # {} /\ Winner(election[c]) = w

\* The base is handed out once: no two clients still in the game have both
\* emitted a '.take' of the target (TakeClaim.cpp, kSettleTicks and PickWinner).
OneTaker == \A c, d \in takers \cap alive : c = d

\* Without a message between them, clients that wait for somebody who is there
\* and may take wait for the same one: PickWinner on claims that arrived in
\* any order, some of them of clients that dropped out.
SameWinner ==
    \A c, d \in alive : \A v, w \in alive :
        WaitsFor(c, v) /\ WaitsFor(d, w) /\ MayTake(v) /\ MayTake(w) => v = w

\* "A premature Complete is worse than a late one": when the taker announces
\* that it has finished, the walk has handed everything over, or the backstop
\* has run out (TransferQuiescent).  It holds where dplayx accepts every '.take' and no
\* two clients drop out; TakeClaim.cpp:45-46 quoted here is what a declined one refutes.
NoPrematureComplete ==
    [][\A c \in completers' \ completers :
          units = 0 \/ now'[c] >= election[c].drainBy]_vars

\* Nobody rejects the target, and so destroys the units it still owns, on the
\* mere sight of a '.take': the taker has announced its Complete before.
RejectFollowsComplete == rejected # {} => completers # {}

\* Every claim comes to an end at every client that stays: the election is
\* executed, or its entry is gone, even when an elected winner drops out before
\* its '.take' (the grace path).  It does not when a taker drops out after its
\* '.take', or when a winner may no longer take (NoMutualWaiting below).
Settled(c) == c \notin alive \/ election[c] = None \/ election[c].executed

ElectionsEnd ==
    [](takers \subseteq alive /\ \A c \in Client : eligible[c])
        => \A c \in Client : [](~Settled(c) => <>Settled(c))

-----------------------------------------------------------------------------
(* What the source says and the code does not do *)

\* TakeClaim.cpp:580, for a winner that may no longer take: "let the next
\* claimant have it".  So no two clients wait for each other.
NoMutualWaiting ==
    net = {} => \A c, d \in alive : c # d => ~(WaitsFor(c, d) /\ WaitsFor(d, c))

\* TakeClaim.cpp:519-521, on finishAt: "so both the taker and the receivers
\* take the same path".  So a taker that announced Complete rejects the target
\* before its entry is erased.
CompleteRejectsHere == \A c \in completers : election[c] = None => c \in rejected
=============================================================================
