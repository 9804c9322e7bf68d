----------------------------- MODULE VoteReject -----------------------------
(***************************************************************************)
(* The in-game reject ballots of tdraw.dll (DDraw/VoteReject.cpp).         *)
(*                                                                         *)
(* Every client keeps its own copy of every ballot, broadcasts the votes   *)
(* of its own player and decides by itself, from the votes it has received *)
(* and from its own view of who is still connected, when a ballot carries. *)
(* A client that carries a ballot sends the engine's reject packet.        *)
(*                                                                         *)
(* Time is abstracted: the durations (90 s, 60 s, 90 s) become the choice, *)
(* at each Tick, of the deadlines that have passed.                        *)
(***************************************************************************)
EXTENDS Naturals, FiniteSets, Sequences

CONSTANTS
    Client,     \* human players, each running the dll (named by their dpid)
    Local,      \* the clients followed in detail; the others send what they like
    Bot,        \* AI players: in the player table, never send a vote
    Droppable,  \* the clients whose traffic may fall silent in this instance
    Target,     \* the players that ballots of this instance may name
    Allies,     \* Allies[p]: the players mutually allied with p
    Lossy,      \* whether vote packets may be lost in this instance
    None,       \* no ballot in m_votes
    MaxQueue    \* bound: vote packets in flight on one link

Player == Client \cup Bot
Mask   == {"manual", "timeout"}        \* rejectMask 1 and 6
Why    == {"carried", "expired", "taken"}

\* VoteState: what m_votes holds for one target.
Ballot == [mask           : Mask,
           voters         : SUBSET Client,
           noVoters       : SUBSET Client,
           slot           : BOOLEAN,   \* targetSlot >= 0
           resumed        : BOOLEAN,   \* LastMsgTimeStamp moved since proposal
           votingClosed   : BOOLEAN,
           takeInProgress : BOOLEAN]

Message == [command : {"ProposeVote", "CastVote", "CastNoVote"},
            target  : Target,
            mask    : Mask]

\* A reject packet (Send_PacketPlayerState_1B) and what decided it.
Reject == [target : Target, mask : Mask, why : Why]

ASSUME TargetAssumption == Target \subseteq Client
ASSUME AlliesAssumption == /\ Allies \in [Player -> SUBSET Player]
                           /\ \A p \in Player : p \notin Allies[p]
ASSUME NoneAssumption   == None \notin Ballot
ASSUME ClientAssumption == Local \subseteq Client /\ Droppable \subseteq Client
ASSUME FiniteAssumption == IsFiniteSet(Client) /\ IsFiniteSet(Bot)
ASSUME BoundAssumption  == MaxQueue \in Nat /\ Lossy \in BOOLEAN

VARIABLES
    votes,      \* votes[c][t]: the ballot on t that client c holds, or None
    pending,    \* pending[c]: m_pendingThresholdChecks
    cooldown,   \* cooldown[c]: targets whose cooldown still runs
    window,     \* window[c]: m_completedTimeoutRejects, the '.take' windows
    silent,     \* silent[c]: peers c has not heard for the dropout timeout
    gone,       \* gone[c]: players removed from c's player table
    rejects,    \* rejects[c]: the reject packets c has sent
    net,        \* net[d][c]: vote packets from d on their way to c, in order
    said,       \* history: <<p, t>> when player p has voted YES on t
    taking      \* targets some ally has started a '.take' of

ballotVars == <<votes, pending, cooldown, window, rejects>>
worldVars  == <<silent, gone, taking>>
vars == <<ballotVars, worldVars, net, said>>

-----------------------------------------------------------------------------
(* Vote arithmetic *)

\* A slot whose player can deliver a vote to c: c itself, or a human heard lately.
CanCastVote(c, p) ==
    /\ p \notin gone[c]
    /\ p \in Client
    /\ p # c => p \notin silent[c]

Eligible(c, t) == {p \in Player \ {t} : CanCastVote(c, p)}

\* Faulty variant: two thirds rounded down.
VotesNeededFloor(mask, eligible) ==
    IF eligible <= 1 THEN 1
    ELSE IF mask = "timeout" THEN 2 ELSE (eligible * 2) \div 3

VotesNeeded(mask, eligible) ==
    IF eligible <= 1 THEN 1
    ELSE IF mask = "timeout" THEN 2 ELSE (eligible * 2 + 2) \div 3

\* Faulty variant: consent asked for manual rejects only.
ManualConsent(c, t, b) ==
    LET able == {p \in Allies[t] : CanCastVote(c, p)}
    IN  b.slot /\ b.mask = "manual" /\ able # {} => able \cap b.voters # {}

\* One ally able to vote, if there is any, must have voted YES.
TeammateConsent(c, t, b) ==
    LET able == {p \in Allies[t] : CanCastVote(c, p)}
    IN  b.slot /\ able # {} => able \cap b.voters # {}

\* Faulty variant: a lost manual ballot is closed like a timeout one.
VerdictClosing(c, t, b) ==
    LET eligible == Cardinality(Eligible(c, t))
        needed   == VotesNeeded(b.mask, eligible)
    IN  IF Cardinality(b.voters) >= needed /\ TeammateConsent(c, t, b) THEN "carried"
        ELSE IF Cardinality(b.noVoters) + needed <= eligible THEN "open" ELSE "closed"

\* What CheckAndExecuteReject decides about ballot b on t at client c.
Verdict(c, t, b) ==
    LET eligible == Cardinality(Eligible(c, t))
        needed   == VotesNeeded(b.mask, eligible)
    IN  IF Cardinality(b.voters) >= needed /\ TeammateConsent(c, t, b) THEN "carried"
        ELSE IF Cardinality(b.noVoters) + needed <= eligible THEN "open"
        ELSE IF b.mask = "manual" THEN "failed" ELSE "closed"

\* Faulty variant: every proposer votes YES, of a timeout ballot too.
NewBallotImplicitYes(c, t, mask, from) ==
    [mask |-> mask, voters |-> {from}, noVoters |-> {}, slot |-> t \notin gone[c],
     resumed |-> FALSE, votingClosed |-> FALSE, takeInProgress |-> FALSE]

NewBallot(c, t, mask, from) ==
    [mask           |-> mask,
     voters         |-> IF mask = "manual" THEN {from} ELSE {},
     noVoters       |-> {},
     slot           |-> t \notin gone[c],
     resumed        |-> FALSE,
     votingClosed   |-> FALSE,
     takeInProgress |-> FALSE]

WithYes(b, p) == [b EXCEPT !.voters = @ \cup {p}, !.noVoters = @ \ {p}]
\* Faulty variant: a NO leaves the earlier YES of the same player standing.
WithNoKeepingYes(b, p) == [b EXCEPT !.noVoters = @ \cup {p}]

WithNo(b, p)  == [b EXCEPT !.noVoters = @ \cup {p}, !.voters = @ \ {p}]

\* Targets of the timeout rejects in R: each opens a '.take' window.
Opened(R) == {r.target : r \in {x \in R : x.mask = "timeout"}}

\* ExecuteReject: c sends the reject packets R.
ExecuteReject(c, R) ==
    /\ rejects' = [rejects EXCEPT ![c] = @ \cup R]
    /\ window'  = [window EXCEPT ![c] = @ \cup Opened(R)]

IfCarried(v, t, b) ==
    IF v = "carried" THEN {[target |-> t, mask |-> b.mask, why |-> v]} ELSE {}

\* The check at the end of a local operation, on the ballot b it leaves.
CheckAndExecuteReject(c, t, b) ==
    LET v == Verdict(c, t, b)
    IN  /\ votes' = [votes EXCEPT ![c][t] =
                        IF v \in {"carried", "failed"} THEN None
                        ELSE IF v = "closed" THEN [b EXCEPT !.votingClosed = TRUE]
                        ELSE b]
        /\ cooldown' = IF v = "failed" THEN [cooldown EXCEPT ![c] = @ \cup {t}] ELSE cooldown
        /\ ExecuteReject(c, IfCarried(v, t, b))
        /\ UNCHANGED pending

Broadcast(c, m) ==
    /\ \A d \in Local : Len(net[c][d]) < MaxQueue
    /\ net' = [net EXCEPT ![c] = [d \in Local |-> IF d = c THEN net[c][d]
                                                   ELSE Append(net[c][d], m)]]

\* The packet counts as a YES of its sender: a proposal to reject implies one.
CarriesYes(m) == m.command = "CastVote" \/ (m.command = "ProposeVote" /\ m.mask = "manual")

Msg(command, t, mask) == [command |-> command, target |-> t, mask |-> mask]

-----------------------------------------------------------------------------
(* Operations of the local player *)

InGame(c) == c \notin gone[c]

ProposeReject(c, t, mask) ==
    /\ votes[c][t] = None
    /\ t \notin cooldown[c]
    /\ Broadcast(c, Msg("ProposeVote", t, mask))
    /\ CheckAndExecuteReject(c, t, NewBallot(c, t, mask, c))

\* YES with no ballot open: YesNoRejectRouter proposes a manual reject.
ProposeManual(c, t) ==
    /\ InGame(c) /\ c # t /\ t \notin gone[c]
    /\ ProposeReject(c, t, "manual")
    /\ said' = said \cup {<<c, t>>}
    /\ UNCHANGED worldVars

\* CheckForDroppedPlayers found t silent: ShowRejectWindow / MultiDropout routers.
ProposeDropout(c, t) ==
    /\ InGame(c) /\ c # t /\ t \in silent[c] \ gone[c]
    /\ ProposeReject(c, t, "timeout")
    /\ UNCHANGED <<worldVars, said>>

\* YES on an open ballot: the YESORNO router and the vote dialog do the same.
CastLocalYesVote(c, t) ==
    /\ InGame(c) /\ c # t
    /\ votes[c][t] # None
    /\ c \notin votes[c][t].voters
    /\ Broadcast(c, Msg("CastVote", t, votes[c][t].mask))
    /\ CheckAndExecuteReject(c, t, WithYes(votes[c][t], c))
    /\ said' = said \cup {<<c, t>>}
    /\ UNCHANGED worldVars

CastLocalNoVote(c, t) ==
    /\ InGame(c) /\ c # t
    /\ votes[c][t] # None
    /\ c \notin votes[c][t].noVoters
    /\ Broadcast(c, Msg("CastNoVote", t, votes[c][t].mask))
    /\ CheckAndExecuteReject(c, t, WithNo(votes[c][t], c))
    /\ UNCHANGED <<worldVars, said>>

-----------------------------------------------------------------------------
(* Packets *)

\* Any packet from d moves d's LastMsgTimeStamp in c's player table.
Heard(c, d) ==
    /\ silent' = [silent EXCEPT ![c] = @ \ {d}]
    /\ UNCHANGED <<gone, taking>>

\* Ballots of c after a packet from d: a ballot on d sees the timestamp move.
Touched(c, d) ==
    [t \in Target |-> IF t = d /\ votes[c][t] # None /\ votes[c][t].slot
                      THEN [votes[c][t] EXCEPT !.resumed = TRUE]
                      ELSE votes[c][t]]

\* Faulty variants: no cooldown check, no check for a ballot on c itself.
MayOpenInCooldown(c, m, b) == b = None /\ ~(m.mask = "timeout" /\ m.target = c)

MayOpenOnSelf(c, m, b) == b = None /\ m.target \notin cooldown[c]

\* Whether OnReceive opens a ballot for proposal m when c holds b on its target.
MayOpen(c, m, b) ==
    /\ b = None
    /\ m.target \notin cooldown[c]
    /\ ~(m.mask = "timeout" /\ m.target = c)     \* c knows that it is alive

\* The ballot that message m from d leaves at c, which held b (or None).
Received(c, d, m, b) ==
    IF m.command = "ProposeVote"
    THEN IF MayOpen(c, m, b) THEN NewBallot(c, m.target, m.mask, d) ELSE b
    ELSE IF b = None THEN b
    ELSE IF m.command = "CastVote"
    THEN IF d \in b.voters THEN b ELSE WithYes(b, d)
    ELSE IF d \in b.noVoters THEN b ELSE WithNo(b, d)

\* Faulty variant: the sender queued instead of the target.
QueuedSender(c, d, m) == pending[c] \cup {d}

\* The queue of threshold checks once m from d has changed a ballot of c.
Queued(c, d, m) == pending[c] \cup {m.target}

\* OnReceive at c of m from d. Threshold checks are queued, never run, here:
\* sending would re-enter the network stack. An unchanged ballot is an early
\* return; a removed player's client dispatches nothing.
OnReceive(c, d, m) ==
    /\ LET b  == Touched(c, d)[m.target]
           b2 == IF InGame(c) THEN Received(c, d, m, b) ELSE b
       IN  /\ votes'   = [votes EXCEPT ![c] = [Touched(c, d) EXCEPT ![m.target] = b2]]
           /\ pending' = IF b2 # b THEN [pending EXCEPT ![c] = Queued(c, d, m)] ELSE pending
    /\ Heard(c, d)
    /\ UNCHANGED <<cooldown, window, rejects>>

\* The oldest packet on the link from d reaches c.
Deliver(c, d) ==
    /\ net[d][c] # <<>>
    /\ net' = [net EXCEPT ![d][c] = Tail(@)]
    /\ OnReceive(c, d, Head(net[d][c]))
    /\ UNCHANGED said

\* A packet from a client that is not followed in detail.  (OnReceive would count a vote of the
\* target on itself, but GetActiveVotes offers no client one: no such packet is sent.)
PeerPacket(c, d, m) ==
    /\ d \in Client \ Local /\ d # m.target
    /\ said' = IF CarriesYes(m) THEN said \cup {<<d, m.target>>} ELSE said
    /\ OnReceive(c, d, m)
    /\ UNCHANGED net

\* A vote packet is lost on the way from d to c.
Lose(d, c) ==
    /\ Lossy
    /\ net[d][c] # <<>>
    /\ net' = [net EXCEPT ![d][c] = Tail(@)]
    /\ UNCHANGED <<ballotVars, worldVars, said>>

\* Other traffic of d, or a give injected under d's dpid by a running take, reaches c.
PeerHeard(c, d) ==
    /\ c # d /\ d \notin gone[c]
    /\ d \in silent[c] \/ Touched(c, d) # votes[c]
    /\ votes' = [votes EXCEPT ![c] = Touched(c, d)]
    /\ Heard(c, d)
    /\ UNCHANGED <<pending, cooldown, window, rejects, net, said>>

\* c has heard nothing from d for NetworkDropoutTimeoutSec.
PeerSilent(c, d) ==
    /\ d \in Droppable
    /\ c # d /\ d \notin gone[c] \cup silent[c]
    /\ silent' = [silent EXCEPT ![c] = @ \cup {d}]
    /\ UNCHANGED <<ballotVars, gone, taking, net, said>>

\* The engine applies a reject packet, of a followed client or of another one:
\* t leaves c's player table.
PlayerRemoved(c, t) ==
    /\ t \notin gone[c]
    /\ \/ \E d \in Local : \E r \in rejects[d] : r.target = t
       \/ Client \ (Local \cup {t}) # {}
    /\ gone' = [gone EXCEPT ![c] = @ \cup {t}]
    /\ UNCHANGED <<ballotVars, silent, taking, net, said>>

-----------------------------------------------------------------------------
(* Tick, once per rendered frame *)

\* Faulty variant: the return of the target's traffic is not looked at.
CancelsSelfOnly(c, t, b) == b.mask = "timeout" /\ b.slot /\ t = c

\* A timeout ballot is dropped when it names c itself or its target is back.
\* While a take runs, the target's traffic is the take's own.
Cancels(c, t, b) ==
    /\ b.mask = "timeout" /\ b.slot
    /\ t = c \/ (b.resumed /\ ~b.takeInProgress)

\* Faulty variant: a take stops the clock.
ExpiresUnlessTaken(t, b, late) == t \in late /\ ~b.takeInProgress

\* t's ballot b has reached its expiryTime, late being the set of those that have.
Expires(t, b, late) == t \in late

\* Faulty variant: no once-per-second pass.
RechecksQueued(c, t, second) == t \in pending[c]

\* This Tick runs the threshold check on t: queued, or the once-per-second pass.
Rechecks(c, t, second) == second \/ t \in pending[c]

\* What one Tick does to c's ballot on t: queued checks run first, then the
\* cancellations, the deadlines, and the once-per-second pass over what is left.
Fate(c, t, late, second) ==
    LET b == votes[c][t]
        v == Verdict(c, t, b)
    IN  IF b = None THEN "none"
        ELSE IF t \in pending[c] /\ v \in {"carried", "failed"} THEN v
        ELSE IF Cancels(c, t, b) THEN "cancelled"
        ELSE IF Expires(t, b, late) THEN IF b.mask = "timeout" THEN "expired" ELSE "lapsed"
        ELSE IF Rechecks(c, t, second) THEN v ELSE "open"

Held(c) == {t \in Target : votes[c][t] # None}

Fates(c, late, second) == [t \in Target |-> Fate(c, t, late, second)]

\* The ballot that fate f leaves of ballot b.
Remains(b, f) ==
    IF f = "open" THEN b
    ELSE IF f = "closed" THEN [b EXCEPT !.votingClosed = TRUE] ELSE None

\* The rejects c sends for its ballots with these fates.
Sent(c, fate) ==
    {[target |-> t, mask |-> votes[c][t].mask, why |-> fate[t]] :
        t \in {u \in Target : fate[u] \in {"carried", "expired"}}}

Tick(c, late, lapsed, second) ==
    /\ InGame(c)
    /\ LET fate == Fates(c, late, second)
       IN  /\ votes' = [votes EXCEPT ![c] = [t \in Target |-> Remains(@[t], fate[t])]]
           /\ cooldown' = [cooldown EXCEPT ![c] =
                             @ \cup {t \in Target : fate[t] \in {"failed", "lapsed"}}]
           /\ rejects' = [rejects EXCEPT ![c] = @ \cup Sent(c, fate)]
           /\ window' = [window EXCEPT ![c] = (@ \ lapsed) \cup Opened(Sent(c, fate))]
    /\ pending' = [pending EXCEPT ![c] = {}]
    /\ UNCHANGED <<worldVars, net, said>>

\* A cooldown runs out: from here on every reader treats its entry as absent.
CooldownOver(c, t) ==
    /\ t \in cooldown[c]
    /\ cooldown' = [cooldown EXCEPT ![c] = @ \ {t}]
    /\ UNCHANGED <<votes, pending, window, rejects, worldVars, net, said>>

-----------------------------------------------------------------------------
(* Calls from TakeClaim *)

\* IsPendingRejection: t is about to be, or has just been, timed out at d.
IsPendingRejection(d, t) ==
    \/ t \in window[d] \cup silent[d]
    \/ /\ votes[d][t] # None
       /\ votes[d][t].mask = "timeout" /\ ~votes[d][t].votingClosed

\* An ally d of t starts a take, under MayTake if d is followed.
TakeStarts(d, t) ==
    /\ d \in Allies[t] \ {t} /\ t \notin taking
    /\ d \in Local => InGame(d) /\ t \notin gone[d] /\ IsPendingRejection(d, t)
    /\ taking' = taking \cup {t}
    /\ UNCHANGED <<ballotVars, silent, gone, net, said>>

\* An ally's '.take' of t was seen: hold the row open.
NoteTakeInProgress(c, t) ==
    /\ InGame(c) /\ t \in taking
    /\ votes[c][t] # None
    /\ ~votes[c][t].takeInProgress
    /\ votes' = [votes EXCEPT ![c][t].takeInProgress = TRUE]
    /\ UNCHANGED <<pending, cooldown, window, rejects, worldVars, net, said>>

\* The taker announced that the take is over: reject t, ballot or not.
ExecuteRejectAfterTake(c, t) ==
    /\ InGame(c) /\ t \in taking
    /\ votes' = [votes EXCEPT ![c][t] = None]
    /\ ExecuteReject(c, {[target |-> t, mask |-> "timeout", why |-> "taken"]})
    /\ UNCHANGED <<pending, cooldown, worldVars, net, said>>

-----------------------------------------------------------------------------
Init ==
    /\ votes    = [c \in Local |-> [t \in Target |-> None]]
    /\ pending  = [c \in Local |-> {}]
    /\ cooldown = [c \in Local |-> {}]
    /\ window   = [c \in Local |-> {}]
    /\ silent   = [c \in Local |-> {}]
    /\ gone     = [c \in Local |-> {}]
    /\ rejects  = [c \in Local |-> {}]
    /\ net      = [d \in Local |-> [c \in Local |-> <<>>]]
    /\ said     = {}
    /\ taking   = {}

Next ==
    \/ \E c \in Local, t \in Target :
          \/ ProposeManual(c, t) \/ ProposeDropout(c, t)
          \/ CastLocalYesVote(c, t) \/ CastLocalNoVote(c, t)
          \/ CooldownOver(c, t) \/ PlayerRemoved(c, t)
          \/ NoteTakeInProgress(c, t) \/ ExecuteRejectAfterTake(c, t)
    \/ \E d \in Client, t \in Target : TakeStarts(d, t)
    \/ \E c, d \in Local : Deliver(c, d) \/ Lose(d, c)
    \/ \E c \in Local, d \in Client :
          \/ PeerHeard(c, d) \/ PeerSilent(c, d)
          \/ \E m \in Message : PeerPacket(c, d, m)
    \/ \E c \in Local : \E late \in SUBSET Held(c), lapsed \in SUBSET window[c] :
          \E second \in BOOLEAN : Tick(c, late, lapsed, second)

Spec == Init /\ [][Next]_vars

\* The game renders for ever: every client's once-per-second pass runs, long
\* before the deadlines.
FairSpec == Spec /\ \A c \in Local : WF_vars(Tick(c, {}, {}, TRUE))

\* Time passes: a deadline, set once when the ballot opens, comes and stays.
DeadlinesPass == \A c \in Local : WF_vars(Tick(c, Held(c), {}, TRUE))

-----------------------------------------------------------------------------
(* Properties *)

\* Type invariant of the ballots, the queues and the packets in flight.
TypeOK ==
    /\ votes    \in [Local -> [Target -> Ballot \cup {None}]]
    /\ pending  \in [Local -> SUBSET Target]
    /\ cooldown \in [Local -> SUBSET Target]
    /\ window   \in [Local -> SUBSET Target]
    /\ silent   \in [Local -> SUBSET Client]
    /\ gone     \in [Local -> SUBSET Target]
    /\ rejects  \in [Local -> SUBSET Reject]
    /\ net      \in [Local -> [Local -> Seq(Message)]]
    /\ said     \in SUBSET (Client \X Target)
    /\ taking   \in SUBSET Target

\* A player who changed its mind counts on one side only, whatever the order in
\* which its YES and NO packets, clicks and duplicates were handled.
OneVoteEach ==
    \A c \in Local, t \in Target :
        votes[c][t] # None => votes[c][t].voters \cap votes[c][t].noVoters = {}

\* Nobody is counted as a YES without having clicked YES: neither a proposer of
\* a timeout ballot nor the sender of a duplicate, late or crossing packet.
NoPhantomYes ==
    \A c \in Local, t \in Target :
        votes[c][t] # None => \A p \in votes[c][t].voters : <<p, t>> \in said

\* A client never times itself out (the incident of game 175237): the only
\* timeout reject it sends for its own player is the one that follows a take.
NoSelfTimeoutReject ==
    \A c \in Local : \A r \in rejects[c] :
        r.target = c /\ r.mask = "timeout" => r.why = "taken"

\* No ballot is open on a target that is still cooling down.
CooldownExcludesBallot ==
    \A c \in Local : \A t \in cooldown[c] : votes[c][t] = None

NewRejects(c) == rejects'[c] \ rejects[c]

\* A ballot carries only on the clicks of enough distinct players: two thirds of
\* those who can vote for a manual reject, a proposer's seconder for a timeout.
QuorumOfClicks ==
    [][\A c \in Local : \A r \in NewRejects(c) :
          r.why = "carried" =>
             LET e == Cardinality(Eligible(c, r.target))
                 n == Cardinality({p \in Client : <<p, r.target>> \in said'})
             IN  n >= 1 /\ IF r.mask = "manual" THEN 3 * n >= 2 * e ELSE e >= 2 => n >= 2]_vars

\* A live ally of the target can stop any vote by not consenting; allies who
\* dropped out, however late, cannot.
LiveAllyMustConsent ==
    [][\A c \in Local : \A r \in NewRejects(c) :
          LET able == {p \in Allies[r.target] : CanCastVote(c, p)}
          IN  r.why = "carried" /\ r.target \notin gone[c] /\ able # {}
                 => \E p \in able : <<p, r.target>> \in said']_vars

\* The timer alone never rejects a player whose traffic resumed, unless that
\* traffic is put down to a take in progress.
ExpiryOnlyIfGone ==
    [][\A c \in Local : \A r \in NewRejects(c) :
          r.why = "expired" /\ r.target \notin gone[c]
             => \/ ~votes[c][r.target].resumed
                \/ votes[c][r.target].takeInProgress]_vars

Carriable(c, t) == votes[c][t] # None /\ InGame(c) /\ Verdict(c, t, votes[c][t]) = "carried"

\* A ballot that carries because voters fell silent, with no packet left to
\* trigger a check, is still executed (or stops carrying).
SilentCarry == \A c \in Local, t \in Target : Carriable(c, t) ~> ~Carriable(c, t)

\* No ballot is left open for ever, whatever votes, takes or silences happen.
EveryBallotEnds ==
    DeadlinesPass =>
        \A c \in Local, t \in Target :
            (votes[c][t] # None /\ InGame(c)) ~> (votes[c][t] = None \/ ~InGame(c))

\* The life of each ballot, as BallotLifecycle promises it.
Seat == Local \X Target

Phase(c, t) ==
    IF votes[c][t] = None THEN IF t \in cooldown[c] THEN "cooling" ELSE "idle"
    ELSE IF votes[c][t].votingClosed THEN "closed" ELSE votes[c][t].mask

Lifecycle == INSTANCE BallotLifecycle WITH
    phase <- [s \in Seat |-> Phase(s[1], s[2])],
    sent  <- [s \in Seat |-> {r.mask : r \in {x \in rejects[s[1]] : x.target = s[2]}}]

\* Every client's ballots live the life BallotLifecycle allows: a manual ballot
\* never vanishes without a reject or a cooldown, nothing opens during a
\* cooldown, and each reject is of the kind that was voted on.
ImplementsLifecycle == Lifecycle!Spec

-----------------------------------------------------------------------------
(* What the documentation says of the code, and the code does not do *)

\* VoteReject.cpp:414 - "proposer's YES is implicit in the proposal": once all of
\* d's packets have arrived, a client that holds the ballot counts d's YES.
ProposalCarriesYes ==
    \A c, d \in Local, t \in Target :
        /\ votes[c][t] # None /\ votes[d][t] # None
        /\ d \in votes[d][t].voters
        /\ net[d][c] = <<>>
        => d \in votes[c][t].voters

\* VoteReject.cpp:644 - a ballot fails when "the YES threshold can never be
\* reached": even with a YES of everyone able to vote who has not voted NO.
FailsOnlyIfHopeless ==
    \A c \in Local, t \in Target :
        votes[c][t] # None /\ Verdict(c, t, votes[c][t]) \in {"failed", "closed"} =>
            LET b    == votes[c][t]
                able == Eligible(c, t)
            IN  Cardinality(b.voters \cup (able \ b.noVoters))
                    < VotesNeeded(b.mask, Cardinality(able))

\* TakeClaim.cpp:870 - during a take the row is held open "until the taker's
\* Complete arrives": no other reject of the target is sent meanwhile.
HeldForTheTaker ==
    [][\A c \in Local : \A r \in NewRejects(c) :
          votes[c][r.target] # None /\ votes[c][r.target].takeInProgress => r.why = "taken"]_vars
=============================================================================
