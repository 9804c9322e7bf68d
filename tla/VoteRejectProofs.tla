-------------------------- MODULE VoteRejectProofs --------------------------
(***************************************************************************)
(* Proofs about the reject ballots, for any set of clients, targets and    *)
(* alliances.                                                              *)
(***************************************************************************)
EXTENDS VoteReject, SequenceTheorems, FiniteSetTheorems, TLAPS

-----------------------------------------------------------------------------
(* The operators ballots are built with *)

LEMMA VerdictValues ==
    ASSUME NEW c, NEW t, NEW b \in Ballot
    PROVE  /\ Verdict(c, t, b) \in {"carried", "failed", "open", "closed"}
           /\ Verdict(c, t, b) = "failed" => b.mask = "manual"
           /\ Verdict(c, t, b) = "closed" => b.mask = "timeout"
  BY DEF Verdict, Ballot, Mask

LEMMA NewBallotType ==
    ASSUME NEW c, NEW t, NEW mask \in Mask, NEW from \in Client
    PROVE  NewBallot(c, t, mask, from) \in Ballot
  BY DEF NewBallot, Ballot, Mask

LEMMA VoteTypes ==
    ASSUME NEW b \in Ballot, NEW p \in Client
    PROVE  WithYes(b, p) \in Ballot /\ WithNo(b, p) \in Ballot
  BY DEF WithYes, WithNo, Ballot

\* A new or changed ballot keeps each player on one side.
LEMMA OneSide ==
    ASSUME NEW b \in Ballot, NEW p \in Client, b.voters \cap b.noVoters = {}
    PROVE  /\ WithYes(b, p).voters \cap WithYes(b, p).noVoters = {}
           /\ WithNo(b, p).voters \cap WithNo(b, p).noVoters = {}
  BY DEF WithYes, WithNo, Ballot

LEMMA TouchedBallots ==
    ASSUME TypeOK, NEW c \in Local, NEW d
    PROVE  Touched(c, d) \in [Target -> Ballot \cup {None}]
  <1>1. ASSUME NEW b \in Ballot
        PROVE  [b EXCEPT !.resumed = TRUE] \in Ballot
    BY DEF Ballot
  <1>2. ASSUME NEW t \in Target
        PROVE  votes[c][t] \in Ballot \cup {None}
    BY DEF TypeOK
  <1> QED BY <1>1, <1>2 DEF Touched

LEMMA ReceivedType ==
    ASSUME NEW c, NEW d \in Client, NEW m \in Message, NEW b \in Ballot \cup {None}
    PROVE  Received(c, d, m, b) \in Ballot \cup {None}
  BY NewBallotType, VoteTypes DEF Received, Message, Mask

-----------------------------------------------------------------------------
(* Type correctness *)

LEMMA OpenedType ==
    ASSUME NEW R \in SUBSET Reject
    PROVE  Opened(R) \subseteq Target
  BY DEF Opened, Reject

LEMMA CheckType ==
    ASSUME TypeOK, NEW c \in Local, NEW t \in Target, NEW b \in Ballot,
           CheckAndExecuteReject(c, t, b)
    PROVE  /\ votes'    \in [Local -> [Target -> Ballot \cup {None}]]
           /\ pending'  \in [Local -> SUBSET Target]
           /\ cooldown' \in [Local -> SUBSET Target]
           /\ window'   \in [Local -> SUBSET Target]
           /\ rejects'  \in [Local -> SUBSET Reject]
  <1>1. votes' \in [Local -> [Target -> Ballot \cup {None}]]
    BY DEF CheckAndExecuteReject, TypeOK, Ballot
  <1>2. pending' \in [Local -> SUBSET Target] /\ cooldown' \in [Local -> SUBSET Target]
    BY DEF CheckAndExecuteReject, TypeOK
  <1>3. \E R \in SUBSET Reject : ExecuteReject(c, R)
    <2>1. IfCarried(Verdict(c, t, b), t, b) \in SUBSET Reject
      BY DEF IfCarried, Reject, Why, Ballot
    <2>2. ExecuteReject(c, IfCarried(Verdict(c, t, b), t, b))
      BY DEF CheckAndExecuteReject
    <2> QED BY <2>1, <2>2
  <1>4. rejects' \in [Local -> SUBSET Reject] /\ window' \in [Local -> SUBSET Target]
    <2>1. PICK R \in SUBSET Reject : ExecuteReject(c, R)
      BY <1>3
    <2>2. Opened(R) \subseteq Target
      BY OpenedType
    <2> QED BY <2>1, <2>2 DEF ExecuteReject, TypeOK
  <1> QED BY <1>1, <1>2, <1>4

LEMMA BroadcastType ==
    ASSUME TypeOK, NEW c \in Local, NEW m \in Message, Broadcast(c, m)
    PROVE  net' \in [Local -> [Local -> Seq(Message)]]
  BY DEF Broadcast, TypeOK

LEMMA TailType ==
    ASSUME TypeOK, NEW c \in Local, NEW d \in Local, net[d][c] # <<>>
    PROVE  /\ Head(net[d][c]) \in Message
           /\ Tail(net[d][c]) \in Seq(Message)
  BY HeadTailProperties DEF TypeOK

LEMMA OnReceiveType ==
    ASSUME TypeOK, NEW c \in Local, NEW d \in Client, NEW m \in Message, OnReceive(c, d, m)
    PROVE  /\ votes'   \in [Local -> [Target -> Ballot \cup {None}]]
           /\ pending' \in [Local -> SUBSET Target]
           /\ silent'  \in [Local -> SUBSET Client]
           /\ UNCHANGED <<cooldown, window, rejects, gone, taking>>
  <1> DEFINE b  == Touched(c, d)[m.target]
             b2 == IF InGame(c) THEN Received(c, d, m, b) ELSE b
  <1>1. m.target \in Target
    BY DEF Message
  <1>2. b \in Ballot \cup {None} /\ b2 \in Ballot \cup {None}
    BY <1>1, TouchedBallots, ReceivedType
  <1>3. votes' \in [Local -> [Target -> Ballot \cup {None}]]
    BY <1>1, <1>2, TouchedBallots DEF OnReceive, TypeOK
  <1>4. pending' \in [Local -> SUBSET Target]
    BY <1>1 DEF OnReceive, Queued, TypeOK
  <1> QED BY <1>3, <1>4 DEF OnReceive, Heard, TypeOK

LEMMA MsgType ==
    ASSUME NEW t \in Target, NEW mask \in Mask,
           NEW command \in {"ProposeVote", "CastVote", "CastNoVote"}
    PROVE  Msg(command, t, mask) \in Message
  BY DEF Msg, Message

LEMMA SentType ==
    ASSUME TypeOK, NEW c \in Local, NEW late, NEW second
    PROVE  Sent(c, Fates(c, late, second)) \subseteq Reject
  <1>1. ASSUME NEW t \in Target, Fate(c, t, late, second) \in {"carried", "expired"}
        PROVE  votes[c][t] \in Ballot
    BY <1>1 DEF Fate, TypeOK
  <1>2. ASSUME NEW t \in Target, NEW f \in {"carried", "expired"}, votes[c][t] \in Ballot
        PROVE  [target |-> t, mask |-> votes[c][t].mask, why |-> f] \in Reject
    BY <1>2 DEF Reject, Why, Ballot
  <1> QED BY <1>1, <1>2 DEF Sent, Fates

LEMMA RemainsType ==
    ASSUME TypeOK, NEW c \in Local, NEW t \in Target, NEW late, NEW second
    PROVE  Remains(votes[c][t], Fate(c, t, late, second)) \in Ballot \cup {None}
  <1>1. votes[c][t] \in Ballot \cup {None}
    BY DEF TypeOK
  <1>2. CASE votes[c][t] = None
    BY <1>2 DEF Fate, Remains
  <1>3. CASE votes[c][t] \in Ballot
    BY <1>3 DEF Remains, Ballot
  <1> QED BY <1>1, <1>2, <1>3

LEMMA TickType ==
    ASSUME TypeOK, NEW c \in Local, NEW late, NEW lapsed, NEW second \in BOOLEAN,
           Tick(c, late, lapsed, second)
    PROVE  TypeOK'
  <1> DEFINE fate == Fates(c, late, second)
  <1>1. votes' \in [Local -> [Target -> Ballot \cup {None}]]
    BY RemainsType DEF Tick, TypeOK, Fates
  <1>2. cooldown' \in [Local -> SUBSET Target]
    BY DEF Tick, TypeOK
  <1>3. rejects' \in [Local -> SUBSET Reject]
    BY SentType DEF Tick, TypeOK
  <1>4. window' \in [Local -> SUBSET Target]
    <2>1. Opened(Sent(c, fate)) \subseteq Target
      BY SentType, OpenedType
    <2> QED BY <2>1 DEF Tick, TypeOK
  <1>5. pending' \in [Local -> SUBSET Target]
    BY DEF Tick, TypeOK
  <1> QED BY <1>1, <1>2, <1>3, <1>4, <1>5 DEF Tick, TypeOK, worldVars

LEMMA TypeInvariantInit == Init => TypeOK
  BY EmptySeq DEF Init, TypeOK

LEMMA TypeInvariantStep == TypeOK /\ [Next]_vars => TypeOK'
  <1> SUFFICES ASSUME TypeOK, [Next]_vars PROVE TypeOK'
    OBVIOUS
  <1> USE ClientAssumption, TargetAssumption
  <1>1. ASSUME NEW c \in Local, NEW t \in Target, ProposeManual(c, t)
        PROVE  TypeOK'
    <2>1. NewBallot(c, t, "manual", c) \in Ballot
      BY NewBallotType DEF Mask
    <2>2. net' \in [Local -> [Local -> Seq(Message)]]
      BY <1>1, BroadcastType, MsgType DEF ProposeManual, ProposeReject, Mask
    <2> QED BY <1>1, <2>1, <2>2, CheckType
          DEF ProposeManual, ProposeReject, TypeOK, worldVars
  <1>2. ASSUME NEW c \in Local, NEW t \in Target, ProposeDropout(c, t)
        PROVE  TypeOK'
    <2>1. NewBallot(c, t, "timeout", c) \in Ballot
      BY NewBallotType DEF Mask
    <2>2. net' \in [Local -> [Local -> Seq(Message)]]
      BY <1>2, BroadcastType, MsgType DEF ProposeDropout, ProposeReject, Mask
    <2> QED BY <1>2, <2>1, <2>2, CheckType
          DEF ProposeDropout, ProposeReject, TypeOK, worldVars
  <1>3. ASSUME NEW c \in Local, NEW t \in Target, CastLocalYesVote(c, t)
        PROVE  TypeOK'
    <2>1. votes[c][t] \in Ballot /\ votes[c][t].mask \in Mask
      BY <1>3 DEF CastLocalYesVote, TypeOK, Ballot
    <2>2. WithYes(votes[c][t], c) \in Ballot
      BY <2>1, VoteTypes
    <2>3. net' \in [Local -> [Local -> Seq(Message)]]
      BY <1>3, <2>1, BroadcastType, MsgType DEF CastLocalYesVote
    <2> QED BY <1>3, <2>2, <2>3, CheckType DEF CastLocalYesVote, TypeOK, worldVars
  <1>4. ASSUME NEW c \in Local, NEW t \in Target, CastLocalNoVote(c, t)
        PROVE  TypeOK'
    <2>1. votes[c][t] \in Ballot /\ votes[c][t].mask \in Mask
      BY <1>4 DEF CastLocalNoVote, TypeOK, Ballot
    <2>2. WithNo(votes[c][t], c) \in Ballot
      BY <2>1, VoteTypes
    <2>3. net' \in [Local -> [Local -> Seq(Message)]]
      BY <1>4, <2>1, BroadcastType, MsgType DEF CastLocalNoVote
    <2> QED BY <1>4, <2>2, <2>3, CheckType DEF CastLocalNoVote, TypeOK, worldVars
  <1>5. ASSUME NEW c \in Local, NEW d \in Local, Deliver(c, d)
        PROVE  TypeOK'
    <2>1. /\ Head(net[d][c]) \in Message
          /\ Tail(net[d][c]) \in Seq(Message)
      BY <1>5, TailType DEF Deliver
    <2> QED BY <1>5, <2>1, OnReceiveType DEF Deliver, TypeOK
  <1>6. ASSUME NEW c \in Local, NEW d \in Client, NEW m \in Message, PeerPacket(c, d, m)
        PROVE  TypeOK'
    <2>1. <<d, m.target>> \in Client \X Target
      BY DEF Message
    <2> QED BY <1>6, <2>1, OnReceiveType DEF PeerPacket, TypeOK
  <1>7. ASSUME NEW c \in Local, NEW d \in Local, Lose(d, c)
        PROVE  TypeOK'
    BY <1>7, TailType DEF Lose, TypeOK, ballotVars, worldVars
  <1>8. ASSUME NEW c \in Local, NEW d \in Client, PeerHeard(c, d)
        PROVE  TypeOK'
    BY <1>8, TouchedBallots DEF PeerHeard, Heard, TypeOK
  <1>9. ASSUME NEW c \in Local, NEW d \in Client, PeerSilent(c, d)
        PROVE  TypeOK'
    BY <1>9 DEF PeerSilent, TypeOK, ballotVars
  <1>10. ASSUME NEW c \in Local, NEW t \in Target, PlayerRemoved(c, t)
         PROVE  TypeOK'
    BY <1>10 DEF PlayerRemoved, TypeOK, ballotVars
  <1>11. ASSUME NEW c \in Local, NEW late, NEW lapsed, NEW second \in BOOLEAN,
                Tick(c, late, lapsed, second)
         PROVE  TypeOK'
    BY <1>11, TickType
  <1>12. ASSUME NEW c \in Local, NEW t \in Target, CooldownOver(c, t)
         PROVE  TypeOK'
    BY <1>12 DEF CooldownOver, TypeOK, worldVars
  <1>13. ASSUME NEW d \in Client, NEW t \in Target, TakeStarts(d, t)
         PROVE  TypeOK'
    BY <1>13 DEF TakeStarts, TypeOK, ballotVars
  <1>14. ASSUME NEW c \in Local, NEW t \in Target, NoteTakeInProgress(c, t)
         PROVE  TypeOK'
    <2>1. votes[c][t] \in Ballot
      BY <1>14 DEF NoteTakeInProgress, TypeOK
    <2>2. [votes[c][t] EXCEPT !.takeInProgress = TRUE] \in Ballot
      BY <2>1 DEF Ballot
    <2> QED BY <1>14, <2>2 DEF NoteTakeInProgress, TypeOK, worldVars
  <1>15. ASSUME NEW c \in Local, NEW t \in Target, ExecuteRejectAfterTake(c, t)
         PROVE  TypeOK'
    <2>1. [target |-> t, mask |-> "timeout", why |-> "taken"] \in Reject
      BY DEF Reject, Mask, Why
    <2> QED BY <1>15, <2>1, OpenedType
          DEF ExecuteRejectAfterTake, ExecuteReject, TypeOK, worldVars
  <1>16. CASE UNCHANGED vars
    BY <1>16 DEF TypeOK, vars, ballotVars, worldVars
  <1> QED BY <1>1, <1>2, <1>3, <1>4, <1>5, <1>6, <1>7, <1>8, <1>9, <1>10, <1>11,
             <1>12, <1>13, <1>14, <1>15, <1>16 DEF Next

\* Ballots, queues and packets keep their types, whatever the game.
THEOREM TypeInvariant == Spec => []TypeOK
  BY TypeInvariantInit, TypeInvariantStep, PTL DEF Spec

-----------------------------------------------------------------------------
(* How one step may change one ballot *)

SameVotes(b, b2) ==
    b2.mask = b.mask /\ b2.slot = b.slot /\ b2.voters = b.voters /\ b2.noVoters = b.noVoters

OpensBallot(c, t, b2) ==
    /\ votes[c][t] = None /\ t \notin cooldown[c]
    /\ b2.mask = "timeout" => t # c
    /\ \E from \in Client : /\ SameVotes(NewBallot(c, t, b2.mask, from), b2)
                            /\ b2.mask = "manual" => <<from, t>> \in said'

GainsYes(c, t, b2) ==
    votes[c][t] # None /\ \E p \in Client : /\ SameVotes(WithYes(votes[c][t], p), b2)
                                            /\ <<p, t>> \in said'

GainsNo(c, t, b2) ==
    votes[c][t] # None /\ \E p \in Client : SameVotes(WithNo(votes[c][t], p), b2)

KeepsVotes(c, t, b2) == votes[c][t] # None /\ SameVotes(votes[c][t], b2)

BallotMove(c, t, b2) ==
    OpensBallot(c, t, b2) \/ GainsYes(c, t, b2) \/ GainsNo(c, t, b2) \/ KeepsVotes(c, t, b2)

\* Every YES packet in flight was preceded by its sender's click.
InFlightSaid ==
    \A c, d \in Local : \A i \in 1..Len(net[d][c]) :
        CarriesYes(net[d][c][i]) => <<d, net[d][c][i].target>> \in said

LEMMA CheckLeaves ==
    ASSUME TypeOK, NEW c \in Local, NEW t \in Target, NEW b \in Ballot,
           CheckAndExecuteReject(c, t, b),
           NEW c2 \in Local, NEW t2 \in Target, votes'[c2][t2] # None
    PROVE  IF c2 = c /\ t2 = t THEN SameVotes(b, votes'[c][t])
           ELSE votes'[c2][t2] = votes[c2][t2]
  <1>1. SameVotes(b, [b EXCEPT !.votingClosed = TRUE]) /\ SameVotes(b, b)
    BY DEF SameVotes, Ballot
  <1> QED BY <1>1 DEF CheckAndExecuteReject, TypeOK

LEMMA StayingBallot ==
    ASSUME NEW c \in Local, NEW t \in Target, votes'[c][t] = votes[c][t], votes'[c][t] # None
    PROVE  BallotMove(c, t, votes'[c][t])
  BY DEF BallotMove, KeepsVotes, SameVotes

LEMMA TouchedKeeps ==
    ASSUME TypeOK, NEW c \in Local, NEW d, NEW t \in Target
    PROVE  /\ votes[c][t] = None => Touched(c, d)[t] = None
           /\ votes[c][t] # None => /\ Touched(c, d)[t] \in Ballot
                                    /\ SameVotes(votes[c][t], Touched(c, d)[t])
  <1>1. ASSUME NEW b \in Ballot
        PROVE  /\ [b EXCEPT !.resumed = TRUE] \in Ballot
               /\ SameVotes(b, [b EXCEPT !.resumed = TRUE]) /\ SameVotes(b, b)
    BY DEF Ballot, SameVotes
  <1>2. votes[c][t] \in Ballot \cup {None}
    BY DEF TypeOK
  <1> QED BY <1>1, <1>2, NoneAssumption DEF Touched

LEMMA SameVotesOps ==
    ASSUME NEW b \in Ballot, NEW b1 \in Ballot, SameVotes(b, b1), NEW p \in Client
    PROVE  SameVotes(WithYes(b, p), WithYes(b1, p)) /\ SameVotes(WithNo(b, p), WithNo(b1, p))
  BY DEF SameVotes, WithYes, WithNo, Ballot

LEMMA OnReceiveMove ==
    ASSUME TypeOK, NEW c \in Local, NEW d \in Client, NEW m \in Message,
           OnReceive(c, d, m), CarriesYes(m) => <<d, m.target>> \in said',
           NEW c2 \in Local, NEW t \in Target, votes'[c2][t] # None
    PROVE  BallotMove(c2, t, votes'[c2][t])
  <1> DEFINE b1 == Touched(c, d)[m.target]
             b2 == IF InGame(c) THEN Received(c, d, m, b1) ELSE b1
  <1>0. m.target \in Target /\ m.mask \in Mask
    BY DEF Message
  <1>1. CASE c2 # c
    <2>1. votes'[c2] = votes[c2]
      BY <1>1 DEF OnReceive, TypeOK
    <2> QED BY <2>1, StayingBallot
  <1>2. CASE c2 = c /\ t # m.target
    <2>1. votes'[c][t] = Touched(c, d)[t]
      BY <1>0, <1>2, TouchedBallots DEF OnReceive, TypeOK
    <2>2. votes[c][t] # None /\ SameVotes(votes[c][t], Touched(c, d)[t])
      BY <2>1, <1>2, TouchedKeeps
    <2> QED BY <1>2, <2>1, <2>2 DEF BallotMove, KeepsVotes
  <1>3. CASE c2 = c /\ t = m.target
    <2>1. votes'[c][t] = b2
      BY <1>0, <1>3, TouchedBallots DEF OnReceive, TypeOK
    <2>2. CASE b2 = b1
      <3>1. votes[c][t] # None /\ SameVotes(votes[c][t], b1)
        BY <2>1, <2>2, <1>3, TouchedKeeps
      <3> QED BY <1>3, <2>1, <2>2, <3>1 DEF BallotMove, KeepsVotes
    <2>3. CASE b2 # b1 /\ m.command = "ProposeVote"
      <3>1. MayOpen(c, m, b1) /\ b2 = NewBallot(c, t, m.mask, d)
        BY <1>3, <2>3 DEF Received
      <3>2. votes[c][t] = None
        BY <3>1, <1>3, TouchedKeeps, NoneAssumption DEF MayOpen
      <3>3. t \notin cooldown[c] /\ (m.mask = "timeout" => t # c)
        BY <3>1, <1>3 DEF MayOpen
      <3>4. b2.mask = m.mask
        BY <3>1 DEF NewBallot
      <3>5. m.mask = "manual" => <<d, t>> \in said'
        BY <2>3, <1>3 DEF CarriesYes
      <3>6. SameVotes(NewBallot(c, t, b2.mask, d), b2)
        BY <3>1, <3>4 DEF SameVotes
      <3> QED BY <1>3, <2>1, <3>2, <3>3, <3>4, <3>5, <3>6 DEF BallotMove, OpensBallot
    <2>4. CASE b2 # b1 /\ m.command # "ProposeVote"
      <3>1. b1 # None
        BY <2>4 DEF Received
      <3>2. votes[c][t] \in Ballot /\ b1 \in Ballot /\ SameVotes(votes[c][t], b1)
        BY <3>1, <1>3, TouchedKeeps DEF TypeOK
      <3>3. votes[c][t] # None
        BY <3>2, NoneAssumption
      <3>4. CASE m.command = "CastVote"
        <4>1. b2 = WithYes(b1, d)
          BY <2>4, <3>1, <3>4 DEF Received
        <4>2. SameVotes(WithYes(votes[c][t], d), b2)
          BY <4>1, <3>2, SameVotesOps
        <4>3. <<d, t>> \in said'
          BY <3>4, <1>3 DEF CarriesYes
        <4> QED BY <1>3, <2>1, <3>3, <4>2, <4>3 DEF BallotMove, GainsYes
      <3>5. CASE m.command # "CastVote"
        <4>1. b2 = WithNo(b1, d)
          BY <2>4, <3>1, <3>5 DEF Received
        <4>2. SameVotes(WithNo(votes[c][t], d), b2)
          BY <4>1, <3>2, SameVotesOps
        <4> QED BY <1>3, <2>1, <3>3, <4>2 DEF BallotMove, GainsNo
      <3> QED BY <3>4, <3>5
    <2> QED BY <2>2, <2>3, <2>4
  <1> QED BY <1>1, <1>2, <1>3

LEMMA TickKeeps ==
    ASSUME TypeOK, NEW c \in Local, NEW late, NEW lapsed, NEW second \in BOOLEAN,
           Tick(c, late, lapsed, second),
           NEW c2 \in Local, NEW t \in Target, votes'[c2][t] # None
    PROVE  KeepsVotes(c2, t, votes'[c2][t])
  <1> DEFINE f == Fate(c, t, late, second)
  <1>1. CASE c2 # c
    BY <1>1 DEF Tick, TypeOK, KeepsVotes, SameVotes
  <1>2. CASE c2 = c
    <2>1. votes'[c][t] = Remains(votes[c][t], f)
      BY DEF Tick, Fates, TypeOK
    <2>2. f \in {"open", "closed"}
      BY <1>2, <2>1 DEF Remains
    <2>3. votes[c][t] # None /\ votes[c][t] \in Ballot
      BY <2>2 DEF Fate, TypeOK
    <2>4. SameVotes(votes[c][t], Remains(votes[c][t], f))
      BY <2>2, <2>3 DEF Remains, SameVotes, Ballot
    <2> QED BY <1>2, <2>1, <2>3, <2>4 DEF KeepsVotes
  <1> QED BY <1>1, <1>2

LEMMA ProposeMove ==
    ASSUME TypeOK, NEW c \in Local, NEW t \in Target, NEW mask \in Mask, c # t,
           ProposeReject(c, t, mask), mask = "manual" => <<c, t>> \in said',
           NEW c2 \in Local, NEW t2 \in Target, votes'[c2][t2] # None
    PROVE  BallotMove(c2, t2, votes'[c2][t2])
  <1> DEFINE b == NewBallot(c, t, mask, c)
  <1>1. b \in Ballot /\ b.mask = mask
    BY NewBallotType, ClientAssumption DEF NewBallot
  <1>2. CASE c2 = c /\ t2 = t
    <2>1. SameVotes(b, votes'[c][t])
      BY <1>1, <1>2, CheckLeaves DEF ProposeReject
    <2>2. votes'[c][t].mask = mask
      BY <1>1, <2>1 DEF SameVotes
    <2>3. OpensBallot(c, t, votes'[c][t])
      BY <2>1, <2>2, ClientAssumption DEF OpensBallot, ProposeReject
    <2> QED BY <1>2, <2>3 DEF BallotMove
  <1>3. CASE ~(c2 = c /\ t2 = t)
    BY <1>1, <1>3, CheckLeaves, StayingBallot DEF ProposeReject
  <1> QED BY <1>2, <1>3

\* Every step does one of these four things to each ballot it leaves open.
LEMMA StepMove ==
    ASSUME TypeOK, InFlightSaid, [Next]_vars,
           NEW c2 \in Local, NEW t2 \in Target, votes'[c2][t2] # None
    PROVE  BallotMove(c2, t2, votes'[c2][t2])
  <1> USE ClientAssumption
  <1>1. ASSUME NEW c \in Local, NEW t \in Target, ProposeManual(c, t)
        PROVE  BallotMove(c2, t2, votes'[c2][t2])
    BY <1>1, ProposeMove DEF ProposeManual, Mask
  <1>2. ASSUME NEW c \in Local, NEW t \in Target, ProposeDropout(c, t)
        PROVE  BallotMove(c2, t2, votes'[c2][t2])
    BY <1>2, ProposeMove DEF ProposeDropout, Mask
  <1>3. ASSUME NEW c \in Local, NEW t \in Target, CastLocalYesVote(c, t)
        PROVE  BallotMove(c2, t2, votes'[c2][t2])
    <2>1. votes[c][t] \in Ballot
      BY <1>3 DEF CastLocalYesVote, TypeOK
    <2>2. WithYes(votes[c][t], c) \in Ballot
      BY <2>1, VoteTypes
    <2>3. CASE c2 = c /\ t2 = t
      <3>1. SameVotes(WithYes(votes[c][t], c), votes'[c][t])
        BY <1>3, <2>2, <2>3, CheckLeaves DEF CastLocalYesVote
      <3> QED BY <1>3, <2>3, <3>1 DEF CastLocalYesVote, BallotMove, GainsYes
    <2>4. CASE ~(c2 = c /\ t2 = t)
      BY <1>3, <2>2, <2>4, CheckLeaves, StayingBallot DEF CastLocalYesVote
    <2> QED BY <2>3, <2>4
  <1>4. ASSUME NEW c \in Local, NEW t \in Target, CastLocalNoVote(c, t)
        PROVE  BallotMove(c2, t2, votes'[c2][t2])
    <2>1. votes[c][t] \in Ballot
      BY <1>4 DEF CastLocalNoVote, TypeOK
    <2>2. WithNo(votes[c][t], c) \in Ballot
      BY <2>1, VoteTypes
    <2>3. CASE c2 = c /\ t2 = t
      <3>1. SameVotes(WithNo(votes[c][t], c), votes'[c][t])
        BY <1>4, <2>2, <2>3, CheckLeaves DEF CastLocalNoVote
      <3> QED BY <1>4, <2>3, <3>1 DEF CastLocalNoVote, BallotMove, GainsNo
    <2>4. CASE ~(c2 = c /\ t2 = t)
      BY <1>4, <2>2, <2>4, CheckLeaves, StayingBallot DEF CastLocalNoVote
    <2> QED BY <2>3, <2>4
  <1>5. ASSUME NEW c \in Local, NEW d \in Local, Deliver(c, d)
        PROVE  BallotMove(c2, t2, votes'[c2][t2])
    <2> DEFINE m == Head(net[d][c])
    <2>1. m \in Message
      BY <1>5, TailType DEF Deliver
    <2>2. CarriesYes(m) => <<d, m.target>> \in said
      <3>1. net[d][c] \in Seq(Message) /\ net[d][c] # <<>>
        BY <1>5 DEF Deliver, TypeOK
      <3>2. m = net[d][c][1] /\ 1 \in 1..Len(net[d][c])
        BY <3>1, HeadTailProperties
      <3> QED BY <3>2 DEF InFlightSaid
    <2>3. OnReceive(c, d, m) /\ said' = said
      BY <1>5 DEF Deliver
    <2> QED BY <2>1, <2>2, <2>3, OnReceiveMove
  <1>6. ASSUME NEW c \in Local, NEW d \in Client, NEW m \in Message, PeerPacket(c, d, m)
        PROVE  BallotMove(c2, t2, votes'[c2][t2])
    <2>1. CarriesYes(m) => <<d, m.target>> \in said'
      BY <1>6 DEF PeerPacket
    <2> QED BY <1>6, <2>1, OnReceiveMove DEF PeerPacket
  <1>7. ASSUME NEW c \in Local, NEW d \in Client, PeerHeard(c, d)
        PROVE  BallotMove(c2, t2, votes'[c2][t2])
    <2>1. CASE c2 = c
      <3>1. votes'[c][t2] = Touched(c, d)[t2]
        BY <1>7, TouchedBallots DEF PeerHeard, TypeOK
      <3> QED BY <2>1, <3>1, TouchedKeeps DEF BallotMove, KeepsVotes
    <2>2. CASE c2 # c
      BY <1>7, <2>2, StayingBallot DEF PeerHeard, TypeOK
    <2> QED BY <2>1, <2>2
  <1>8. ASSUME NEW c \in Local, NEW late, NEW lapsed, NEW second \in BOOLEAN,
               Tick(c, late, lapsed, second)
        PROVE  BallotMove(c2, t2, votes'[c2][t2])
    BY <1>8, TickKeeps DEF BallotMove
  <1>9. ASSUME NEW c \in Local, NEW t \in Target, NoteTakeInProgress(c, t)
        PROVE  BallotMove(c2, t2, votes'[c2][t2])
    <2>1. votes[c][t] \in Ballot /\ votes[c][t] # None
      BY <1>9 DEF NoteTakeInProgress, TypeOK
    <2>2. SameVotes(votes[c][t], [votes[c][t] EXCEPT !.takeInProgress = TRUE])
      BY <2>1 DEF SameVotes, Ballot
    <2>3. CASE c2 = c /\ t2 = t
      BY <1>9, <2>1, <2>2, <2>3 DEF NoteTakeInProgress, TypeOK, BallotMove, KeepsVotes
    <2>4. CASE ~(c2 = c /\ t2 = t)
      BY <1>9, <2>4, StayingBallot DEF NoteTakeInProgress, TypeOK
    <2> QED BY <2>3, <2>4
  <1>10. ASSUME NEW c \in Local, NEW t \in Target, ExecuteRejectAfterTake(c, t)
         PROVE  BallotMove(c2, t2, votes'[c2][t2])
    BY <1>10, StayingBallot DEF ExecuteRejectAfterTake, TypeOK
  <1>11. CASE votes' = votes
    BY <1>11, StayingBallot
  <1> QED
    BY <1>1, <1>2, <1>3, <1>4, <1>5, <1>6, <1>7, <1>8, <1>9, <1>10, <1>11
    DEF Next, vars, ballotVars, Lose, PeerSilent, PlayerRemoved, CooldownOver, TakeStarts

-----------------------------------------------------------------------------
(* The history of clicks *)

LEMMA SaidGrows ==
    ASSUME [Next]_vars
    PROVE  said \subseteq said'
<1>1. ASSUME NEW c \in Local, NEW t \in Target,
             ProposeManual(c, t) \/ CastLocalYesVote(c, t)
      PROVE  said \subseteq said'
  BY <1>1 DEF ProposeManual, CastLocalYesVote
<1>2. ASSUME NEW c \in Local, NEW t \in Target,
             \/ ProposeDropout(c, t) \/ CastLocalNoVote(c, t) \/ CooldownOver(c, t)
             \/ PlayerRemoved(c, t) \/ NoteTakeInProgress(c, t) \/ ExecuteRejectAfterTake(c, t)
      PROVE  UNCHANGED said
  <2>1. CASE ProposeDropout(c, t)
    BY <2>1 DEF ProposeDropout
  <2>2. CASE CastLocalNoVote(c, t)
    BY <2>2 DEF CastLocalNoVote
  <2>3. CASE CooldownOver(c, t)
    BY <2>3 DEF CooldownOver
  <2>4. CASE PlayerRemoved(c, t)
    BY <2>4 DEF PlayerRemoved
  <2>5. CASE NoteTakeInProgress(c, t)
    BY <2>5 DEF NoteTakeInProgress
  <2>6. CASE ExecuteRejectAfterTake(c, t)
    BY <2>6 DEF ExecuteRejectAfterTake
  <2> QED
    BY <1>2, <2>1, <2>2, <2>3, <2>4, <2>5, <2>6
<1>3. ASSUME NEW d \in Client, NEW t \in Target, TakeStarts(d, t) PROVE UNCHANGED said
  BY <1>3 DEF TakeStarts
<1>4. ASSUME NEW c \in Local, NEW d \in Local, Deliver(c, d) \/ Lose(d, c)
      PROVE  UNCHANGED said
  BY <1>4 DEF Deliver, Lose
<1>5. ASSUME NEW c \in Local, NEW d \in Client, PeerHeard(c, d) \/ PeerSilent(c, d)
      PROVE  UNCHANGED said
  BY <1>5 DEF PeerHeard, PeerSilent
<1>6. ASSUME NEW c \in Local, NEW d \in Client, NEW m \in Message, PeerPacket(c, d, m)
      PROVE  said \subseteq said'
  BY <1>6 DEF PeerPacket
<1>7. ASSUME NEW c \in Local, NEW late \in SUBSET Held(c), NEW lapsed \in SUBSET window[c],
             NEW second \in BOOLEAN, Tick(c, late, lapsed, second)
      PROVE  UNCHANGED said
  BY <1>7 DEF Tick
<1>8. CASE UNCHANGED vars
  BY <1>8 DEF vars
<1> QED
  BY <1>1, <1>2, <1>3, <1>4, <1>5, <1>6, <1>7, <1>8 DEF Next

LEMMA BroadcastInFlight ==
    ASSUME TypeOK, InFlightSaid, NEW c \in Local, NEW m \in Message, Broadcast(c, m),
           said \subseteq said', CarriesYes(m) => <<c, m.target>> \in said'
    PROVE  InFlightSaid'
  <1> SUFFICES ASSUME NEW c2 \in Local, NEW d \in Local, NEW i \in 1..Len(net'[d][c2]),
                      CarriesYes(net'[d][c2][i])
               PROVE  <<d, net'[d][c2][i].target>> \in said'
    BY DEF InFlightSaid, CarriesYes
  <1>1. CASE d = c /\ c2 # c
    <2>1. net'[d][c2] = Append(net[d][c2], m) /\ net[d][c2] \in Seq(Message)
      BY <1>1 DEF Broadcast, TypeOK
    <2>2. CASE i = Len(net[d][c2]) + 1
      BY <1>1, <2>1, <2>2, AppendProperties
    <2>3. CASE i # Len(net[d][c2]) + 1
      <3>1. i \in 1..Len(net[d][c2]) /\ net'[d][c2][i] = net[d][c2][i]
        BY <2>1, <2>3, AppendProperties, LenProperties
      <3> QED BY <3>1 DEF InFlightSaid
    <2> QED BY <2>2, <2>3
  <1>2. CASE ~(d = c /\ c2 # c)
    <2>1. net'[d][c2] = net[d][c2]
      BY <1>2 DEF Broadcast, TypeOK
    <2> QED BY <2>1 DEF InFlightSaid
  <1> QED BY <1>1, <1>2

LEMMA TailInFlight ==
    ASSUME TypeOK, InFlightSaid, NEW c \in Local, NEW d \in Local, net[d][c] # <<>>,
           net' = [net EXCEPT ![d][c] = Tail(@)], said \subseteq said'
    PROVE  InFlightSaid'
  <1> SUFFICES ASSUME NEW c2 \in Local, NEW d2 \in Local, NEW i \in 1..Len(net'[d2][c2]),
                      CarriesYes(net'[d2][c2][i])
               PROVE  <<d2, net'[d2][c2][i].target>> \in said'
    BY DEF InFlightSaid, CarriesYes
  <1>1. CASE d2 = d /\ c2 = c
    <2>1. net'[d][c] = Tail(net[d][c]) /\ net[d][c] \in Seq(Message)
      BY DEF TypeOK
    <2>2. i + 1 \in 1..Len(net[d][c]) /\ net'[d][c][i] = net[d][c][i + 1]
      <3>1. i \in 1..Len(Tail(net[d][c])) /\ net'[d][c][i] = Tail(net[d][c])[i]
        BY <1>1, <2>1
      <3> QED BY <2>1, <3>1, HeadTailProperties, LenProperties
    <2>3. CarriesYes(net[d][c][i + 1])
      BY <1>1, <2>2 DEF CarriesYes
    <2>4. <<d, net[d][c][i + 1].target>> \in said
      BY <2>2, <2>3 DEF InFlightSaid
    <2> QED BY <1>1, <2>2, <2>4
  <1>2. CASE ~(d2 = d /\ c2 = c)
    <2>1. net'[d2][c2] = net[d2][c2]
      BY <1>2 DEF TypeOK
    <2> QED BY <2>1 DEF InFlightSaid
  <1> QED BY <1>1, <1>2

LEMMA InFlightStep ==
    ASSUME TypeOK, InFlightSaid, [Next]_vars
    PROVE  InFlightSaid'
  <1>0. said \subseteq said'
    BY SaidGrows
  <1>1. ASSUME NEW c \in Local, NEW t \in Target, ProposeManual(c, t)
        PROVE  InFlightSaid'
    <2>1. Msg("ProposeVote", t, "manual") \in Message
      BY MsgType DEF Mask
    <2>2. Msg("ProposeVote", t, "manual").target = t
      BY DEF Msg
    <2> QED BY <1>0, <1>1, <2>1, <2>2, BroadcastInFlight DEF ProposeManual, ProposeReject
  <1>2. ASSUME NEW c \in Local, NEW t \in Target, ProposeDropout(c, t)
        PROVE  InFlightSaid'
    <2>1. Msg("ProposeVote", t, "timeout") \in Message
      BY MsgType DEF Mask
    <2>2. ~CarriesYes(Msg("ProposeVote", t, "timeout"))
      BY DEF Msg, CarriesYes
    <2> QED BY <1>0, <1>2, <2>1, <2>2, BroadcastInFlight DEF ProposeDropout, ProposeReject
  <1>3. ASSUME NEW c \in Local, NEW t \in Target, CastLocalYesVote(c, t)
        PROVE  InFlightSaid'
    <2>1. Msg("CastVote", t, votes[c][t].mask) \in Message
      <3>1. votes[c][t].mask \in Mask
        BY <1>3 DEF CastLocalYesVote, TypeOK, Ballot
      <3> QED BY <3>1, MsgType
    <2>2. Msg("CastVote", t, votes[c][t].mask).target = t
      BY DEF Msg
    <2> QED BY <1>0, <1>3, <2>1, <2>2, BroadcastInFlight DEF CastLocalYesVote
  <1>4. ASSUME NEW c \in Local, NEW t \in Target, CastLocalNoVote(c, t)
        PROVE  InFlightSaid'
    <2>1. Msg("CastNoVote", t, votes[c][t].mask) \in Message
      <3>1. votes[c][t].mask \in Mask
        BY <1>4 DEF CastLocalNoVote, TypeOK, Ballot
      <3> QED BY <3>1, MsgType
    <2>2. ~CarriesYes(Msg("CastNoVote", t, votes[c][t].mask))
      BY DEF Msg, CarriesYes
    <2> QED BY <1>0, <1>4, <2>1, <2>2, BroadcastInFlight DEF CastLocalNoVote
  <1>5. ASSUME NEW c \in Local, NEW d \in Local, Deliver(c, d) \/ Lose(d, c)
        PROVE  InFlightSaid'
    BY <1>0, <1>5, TailInFlight DEF Deliver, Lose
  <1>6. CASE UNCHANGED net
    BY <1>0, <1>6 DEF InFlightSaid, CarriesYes
  <1> QED
    BY <1>1, <1>2, <1>3, <1>4, <1>5, <1>6
    DEF Next, vars, PeerPacket, PeerHeard, PeerSilent, PlayerRemoved, CooldownOver, TakeStarts,
        NoteTakeInProgress, ExecuteRejectAfterTake, Tick

-----------------------------------------------------------------------------
(* The invariant *)

\* A client holds no timeout ballot on itself.
NoSelfTimeoutBallot ==
    \A c \in Local, t \in Target :
        votes[c][t] # None /\ t = c => votes[c][t].mask = "manual"

\* The slot of a player who has not left was found when the ballot opened.
SlotKnown ==
    \A c \in Local, t \in Target :
        votes[c][t] # None /\ t \notin gone[c] => votes[c][t].slot

IInv ==
    /\ TypeOK
    /\ InFlightSaid
    /\ OneVoteEach
    /\ NoPhantomYes
    /\ NoSelfTimeoutBallot
    /\ SlotKnown

LEMMA GoneGrows ==
    ASSUME TypeOK, [Next]_vars, NEW c \in Local
    PROVE  gone[c] \subseteq gone'[c]
  <1>1. ASSUME NEW c2 \in Local, NEW t \in Target, PlayerRemoved(c2, t)
        PROVE  gone[c] \subseteq gone'[c]
    BY <1>1 DEF PlayerRemoved, TypeOK
  <1>2. ASSUME NEW c2, NEW d, NEW m, OnReceive(c2, d, m)
        PROVE  gone' = gone
    BY <1>2 DEF OnReceive, Heard
  <1>3. ASSUME NEW c2, NEW late, NEW lapsed, NEW second, Tick(c2, late, lapsed, second)
        PROVE  gone' = gone
    BY <1>3 DEF Tick, worldVars
  <1>4. ASSUME \A c2 \in Local, t \in Target : ~PlayerRemoved(c2, t)
        PROVE  gone' = gone
    BY <1>2, <1>3, <1>4
    DEF Next, vars, ballotVars, worldVars, ProposeManual, ProposeDropout, CastLocalYesVote,
        CastLocalNoVote, CooldownOver, TakeStarts, NoteTakeInProgress, ExecuteRejectAfterTake,
        Deliver, Lose, PeerHeard, PeerSilent, PeerPacket, Heard
  <1> QED BY <1>1, <1>4

LEMMA IInvStep ==
    ASSUME IInv, [Next]_vars
    PROVE  /\ OneVoteEach' /\ NoPhantomYes' /\ NoSelfTimeoutBallot' /\ SlotKnown'
  <1> SUFFICES ASSUME NEW c \in Local, NEW t \in Target, votes'[c][t] # None
               PROVE  LET b2 == votes'[c][t]
                      IN  /\ b2.voters \cap b2.noVoters = {}
                          /\ \A p \in b2.voters : <<p, t>> \in said'
                          /\ t = c => b2.mask = "manual"
                          /\ t \notin gone'[c] => b2.slot
    BY DEF OneVoteEach, NoPhantomYes, NoSelfTimeoutBallot, SlotKnown
  <1> DEFINE b2 == votes'[c][t]
  <1>1. BallotMove(c, t, b2)
    BY StepMove DEF IInv
  <1>2. said \subseteq said' /\ gone[c] \subseteq gone'[c]
    BY SaidGrows, GoneGrows DEF IInv
  <1>3. b2.mask \in Mask
    BY TypeInvariantStep DEF IInv, TypeOK, Ballot
  <1>4. ASSUME votes[c][t] # None
        PROVE  /\ votes[c][t] \in Ballot
               /\ votes[c][t].voters \cap votes[c][t].noVoters = {}
               /\ \A p \in votes[c][t].voters : <<p, t>> \in said'
               /\ t = c => votes[c][t].mask = "manual"
               /\ t \notin gone'[c] => votes[c][t].slot
    BY <1>2, <1>4 DEF IInv, TypeOK, OneVoteEach, NoPhantomYes, NoSelfTimeoutBallot, SlotKnown
  <1>5. CASE OpensBallot(c, t, b2)
    <2>1. PICK from \in Client : /\ SameVotes(NewBallot(c, t, b2.mask, from), b2)
                                 /\ b2.mask = "manual" => <<from, t>> \in said'
      BY <1>5 DEF OpensBallot
    <2> QED BY <1>2, <1>3, <1>5, <2>1 DEF OpensBallot, SameVotes, NewBallot, Mask
  <1>6. CASE GainsYes(c, t, b2)
    <2>1. PICK p \in Client : /\ SameVotes(WithYes(votes[c][t], p), b2)
                              /\ <<p, t>> \in said'
      BY <1>6 DEF GainsYes
    <2>2. votes[c][t] # None
      BY <1>6 DEF GainsYes
    <2> QED BY <1>4, <2>1, <2>2 DEF SameVotes, WithYes, Ballot
  <1>7. CASE GainsNo(c, t, b2)
    <2>1. PICK p \in Client : SameVotes(WithNo(votes[c][t], p), b2)
      BY <1>7 DEF GainsNo
    <2>2. votes[c][t] # None
      BY <1>7 DEF GainsNo
    <2> QED BY <1>4, <2>1, <2>2 DEF SameVotes, WithNo, Ballot
  <1>8. CASE KeepsVotes(c, t, b2)
    BY <1>4, <1>8 DEF KeepsVotes, SameVotes
  <1> QED BY <1>1, <1>5, <1>6, <1>7, <1>8 DEF BallotMove

LEMMA Invariance == Spec => []IInv
  <1>1. Init => IInv
    BY EmptySeq, TypeInvariantInit
    DEF Init, IInv, InFlightSaid, OneVoteEach, NoPhantomYes, NoSelfTimeoutBallot, SlotKnown
  <1>2. IInv /\ [Next]_vars => IInv'
    BY TypeInvariantStep, InFlightStep, IInvStep DEF IInv
  <1> QED BY <1>1, <1>2, PTL DEF Spec

\* Each player counts on one side of a ballot at most, in every game.
THEOREM OneVoteEachHolds == Spec => []OneVoteEach
  BY Invariance, PTL DEF IInv

\* Whoever counts as a YES has clicked YES, however packets are lost or late.
THEOREM NoPhantomYesHolds == Spec => []NoPhantomYes
  BY Invariance, PTL DEF IInv

-----------------------------------------------------------------------------
(* What stands behind a reject *)

CarriedBy(c, r, b) ==
    /\ r.mask = b.mask
    /\ Verdict(c, r.target, b) = "carried"
    /\ \A p \in b.voters : <<p, r.target>> \in said'
    /\ r.target \notin gone[c] => b.slot
    /\ r.target = c => b.mask = "manual"

RunOut(c, r, b) ==
    /\ b # None
    /\ r.mask = b.mask /\ r.mask = "timeout"
    /\ ~Cancels(c, r.target, b)

RejectMove(c, r) ==
    \/ r.why = "taken" /\ r.mask = "timeout"
    \/ r.why = "carried" /\ \E b \in Ballot : CarriedBy(c, r, b)
    \/ r.why = "expired" /\ RunOut(c, r, votes[c][r.target])

LEMMA CheckRejects ==
    ASSUME TypeOK, NEW c \in Local, NEW t \in Target, NEW b \in Ballot,
           CheckAndExecuteReject(c, t, b),
           \A p \in b.voters : <<p, t>> \in said',
           t \notin gone[c] => b.slot,
           t = c => b.mask = "manual",
           NEW c2 \in Local, NEW r \in NewRejects(c2)
    PROVE  RejectMove(c2, r)
  <1>1. ExecuteReject(c, IfCarried(Verdict(c, t, b), t, b))
    BY DEF CheckAndExecuteReject
  <1>2. c2 = c /\ r \in IfCarried(Verdict(c, t, b), t, b)
    BY <1>1 DEF ExecuteReject, NewRejects, TypeOK
  <1>3. /\ Verdict(c, t, b) = "carried"
        /\ r = [target |-> t, mask |-> b.mask, why |-> "carried"]
    BY <1>2 DEF IfCarried
  <1>4. CarriedBy(c, r, b)
    BY <1>3 DEF CarriedBy
  <1> QED BY <1>2, <1>3, <1>4 DEF RejectMove

LEMMA TickRejects ==
    ASSUME IInv, NEW c \in Local, NEW late, NEW lapsed, NEW second \in BOOLEAN,
           Tick(c, late, lapsed, second), NEW c2 \in Local, NEW r \in NewRejects(c2)
    PROVE  RejectMove(c2, r)
  <1> DEFINE f(t) == Fate(c, t, late, second)
  <1>1. c2 = c /\ r \in Sent(c, Fates(c, late, second))
    BY DEF Tick, NewRejects, IInv, TypeOK
  <1>2. PICK t \in Target : /\ f(t) \in {"carried", "expired"}
                            /\ r = [target |-> t, mask |-> votes[c][t].mask, why |-> f(t)]
    BY <1>1 DEF Sent, Fates
  <1>3. votes[c][t] # None /\ votes[c][t] \in Ballot
    BY <1>2 DEF Fate, IInv, TypeOK
  <1>4. said' = said
    BY DEF Tick
  <1>5. CASE f(t) = "carried"
    <2>1. Verdict(c, t, votes[c][t]) = "carried"
      BY <1>3, <1>5 DEF Fate
    <2>2. CarriedBy(c, r, votes[c][t])
      BY <1>2, <1>3, <1>4, <2>1
      DEF CarriedBy, IInv, NoPhantomYes, NoSelfTimeoutBallot, SlotKnown
    <2> QED BY <1>1, <1>2, <1>3, <1>5, <2>2 DEF RejectMove
  <1>6. CASE f(t) = "expired"
    <2>1. votes[c][t].mask = "timeout" /\ ~Cancels(c, t, votes[c][t])
      <3>1. Verdict(c, t, votes[c][t]) # "expired"
        BY <1>3, VerdictValues
      <3> QED BY <1>3, <1>6, <3>1 DEF Fate
    <2> QED BY <1>1, <1>2, <1>3, <1>6, <2>1 DEF RejectMove, RunOut
  <1> QED BY <1>2, <1>5, <1>6

LEMMA StepRejects ==
    ASSUME IInv, [Next]_vars, NEW c2 \in Local, NEW r \in NewRejects(c2)
    PROVE  RejectMove(c2, r)
  <1> USE ClientAssumption DEF IInv
  <1>1. ASSUME NEW c \in Local, NEW t \in Target, ProposeManual(c, t)
        PROVE  RejectMove(c2, r)
    <2>1. NewBallot(c, t, "manual", c) \in Ballot
      BY NewBallotType DEF Mask
    <2> QED BY <1>1, <2>1, CheckRejects DEF ProposeManual, ProposeReject, NewBallot
  <1>2. ASSUME NEW c \in Local, NEW t \in Target, ProposeDropout(c, t)
        PROVE  RejectMove(c2, r)
    <2>1. NewBallot(c, t, "timeout", c) \in Ballot
      BY NewBallotType DEF Mask
    <2> QED BY <1>2, <2>1, CheckRejects DEF ProposeDropout, ProposeReject, NewBallot
  <1>3. ASSUME NEW c \in Local, NEW t \in Target, CastLocalYesVote(c, t)
        PROVE  RejectMove(c2, r)
    <2> DEFINE b == WithYes(votes[c][t], c)
    <2>1. votes[c][t] \in Ballot /\ votes[c][t] # None
      BY <1>3 DEF CastLocalYesVote, TypeOK
    <2>2. b \in Ballot
      BY <2>1, VoteTypes
    <2>3. said \subseteq said' /\ <<c, t>> \in said' /\ t # c
      BY <1>3 DEF CastLocalYesVote
    <2>4. \A p \in b.voters : <<p, t>> \in said'
      BY <2>1, <2>3 DEF WithYes, Ballot, NoPhantomYes
    <2>5. t \notin gone[c] => b.slot
      BY <2>1 DEF WithYes, Ballot, SlotKnown
    <2> QED BY <1>3, <2>2, <2>3, <2>4, <2>5, CheckRejects DEF CastLocalYesVote
  <1>4. ASSUME NEW c \in Local, NEW t \in Target, CastLocalNoVote(c, t)
        PROVE  RejectMove(c2, r)
    <2> DEFINE b == WithNo(votes[c][t], c)
    <2>1. votes[c][t] \in Ballot /\ votes[c][t] # None
      BY <1>4 DEF CastLocalNoVote, TypeOK
    <2>2. b \in Ballot
      BY <2>1, VoteTypes
    <2>3. said = said' /\ t # c
      BY <1>4 DEF CastLocalNoVote
    <2>4. \A p \in b.voters : <<p, t>> \in said'
      BY <2>1, <2>3 DEF WithNo, Ballot, NoPhantomYes
    <2>5. t \notin gone[c] => b.slot
      BY <2>1 DEF WithNo, Ballot, SlotKnown
    <2> QED BY <1>4, <2>2, <2>3, <2>4, <2>5, CheckRejects DEF CastLocalNoVote
  <1>5. ASSUME NEW c \in Local, NEW late, NEW lapsed, NEW second \in BOOLEAN,
               Tick(c, late, lapsed, second)
        PROVE  RejectMove(c2, r)
    BY <1>5, TickRejects
  <1>6. ASSUME NEW c \in Local, NEW t \in Target, ExecuteRejectAfterTake(c, t)
        PROVE  RejectMove(c2, r)
    <2>1. r = [target |-> t, mask |-> "timeout", why |-> "taken"]
      BY <1>6 DEF ExecuteRejectAfterTake, ExecuteReject, NewRejects, TypeOK
    <2> QED BY <2>1 DEF RejectMove
  <1>7. CASE rejects' = rejects
    BY <1>7 DEF NewRejects
  <1>8. ASSUME NEW c, NEW d, NEW m, OnReceive(c, d, m)
        PROVE  rejects' = rejects
    BY <1>8 DEF OnReceive
  <1> QED
    BY <1>1, <1>2, <1>3, <1>4, <1>5, <1>6, <1>7, <1>8
    DEF Next, vars, ballotVars, Deliver, Lose, PeerPacket, PeerHeard, PeerSilent, PlayerRemoved,
        CooldownOver, TakeStarts, NoteTakeInProgress

-----------------------------------------------------------------------------
(* The main theorems *)

LEMMA SelfRejectStep ==
    ASSUME IInv, NoSelfTimeoutReject, [Next]_vars
    PROVE  NoSelfTimeoutReject'
  <1> SUFFICES ASSUME NEW c \in Local, NEW r \in rejects'[c], r.target = c, r.mask = "timeout"
               PROVE  r.why = "taken"
    BY DEF NoSelfTimeoutReject
  <1>1. CASE r \in rejects[c]
    BY <1>1 DEF NoSelfTimeoutReject
  <1>2. CASE r \notin rejects[c]
    <2>1. RejectMove(c, r)
      BY <1>2, StepRejects DEF NewRejects
    <2>2. r.target \in Target
      BY TypeInvariantStep DEF IInv, TypeOK, Reject
    <2> QED BY <2>1, <2>2 DEF RejectMove, CarriedBy, RunOut, IInv, NoSelfTimeoutBallot
  <1> QED BY <1>1, <1>2

\* No client ever times its own player out, except after a take of its units.
THEOREM NoSelfTimeoutRejectHolds == Spec => []NoSelfTimeoutReject
  <1>1. Init => NoSelfTimeoutReject
    BY DEF Init, NoSelfTimeoutReject
  <1> QED BY <1>1, SelfRejectStep, Invariance, PTL DEF Spec

\* No vote carries against a live ally of the target who did not consent.
THEOREM LiveAllyMustConsentHolds == Spec => LiveAllyMustConsent
  <1> DEFINE Consent == \A c \in Local : \A r \in NewRejects(c) :
                 LET able == {p \in Allies[r.target] : CanCastVote(c, p)}
                 IN  r.why = "carried" /\ r.target \notin gone[c] /\ able # {}
                        => \E p \in able : <<p, r.target>> \in said'
  <1>1. IInv /\ [Next]_vars => Consent
    <2> SUFFICES ASSUME IInv, [Next]_vars,
                        NEW c \in Local, NEW r \in NewRejects(c),
                        r.why = "carried", r.target \notin gone[c]
                 PROVE  LET able == {p \in Allies[r.target] : CanCastVote(c, p)}
                        IN  able # {} => \E p \in able : <<p, r.target>> \in said'
      OBVIOUS
    <2>1. PICK b \in Ballot : CarriedBy(c, r, b)
      BY StepRejects DEF RejectMove
    <2>2. TeammateConsent(c, r.target, b)
      BY <2>1 DEF CarriedBy, Verdict
    <2> QED BY <2>1, <2>2 DEF CarriedBy, TeammateConsent
  <1> QED BY <1>1, Invariance, PTL DEF Spec, LiveAllyMustConsent

\* The timer never rejects a target whose traffic resumed, except during a take.
THEOREM ExpiryOnlyIfGoneHolds == Spec => ExpiryOnlyIfGone
  <1> DEFINE Gone == \A c \in Local : \A r \in NewRejects(c) :
                 r.why = "expired" /\ r.target \notin gone[c]
                    => \/ ~votes[c][r.target].resumed
                       \/ votes[c][r.target].takeInProgress
  <1>1. IInv /\ [Next]_vars => Gone
    <2> SUFFICES ASSUME IInv, [Next]_vars,
                        NEW c \in Local, NEW r \in NewRejects(c),
                        r.why = "expired", r.target \notin gone[c]
                 PROVE  \/ ~votes[c][r.target].resumed
                        \/ votes[c][r.target].takeInProgress
      OBVIOUS
    <2>1. RunOut(c, r, votes[c][r.target])
      BY StepRejects DEF RejectMove
    <2>2. r.target \in Target
      BY TypeInvariantStep DEF NewRejects, IInv, TypeOK, Reject
    <2> QED BY <2>1, <2>2 DEF RunOut, Cancels, IInv, SlotKnown
  <1> QED BY <1>1, Invariance, PTL DEF Spec, ExpiryOnlyIfGone

LEMMA NeededIsEnough ==
    ASSUME NEW e \in Nat, NEW n \in Nat, NEW mask \in Mask, n >= VotesNeeded(mask, e)
    PROVE  n >= 1 /\ IF mask = "manual" THEN 3 * n >= 2 * e ELSE e >= 2 => n >= 2
  BY DEF VotesNeeded, Mask

LEMMA EligibleFinite ==
    ASSUME NEW c, NEW t
    PROVE  Cardinality(Eligible(c, t)) \in Nat
  <1>1. IsFiniteSet(Player)
    BY FiniteAssumption, FS_Union DEF Player
  <1>2. Eligible(c, t) \subseteq Player
    BY DEF Eligible
  <1> QED BY <1>1, <1>2, FS_Subset, FS_CardinalityType

\* A vote carries only if enough distinct players have clicked YES.
THEOREM QuorumOfClicksHolds == Spec => QuorumOfClicks
  <1> DEFINE Quorum == \A c \in Local : \A r \in NewRejects(c) :
                 r.why = "carried" =>
                    LET e == Cardinality(Eligible(c, r.target))
                        n == Cardinality({p \in Client : <<p, r.target>> \in said'})
                    IN  n >= 1 /\ IF r.mask = "manual" THEN 3 * n >= 2 * e ELSE e >= 2 => n >= 2
  <1>1. IInv /\ [Next]_vars => Quorum
    <2> SUFFICES ASSUME IInv, [Next]_vars,
                        NEW c \in Local, NEW r \in NewRejects(c), r.why = "carried"
                 PROVE  LET e == Cardinality(Eligible(c, r.target))
                            n == Cardinality({p \in Client : <<p, r.target>> \in said'})
                        IN  /\ n >= 1
                            /\ IF r.mask = "manual" THEN 3 * n >= 2 * e ELSE e >= 2 => n >= 2
      OBVIOUS
    <2> DEFINE clicked == {p \in Client : <<p, r.target>> \in said'}
               e == Cardinality(Eligible(c, r.target))
    <2>1. PICK b \in Ballot : CarriedBy(c, r, b)
      BY StepRejects DEF RejectMove
    <2>2. b.mask \in Mask /\ b.voters \subseteq clicked
      BY <2>1 DEF CarriedBy, Ballot
    <2>3. IsFiniteSet(clicked) /\ Cardinality(clicked) \in Nat
      BY FiniteAssumption, FS_Subset, FS_CardinalityType
    <2>4. Cardinality(b.voters) \in Nat /\ Cardinality(b.voters) <= Cardinality(clicked)
      BY <2>2, <2>3, FS_Subset, FS_CardinalityType
    <2>5. Cardinality(b.voters) >= VotesNeeded(b.mask, e)
      BY <2>1 DEF CarriedBy, Verdict
    <2>6. e \in Nat /\ VotesNeeded(b.mask, e) \in Nat
      BY <2>2, EligibleFinite DEF VotesNeeded
    <2>7. Cardinality(clicked) >= VotesNeeded(b.mask, e)
      BY <2>3, <2>4, <2>5, <2>6
    <2> HIDE DEF clicked, e
    <2>8. /\ Cardinality(clicked) >= 1
          /\ IF b.mask = "manual" THEN 3 * Cardinality(clicked) >= 2 * e
             ELSE e >= 2 => Cardinality(clicked) >= 2
      BY <2>2, <2>3, <2>6, <2>7, NeededIsEnough
    <2> QED BY <2>1, <2>8 DEF CarriedBy, clicked, e
  <1> QED BY <1>1, Invariance, PTL DEF Spec, QuorumOfClicks

LEMMA StepCools ==
    ASSUME TypeOK, [Next]_vars, NEW c2 \in Local, NEW t2 \in Target, t2 \in cooldown'[c2]
    PROVE  t2 \in cooldown[c2] \/ votes'[c2][t2] = None
  <1>1. ASSUME NEW c \in Local, NEW t \in Target, NEW b, CheckAndExecuteReject(c, t, b)
        PROVE  t2 \in cooldown[c2] \/ votes'[c2][t2] = None
    BY <1>1 DEF CheckAndExecuteReject, TypeOK
  <1>2. ASSUME NEW c \in Local, NEW late, NEW lapsed, NEW second \in BOOLEAN,
               Tick(c, late, lapsed, second)
        PROVE  t2 \in cooldown[c2] \/ votes'[c2][t2] = None
    <2> DEFINE f == Fate(c, t2, late, second)
    <2>1. c2 # c => t2 \in cooldown[c2]
      BY <1>2 DEF Tick, TypeOK
    <2>2. c2 = c => t2 \in cooldown[c] \/ f \in {"failed", "lapsed"}
      BY <1>2 DEF Tick, TypeOK, Fates
    <2>3. f \in {"failed", "lapsed"} => votes'[c][t2] = None
      BY <1>2 DEF Tick, TypeOK, Fates, Remains
    <2> QED BY <2>1, <2>2, <2>3
  <1>3. ASSUME NEW c \in Local, NEW t \in Target, CooldownOver(c, t)
        PROVE  t2 \in cooldown[c2]
    BY <1>3 DEF CooldownOver, TypeOK
  <1>4. ASSUME NEW c, NEW d, NEW m, OnReceive(c, d, m)
        PROVE  cooldown' = cooldown
    BY <1>4 DEF OnReceive
  <1>5. ASSUME NEW c \in Local, NEW t \in Target,
               \/ ProposeManual(c, t) \/ ProposeDropout(c, t)
               \/ CastLocalYesVote(c, t) \/ CastLocalNoVote(c, t)
        PROVE  t2 \in cooldown[c2] \/ votes'[c2][t2] = None
    BY <1>1, <1>5
    DEF ProposeManual, ProposeDropout, ProposeReject, CastLocalYesVote, CastLocalNoVote
  <1> QED
    BY <1>2, <1>3, <1>4, <1>5
    DEF Next, vars, ballotVars, Deliver, Lose, PeerPacket, PeerHeard, PeerSilent,
        PlayerRemoved, TakeStarts, NoteTakeInProgress, ExecuteRejectAfterTake

\* No ballot on a target is open at a client where the target cools down.
THEOREM CooldownExcludesBallotHolds == Spec => []CooldownExcludesBallot
  <1>1. Init => CooldownExcludesBallot
    BY DEF Init, CooldownExcludesBallot
  <1>2. IInv /\ CooldownExcludesBallot /\ [Next]_vars => CooldownExcludesBallot'
    <2> SUFFICES ASSUME IInv, CooldownExcludesBallot, [Next]_vars,
                        NEW c \in Local, NEW t \in cooldown'[c], votes'[c][t] # None
                 PROVE  FALSE
      BY DEF CooldownExcludesBallot
    <2>1. t \in Target
      BY TypeInvariantStep DEF IInv, TypeOK
    <2>2. t \in cooldown[c]
      BY <2>1, StepCools DEF IInv
    <2>3. votes[c][t] = None
      BY <2>2 DEF CooldownExcludesBallot
    <2>4. OpensBallot(c, t, votes'[c][t])
      BY <2>1, <2>3, StepMove DEF IInv, BallotMove, GainsYes, GainsNo, KeepsVotes
    <2> QED BY <2>2, <2>4 DEF OpensBallot
  <1> QED BY <1>1, <1>2, Invariance, PTL DEF Spec

-----------------------------------------------------------------------------
(* The refinement: VoteReject implements BallotLifecycle *)

\* Only a timeout ballot is ever closed.
ClosedIsTimeout ==
    \A c \in Local, t \in Target :
        votes[c][t] # None /\ votes[c][t].votingClosed => votes[c][t].mask = "timeout"

LifeInv == IInv /\ CooldownExcludesBallot /\ ClosedIsTimeout

\* What BallotLifecycle sees of a client's rejects of a target.
Masks(c, t) == {r.mask : r \in {x \in rejects[c] : x.target = t}}

Moves(c, t, from, to) == Phase(c, t) \in from /\ Phase(c, t)' = to
Sends(c, t, masks) == Masks(c, t)' = Masks(c, t) \cup masks

\* The moves of BallotLifecycle, of one seat.
SeatMove(c, t) ==
    \/ (Moves(c, t, {"idle"}, "manual") \/ Moves(c, t, {"idle"}, "timeout")) /\ Sends(c, t, {})
    \/ Moves(c, t, {"idle", "manual"}, "idle") /\ Sends(c, t, {"manual"})
    \/ Moves(c, t, {"timeout", "closed"}, "idle") /\ Sends(c, t, {"timeout"})
    \/ Moves(c, t, {"manual"}, "cooling") /\ Sends(c, t, {})
    \/ Moves(c, t, {"timeout"}, "closed") /\ Sends(c, t, {})
    \/ Moves(c, t, {"timeout", "closed", "cooling"}, "idle") /\ Sends(c, t, {})
    \/ /\ Phase(c, t)' = IF Phase(c, t) = "cooling" THEN "cooling" ELSE "idle"
       /\ Sends(c, t, {"timeout"})
    \/ Phase(c, t)' = Phase(c, t) /\ Sends(c, t, {})

LifeStep(c, t) ==
    /\ SeatMove(c, t)
    /\ votes'[c][t] # None /\ votes'[c][t].votingClosed => votes'[c][t].mask = "timeout"

\* A step that leaves the ballot's kind, the cooldown and the rejects alone.
LEMMA SeatStays ==
    ASSUME LifeInv, NEW c \in Local, NEW t \in Target,
           \/ votes'[c][t] = votes[c][t]
           \/ /\ votes[c][t] # None /\ votes'[c][t] # None
              /\ votes'[c][t].mask = votes[c][t].mask
              /\ votes'[c][t].votingClosed = votes[c][t].votingClosed,
           t \in cooldown'[c] <=> t \in cooldown[c],
           Masks(c, t)' = Masks(c, t)
    PROVE  LifeStep(c, t)
  <1>1. Phase(c, t)' = Phase(c, t)
    BY DEF Phase
  <1>2. votes'[c][t] # None /\ votes'[c][t].votingClosed => votes'[c][t].mask = "timeout"
    BY DEF LifeInv, ClosedIsTimeout
  <1>3. Sends(c, t, {})
    BY DEF Sends
  <1> QED BY <1>1, <1>2, <1>3 DEF LifeStep, SeatMove

LEMMA MasksGrow ==
    ASSUME TypeOK, NEW c \in Local, NEW R, rejects' = [rejects EXCEPT ![c] = @ \cup R],
           NEW c2 \in Local, NEW t2
    PROVE  Masks(c2, t2)' = IF c2 = c THEN Masks(c2, t2) \cup {r.mask : r \in {x \in R : x.target = t2}}
                            ELSE Masks(c2, t2)
  <1>1. rejects'[c2] = IF c2 = c THEN rejects[c2] \cup R ELSE rejects[c2]
    BY DEF TypeOK
  <1> QED BY <1>1 DEF Masks

LEMMA CheckSeat ==
    ASSUME LifeInv, NEW c \in Local, NEW t \in Target, NEW b \in Ballot,
           CheckAndExecuteReject(c, t, b), t \notin cooldown[c],
           b.votingClosed => b.mask = "timeout",
           \/ /\ votes[c][t] = None /\ ~b.votingClosed
              /\ Verdict(c, t, b) = "open" \/ (Verdict(c, t, b) = "carried" /\ b.mask = "manual")
           \/ /\ votes[c][t] # None /\ b.mask = votes[c][t].mask
              /\ b.votingClosed = votes[c][t].votingClosed,
           NEW c2 \in Local, NEW t2 \in Target
    PROVE  LifeStep(c2, t2)
  <1> USE NoneAssumption
  <1> DEFINE v == Verdict(c, t, b)
             R == IfCarried(v, t, b)
  <1>0. TypeOK
    BY DEF LifeInv, IInv
  <1>1. rejects' = [rejects EXCEPT ![c] = @ \cup R]
    BY DEF CheckAndExecuteReject, ExecuteReject
  <1>2. Masks(c2, t2)' = IF c2 = c THEN Masks(c2, t2) \cup {r.mask : r \in {x \in R : x.target = t2}}
                         ELSE Masks(c2, t2)
    BY <1>0, <1>1, MasksGrow
  <1>3. votes' = [votes EXCEPT ![c][t] =
                        IF v \in {"carried", "failed"} THEN None
                        ELSE IF v = "closed" THEN [b EXCEPT !.votingClosed = TRUE]
                        ELSE b]
    BY DEF CheckAndExecuteReject
  <1>4. cooldown' = IF v = "failed" THEN [cooldown EXCEPT ![c] = @ \cup {t}] ELSE cooldown
    BY DEF CheckAndExecuteReject
  <1>5. /\ v \in {"carried", "failed", "open", "closed"}
        /\ v = "failed" => b.mask = "manual"
        /\ v = "closed" => b.mask = "timeout"
    BY VerdictValues
  <1>a. votes[c][t] = None => ~b.votingClosed /\ (v = "open" \/ (v = "carried" /\ b.mask = "manual"))
    OBVIOUS
  <1> HIDE DEF v
  <1>6. CASE c2 # c \/ t2 # t
    <2>1. votes'[c2][t2] = votes[c2][t2]
      BY <1>0, <1>3, <1>6 DEF TypeOK
    <2>2. t2 \in cooldown'[c2] <=> t2 \in cooldown[c2]
      BY <1>0, <1>4, <1>6 DEF TypeOK
    <2>3. Masks(c2, t2)' = Masks(c2, t2)
      BY <1>2, <1>6 DEF IfCarried
    <2> QED BY <2>1, <2>2, <2>3, SeatStays
  <1>7. CASE c2 = c /\ t2 = t
    <2>1. votes'[c][t] = IF v \in {"carried", "failed"} THEN None
                         ELSE IF v = "closed" THEN [b EXCEPT !.votingClosed = TRUE] ELSE b
      BY <1>0, <1>3 DEF TypeOK
    <2>2. t \in cooldown'[c] <=> v = "failed"
      BY <1>0, <1>4 DEF TypeOK
    <2>3. Masks(c, t)' = Masks(c, t) \cup (IF v = "carried" THEN {b.mask} ELSE {})
      <3>1. {r.mask : r \in {x \in R : x.target = t}} = IF v = "carried" THEN {b.mask} ELSE {}
        <4>1. CASE v = "carried"
          <5>1. R = {[target |-> t, mask |-> b.mask, why |-> v]}
            BY <4>1 DEF IfCarried
          <5>2. {x \in R : x.target = t} = {[target |-> t, mask |-> b.mask, why |-> v]}
            BY <5>1
          <5>3. {r.mask : r \in {[target |-> t, mask |-> b.mask, why |-> v]}} = {b.mask}
            OBVIOUS
          <5> QED BY <4>1, <5>2, <5>3
        <4>2. CASE v # "carried"
          BY <4>2 DEF IfCarried
        <4> QED BY <4>1, <4>2
      <3> HIDE DEF R
      <3> QED BY <1>2, <1>7, <3>1
    <2>4. /\ [b EXCEPT !.votingClosed = TRUE].votingClosed = TRUE
          /\ [b EXCEPT !.votingClosed = TRUE].mask = b.mask
          /\ [b EXCEPT !.votingClosed = TRUE] # None /\ b # None
          /\ b.mask \in {"manual", "timeout"}
      <3>1. [b EXCEPT !.votingClosed = TRUE] \in Ballot
        BY DEF Ballot
      <3> QED BY <3>1 DEF Ballot, Mask
    <2>5. Phase(c, t) = IF votes[c][t] = None THEN "idle"
                        ELSE IF b.votingClosed THEN "closed" ELSE b.mask
      BY DEF Phase
    <2>6. Phase(c, t)' = IF v = "carried" THEN "idle" ELSE IF v = "failed" THEN "cooling"
                         ELSE IF v = "closed" \/ b.votingClosed THEN "closed" ELSE b.mask
      BY <1>5, <2>1, <2>2, <2>4 DEF Phase
    <2>7. votes'[c][t] # None /\ votes'[c][t].votingClosed => votes'[c][t].mask = "timeout"
      BY <1>5, <2>1, <2>4
    <2>8. SeatMove(c, t)
      <3>1. CASE v = "carried"
        BY <2>3, <2>4, <2>5, <2>6, <3>1 DEF SeatMove, Moves, Sends
      <3>2. CASE v = "failed"
        <4>1. Phase(c, t) = "manual" /\ Phase(c, t)' = "cooling"
          BY <1>5, <1>a, <2>4, <2>5, <2>6, <3>2
        <4>2. Sends(c, t, {})
          BY <2>3, <3>2 DEF Sends
        <4> QED BY <4>1, <4>2 DEF SeatMove, Moves
      <3>3. CASE v = "closed"
        BY <1>5, <1>a, <2>3, <2>4, <2>5, <2>6, <3>3 DEF SeatMove, Moves, Sends
      <3>4. CASE v = "open"
        BY <2>3, <2>4, <2>5, <2>6, <3>4 DEF SeatMove, Moves, Sends
      <3> QED BY <1>5, <3>1, <3>2, <3>3, <3>4
    <2> QED BY <1>7, <2>7, <2>8 DEF LifeStep
  <1> QED BY <1>6, <1>7

\* A ballot that has just been opened does not fail: the proposer itself can vote.
LEMMA FreshVerdict ==
    ASSUME NEW c \in Local, NEW t \in Target, NEW mask \in Mask, InGame(c), c # t
    PROVE  \/ Verdict(c, t, NewBallot(c, t, mask, c)) = "open"
           \/ Verdict(c, t, NewBallot(c, t, mask, c)) = "carried" /\ mask = "manual"
  <1> DEFINE e == Cardinality(Eligible(c, t))
             b == NewBallot(c, t, mask, c)
  <1>1. c \in Eligible(c, t)
    BY ClientAssumption DEF Eligible, CanCastVote, Player, InGame
  <1>2. IsFiniteSet(Eligible(c, t))
    <2>1. IsFiniteSet(Player)
      BY FiniteAssumption, FS_Union DEF Player
    <2>2. Eligible(c, t) \subseteq Player
      BY DEF Eligible
    <2> QED BY <2>1, <2>2, FS_Subset
  <1>3. e \in Nat /\ e >= 1
    <2>1. e \in Nat
      BY <1>2, FS_CardinalityType
    <2>2. e # 0
      BY <1>1, <1>2, FS_EmptySet
    <2> QED BY <2>1, <2>2
  <1>4. /\ b.noVoters = {} /\ b.mask = mask
        /\ mask = "timeout" => b.voters = {}
    BY DEF NewBallot, Mask
  <1>5. Cardinality({}) = 0
    BY FS_EmptySet
  <1> HIDE DEF e, b
  <1>6. VotesNeeded(mask, e) \in Nat /\ VotesNeeded(mask, e) >= 1 /\ VotesNeeded(mask, e) <= e
    BY <1>3 DEF VotesNeeded, Mask
  <1>7. Cardinality(b.noVoters) + VotesNeeded(b.mask, e) <= e
    BY <1>3, <1>4, <1>5, <1>6
  <1>8. b.mask = "timeout" => ~(Cardinality(b.voters) >= VotesNeeded(b.mask, e))
    BY <1>4, <1>5, <1>6
  <1>9. Verdict(c, t, b) = IF Cardinality(b.voters) >= VotesNeeded(b.mask, e) /\ TeammateConsent(c, t, b)
                           THEN "carried" ELSE "open"
    BY <1>7 DEF Verdict, e
  <1> QED BY <1>4, <1>8, <1>9 DEF b, Mask

LEMMA ProposeSeat ==
    ASSUME LifeInv, NEW c \in Local, NEW t \in Target, NEW mask \in Mask,
           InGame(c), c # t, ProposeReject(c, t, mask), NEW c2 \in Local, NEW t2 \in Target
    PROVE  LifeStep(c2, t2)
  <1> DEFINE b == NewBallot(c, t, mask, c)
  <1>1. b \in Ballot /\ ~b.votingClosed /\ b.mask = mask
    BY ClientAssumption, NewBallotType DEF NewBallot
  <1>2. votes[c][t] = None /\ t \notin cooldown[c] /\ CheckAndExecuteReject(c, t, b)
    BY DEF ProposeReject
  <1>3. Verdict(c, t, b) = "open" \/ (Verdict(c, t, b) = "carried" /\ b.mask = "manual")
    BY <1>1, FreshVerdict
  <1> HIDE DEF b
  <1> QED BY <1>1, <1>2, <1>3, CheckSeat

LEMMA CastSeat ==
    ASSUME LifeInv, NEW c \in Local, NEW t \in Target, votes[c][t] # None,
           NEW b \in {WithYes(votes[c][t], c), WithNo(votes[c][t], c)},
           CheckAndExecuteReject(c, t, b), NEW c2 \in Local, NEW t2 \in Target
    PROVE  LifeStep(c2, t2)
  <1>1. votes[c][t] \in Ballot
    BY DEF LifeInv, IInv, TypeOK
  <1>2. b \in Ballot
    BY <1>1, ClientAssumption, VoteTypes
  <1>3. b.mask = votes[c][t].mask /\ b.votingClosed = votes[c][t].votingClosed
    BY <1>1 DEF WithYes, WithNo, Ballot
  <1>4. t \notin cooldown[c] /\ (b.votingClosed => b.mask = "timeout")
    BY <1>3 DEF LifeInv, CooldownExcludesBallot, ClosedIsTimeout
  <1> QED BY <1>2, <1>3, <1>4, CheckSeat

\* What a message leaves of a ballot: a new one, or the same kind of ballot.
LEMMA ReceivedKind ==
    ASSUME NEW c, NEW d \in Client, NEW m \in Message, NEW b \in Ballot \cup {None}
    PROVE  LET b2 == Received(c, d, m, b)
           IN  \/ b2 = b
               \/ b = None /\ m.target \notin cooldown[c] /\ b2 = NewBallot(c, m.target, m.mask, d)
               \/ /\ b # None /\ b2 # None
                  /\ b2.mask = b.mask /\ b2.votingClosed = b.votingClosed
  <1>1. ASSUME b \in Ballot
        PROVE  /\ WithYes(b, d) # None /\ WithNo(b, d) # None
               /\ WithYes(b, d).mask = b.mask /\ WithYes(b, d).votingClosed = b.votingClosed
               /\ WithNo(b, d).mask = b.mask /\ WithNo(b, d).votingClosed = b.votingClosed
    <2>1. WithYes(b, d) \in Ballot /\ WithNo(b, d) \in Ballot
      BY <1>1, VoteTypes
    <2>2. WithYes(b, d) # None /\ WithNo(b, d) # None
      BY <2>1, NoneAssumption
    <2>3. /\ WithYes(b, d).mask = b.mask /\ WithYes(b, d).votingClosed = b.votingClosed
          /\ WithNo(b, d).mask = b.mask /\ WithNo(b, d).votingClosed = b.votingClosed
      BY <1>1 DEF WithYes, WithNo, Ballot
    <2> QED BY <2>2, <2>3
  <1> QED BY <1>1 DEF Received, MayOpen

LEMMA TouchedKind ==
    ASSUME TypeOK, NEW c \in Local, NEW d, NEW t \in Target
    PROVE  \/ Touched(c, d)[t] = votes[c][t]
           \/ /\ votes[c][t] # None /\ Touched(c, d)[t] # None
              /\ Touched(c, d)[t].mask = votes[c][t].mask
              /\ Touched(c, d)[t].votingClosed = votes[c][t].votingClosed
  <1>1. ASSUME NEW b \in Ballot
        PROVE  /\ [b EXCEPT !.resumed = TRUE] # None
               /\ [b EXCEPT !.resumed = TRUE].mask = b.mask
               /\ [b EXCEPT !.resumed = TRUE].votingClosed = b.votingClosed
    <2>1. [b EXCEPT !.resumed = TRUE] \in Ballot
      BY DEF Ballot
    <2> QED BY <2>1, NoneAssumption DEF Ballot
  <1>2. votes[c][t] \in Ballot \cup {None}
    BY DEF TypeOK
  <1> QED BY <1>1, <1>2 DEF Touched

LEMMA OnReceiveSeat ==
    ASSUME LifeInv, NEW c \in Local, NEW d \in Client, NEW m \in Message, OnReceive(c, d, m),
           NEW c2 \in Local, NEW t \in Target
    PROVE  LifeStep(c2, t)
  <1> DEFINE b1 == Touched(c, d)[m.target]
             b2 == IF InGame(c) THEN Received(c, d, m, b1) ELSE b1
  <1>0. TypeOK /\ m.target \in Target /\ m.mask \in Mask
    BY DEF Message, LifeInv, IInv
  <1>1. /\ t \in cooldown'[c2] <=> t \in cooldown[c2]
        /\ Masks(c2, t)' = Masks(c2, t)
    BY DEF OnReceive, Masks
  <1>2. CASE c2 # c
    <2>1. votes'[c2] = votes[c2]
      BY <1>0, <1>2 DEF OnReceive, TypeOK
    <2> QED BY <1>1, <2>1, SeatStays
  <1>3. CASE c2 = c /\ t # m.target
    <2>1. votes'[c][t] = Touched(c, d)[t]
      BY <1>0, <1>3, TouchedBallots DEF OnReceive, TypeOK
    <2> QED BY <1>0, <1>1, <1>3, <2>1, TouchedKind, SeatStays
  <1>4. CASE c2 = c /\ t = m.target
    <2>1. votes'[c][t] = b2
      BY <1>0, <1>4, TouchedBallots DEF OnReceive, TypeOK
    <2>2. b1 \in Ballot \cup {None}
      BY <1>0, TouchedBallots
    <2>3. \/ b1 = votes[c][t]
          \/ /\ votes[c][t] # None /\ b1 # None
             /\ b1.mask = votes[c][t].mask /\ b1.votingClosed = votes[c][t].votingClosed
      BY <1>0, <1>4, TouchedKind
    <2>4. \/ b2 = b1
          \/ b1 = None /\ t \notin cooldown[c] /\ b2 = NewBallot(c, t, m.mask, d)
          \/ /\ b1 # None /\ b2 # None
             /\ b2.mask = b1.mask /\ b2.votingClosed = b1.votingClosed
      BY <1>4, <2>2, ReceivedKind
    <2> HIDE DEF b1, b2
    <2>5. CASE b1 = None /\ t \notin cooldown[c] /\ b2 = NewBallot(c, t, m.mask, d)
      <3>1. b2 # None /\ b2.mask = m.mask /\ b2.votingClosed = FALSE
        BY <1>0, <2>5, NewBallotType, NoneAssumption DEF NewBallot
      <3>2. votes[c][t] = None
        BY <2>3, <2>5
      <3>3. Phase(c, t) = "idle" /\ Phase(c, t)' = m.mask
        BY <2>1, <2>5, <3>1, <3>2 DEF Phase
      <3>4. Sends(c, t, {})
        BY <1>1, <1>4 DEF Sends
      <3>5. SeatMove(c, t)
        BY <1>0, <3>3, <3>4 DEF SeatMove, Moves, Mask
      <3> QED BY <1>4, <2>1, <3>1, <3>5 DEF LifeStep
    <2>6. CASE \/ b2 = votes[c][t]
               \/ /\ votes[c][t] # None /\ b2 # None
                  /\ b2.mask = votes[c][t].mask /\ b2.votingClosed = votes[c][t].votingClosed
      BY <1>1, <1>4, <2>1, <2>6, SeatStays
    <2> QED BY <2>3, <2>4, <2>5, <2>6
  <1> QED BY <1>2, <1>3, <1>4

\* What the fates of Tick are, of an open ballot.
LEMMA FateKind ==
    ASSUME TypeOK, NEW c \in Local, NEW t \in Target, NEW late, NEW second,
           votes[c][t] # None
    PROVE  LET f == Fate(c, t, late, second)
           IN  \/ f \in {"carried", "open"}
               \/ f \in {"failed", "lapsed"} /\ votes[c][t].mask = "manual"
               \/ f \in {"closed", "cancelled", "expired"} /\ votes[c][t].mask = "timeout"
  <1>1. votes[c][t] \in Ballot
    BY DEF TypeOK
  <1>2. votes[c][t].mask \in {"manual", "timeout"}
    BY <1>1 DEF Ballot, Mask
  <1>3. /\ Verdict(c, t, votes[c][t]) \in {"carried", "failed", "open", "closed"}
        /\ Verdict(c, t, votes[c][t]) = "failed" => votes[c][t].mask = "manual"
        /\ Verdict(c, t, votes[c][t]) = "closed" => votes[c][t].mask = "timeout"
    BY <1>1, VerdictValues
  <1> QED BY <1>2, <1>3 DEF Fate, Cancels

LEMMA TickSeat ==
    ASSUME LifeInv, NEW c \in Local, NEW late, NEW lapsed, NEW second \in BOOLEAN,
           Tick(c, late, lapsed, second), NEW c2 \in Local, NEW t \in Target
    PROVE  LifeStep(c2, t)
  <1> DEFINE fates == Fates(c, late, second)
             R == Sent(c, fates)
             f == Fate(c, t, late, second)
             b == votes[c][t]
  <1>0. TypeOK
    BY DEF LifeInv, IInv
  <1>1. rejects' = [rejects EXCEPT ![c] = @ \cup R]
    BY DEF Tick
  <1>2. Masks(c2, t)' = IF c2 = c THEN Masks(c2, t) \cup {r.mask : r \in {x \in R : x.target = t}}
                        ELSE Masks(c2, t)
    BY <1>0, <1>1, MasksGrow
  <1>3. CASE c2 # c
    <2>1. votes'[c2][t] = votes[c2][t] /\ (t \in cooldown'[c2] <=> t \in cooldown[c2])
      BY <1>0, <1>3 DEF Tick, TypeOK
    <2>2. Masks(c2, t)' = Masks(c2, t)
      BY <1>2, <1>3
    <2> QED BY <2>1, <2>2, SeatStays
  <1>4. CASE c2 = c
    <2>1. votes'[c][t] = Remains(b, f)
      BY <1>0 DEF Tick, TypeOK, Fates
    <2>2. t \in cooldown'[c] <=> t \in cooldown[c] \/ f \in {"failed", "lapsed"}
      BY <1>0 DEF Tick, TypeOK, Fates
    <2>3. {r.mask : r \in {x \in R : x.target = t}} =
             IF f \in {"carried", "expired"} THEN {b.mask} ELSE {}
      <3>1. \A x \in R : x.target = t =>
                f \in {"carried", "expired"} /\ x = [target |-> t, mask |-> b.mask, why |-> f]
        <4>1. \A u \in Target : fates[u] = Fate(c, u, late, second)
          BY DEF Fates
        <4> HIDE DEF fates
        <4>2. TAKE x \in R
        <4>3. PICK u \in {w \in Target : fates[w] \in {"carried", "expired"}} :
                 x = [target |-> u, mask |-> votes[c][u].mask, why |-> fates[u]]
          BY DEF Sent
        <4>4. x.target = u
          BY <4>3
        <4> QED BY <4>1, <4>3, <4>4
      <3>2. f \in {"carried", "expired"} => [target |-> t, mask |-> b.mask, why |-> f] \in R
        BY DEF Sent, Fates
      <3> HIDE DEF R, f, b
      <3>3. CASE f \in {"carried", "expired"}
        <4>1. {x \in R : x.target = t} = {[target |-> t, mask |-> b.mask, why |-> f]}
          BY <3>1, <3>2, <3>3
        <4>2. {r.mask : r \in {[target |-> t, mask |-> b.mask, why |-> f]}} = {b.mask}
          OBVIOUS
        <4> QED BY <3>3, <4>1, <4>2
      <3>4. CASE f \notin {"carried", "expired"}
        BY <3>1, <3>4
      <3> QED BY <3>3, <3>4
    <2>4. Masks(c, t)' = Masks(c, t) \cup (IF f \in {"carried", "expired"} THEN {b.mask} ELSE {})
      <3> HIDE DEF R, f, b
      <3> QED BY <1>2, <1>4, <2>3
    <2>5. CASE b = None
      <3>1. f = "none"
        BY <2>5 DEF Fate
      <3>2. votes'[c][t] = None
        BY <2>1, <3>1 DEF Remains
      <3> HIDE DEF f
      <3>3. (t \in cooldown'[c] <=> t \in cooldown[c]) /\ Masks(c, t)' = Masks(c, t)
        BY <2>2, <2>4, <3>1
      <3> QED BY <1>4, <2>5, <3>2, <3>3, SeatStays
    <2>6. CASE b # None
      <3>1. /\ b \in Ballot /\ b.mask \in {"manual", "timeout"}
            /\ t \notin cooldown[c] /\ (b.votingClosed => b.mask = "timeout")
        BY <1>0, <2>6 DEF LifeInv, TypeOK, Ballot, Mask, CooldownExcludesBallot, ClosedIsTimeout
      <3>2. \/ f \in {"carried", "open"}
            \/ f \in {"failed", "lapsed"} /\ b.mask = "manual"
            \/ f \in {"closed", "cancelled", "expired"} /\ b.mask = "timeout"
        BY <1>0, <2>6, FateKind
      <3>3. Phase(c, t) = IF b.votingClosed THEN "closed" ELSE b.mask
        BY <2>6 DEF Phase
      <3>4. /\ [b EXCEPT !.votingClosed = TRUE].votingClosed = TRUE
            /\ [b EXCEPT !.votingClosed = TRUE].mask = b.mask
            /\ [b EXCEPT !.votingClosed = TRUE] # None
        <4>1. [b EXCEPT !.votingClosed = TRUE] \in Ballot
          BY <3>1 DEF Ballot
        <4> QED BY <3>1, <4>1, NoneAssumption DEF Ballot
      <3> HIDE DEF f, b
      <3>5. votes'[c][t] = IF f = "open" THEN b
                           ELSE IF f = "closed" THEN [b EXCEPT !.votingClosed = TRUE] ELSE None
        BY <2>1 DEF Remains
      <3>6. Phase(c, t)' = IF f = "open" THEN IF b.votingClosed THEN "closed" ELSE b.mask
                           ELSE IF f = "closed" THEN "closed"
                           ELSE IF f \in {"failed", "lapsed"} THEN "cooling" ELSE "idle"
        BY <2>2, <2>6, <3>1, <3>4, <3>5 DEF Phase
      <3>7. votes'[c][t] # None /\ votes'[c][t].votingClosed => votes'[c][t].mask = "timeout"
        BY <3>1, <3>2, <3>4, <3>5
      <3>8. Sends(c, t, IF f \in {"carried", "expired"} THEN {b.mask} ELSE {})
        BY <2>4 DEF Sends
      <3>9. SeatMove(c, t)
        <4>1. CASE f = "carried" \/ f = "expired"
          BY <3>1, <3>2, <3>3, <3>6, <3>8, <4>1 DEF SeatMove, Moves
        <4>2. CASE f = "failed" \/ f = "lapsed"
          BY <3>1, <3>2, <3>3, <3>6, <3>8, <4>2 DEF SeatMove, Moves
        <4>3. CASE f = "closed" \/ f = "cancelled"
          BY <3>1, <3>2, <3>3, <3>6, <3>8, <4>3 DEF SeatMove, Moves
        <4>4. CASE f = "open"
          BY <3>1, <3>2, <3>3, <3>6, <3>8, <4>4 DEF SeatMove, Moves
        <4> QED BY <3>2, <4>1, <4>2, <4>3, <4>4
      <3> QED BY <1>4, <3>7, <3>9 DEF LifeStep
    <2> QED BY <2>5, <2>6
  <1> QED BY <1>3, <1>4

LEMMA TakenSeat ==
    ASSUME LifeInv, NEW c \in Local, NEW t \in Target, ExecuteRejectAfterTake(c, t),
           NEW c2 \in Local, NEW t2 \in Target
    PROVE  LifeStep(c2, t2)
  <1> DEFINE r == [target |-> t, mask |-> "timeout", why |-> "taken"]
  <1>0. TypeOK
    BY DEF LifeInv, IInv
  <1>1. rejects' = [rejects EXCEPT ![c] = @ \cup {r}]
    BY DEF ExecuteRejectAfterTake, ExecuteReject
  <1>2. Masks(c2, t2)' = IF c2 = c THEN Masks(c2, t2) \cup {x.mask : x \in {y \in {r} : y.target = t2}}
                         ELSE Masks(c2, t2)
    BY <1>0, <1>1, MasksGrow
  <1>3. cooldown' = cooldown
    BY DEF ExecuteRejectAfterTake
  <1>4. CASE c2 # c \/ t2 # t
    <2>1. votes'[c2][t2] = votes[c2][t2]
      BY <1>0, <1>4 DEF ExecuteRejectAfterTake, TypeOK
    <2>2. t2 # t => {y \in {r} : y.target = t2} = {}
      OBVIOUS
    <2> HIDE DEF r
    <2>3. Masks(c2, t2)' = Masks(c2, t2)
      BY <1>2, <1>4, <2>2
    <2> QED BY <1>3, <2>1, <2>3, SeatStays
  <1>5. CASE c2 = c /\ t2 = t
    <2>1. votes'[c][t] = None
      BY <1>0 DEF ExecuteRejectAfterTake, TypeOK
    <2>2. {y \in {r} : y.target = t} = {r} /\ {x.mask : x \in {r}} = {"timeout"}
      OBVIOUS
    <2> HIDE DEF r
    <2>3. Sends(c, t, {"timeout"})
      BY <1>2, <1>5, <2>2 DEF Sends
    <2>4. Phase(c, t)' = IF t \in cooldown[c] THEN "cooling" ELSE "idle"
      BY <1>3, <2>1 DEF Phase
    <2>5. Phase(c, t) = "cooling" <=> t \in cooldown[c]
      <3>1. votes[c][t] # None => t \notin cooldown[c] /\ votes[c][t].mask # "cooling"
        <4>1. votes[c][t] \in Ballot \cup {None}
          BY <1>0 DEF TypeOK
        <4>2. votes[c][t] \in Ballot => votes[c][t].mask \in {"manual", "timeout"}
          BY DEF Ballot, Mask
        <4>3. votes[c][t] # None => t \notin cooldown[c]
          BY DEF LifeInv, CooldownExcludesBallot
        <4> QED BY <4>1, <4>2, <4>3
      <3> QED BY <3>1 DEF Phase
    <2> QED BY <1>5, <2>1, <2>3, <2>4, <2>5 DEF LifeStep, SeatMove
  <1> QED BY <1>4, <1>5

LEMMA CoolsSeat ==
    ASSUME LifeInv, NEW c \in Local, NEW t \in Target, CooldownOver(c, t),
           NEW c2 \in Local, NEW t2 \in Target
    PROVE  LifeStep(c2, t2)
  <1>1. votes' = votes /\ Masks(c2, t2)' = Masks(c2, t2)
    BY DEF CooldownOver, Masks
  <1>2. t \in cooldown[c] /\ cooldown' = [cooldown EXCEPT ![c] = @ \ {t}]
    BY DEF CooldownOver
  <1>3. CASE c2 # c \/ t2 # t
    <2>1. t2 \in cooldown'[c2] <=> t2 \in cooldown[c2]
      BY <1>2, <1>3 DEF LifeInv, IInv, TypeOK
    <2> QED BY <1>1, <2>1, SeatStays
  <1>4. CASE c2 = c /\ t2 = t
    <2>1. t \notin cooldown'[c]
      BY <1>2 DEF LifeInv, IInv, TypeOK
    <2>2. votes[c][t] = None
      BY <1>2 DEF LifeInv, CooldownExcludesBallot
    <2>3. Phase(c, t) = "cooling" /\ Phase(c, t)' = "idle" /\ Sends(c, t, {})
      BY <1>1, <1>2, <1>4, <2>1, <2>2 DEF Phase, Sends
    <2> QED BY <1>1, <1>4, <2>2, <2>3 DEF LifeStep, SeatMove, Moves
  <1> QED BY <1>3, <1>4

LEMMA NotedSeat ==
    ASSUME LifeInv, NEW c \in Local, NEW t \in Target, NoteTakeInProgress(c, t),
           NEW c2 \in Local, NEW t2 \in Target
    PROVE  LifeStep(c2, t2)
  <1>0. TypeOK
    BY DEF LifeInv, IInv
  <1>1. /\ t2 \in cooldown'[c2] <=> t2 \in cooldown[c2]
        /\ Masks(c2, t2)' = Masks(c2, t2)
    BY DEF NoteTakeInProgress, Masks
  <1>2. votes[c][t] # None /\ votes[c][t] \in Ballot
    BY <1>0 DEF NoteTakeInProgress, TypeOK
  <1>3. [votes[c][t] EXCEPT !.takeInProgress = TRUE] \in Ballot
    BY <1>2 DEF Ballot
  <1>4. votes' = [votes EXCEPT ![c][t] = [votes[c][t] EXCEPT !.takeInProgress = TRUE]]
    BY DEF NoteTakeInProgress
  <1>5. CASE c2 # c \/ t2 # t
    <2>1. votes'[c2][t2] = votes[c2][t2]
      BY <1>0, <1>4, <1>5 DEF TypeOK
    <2> QED BY <1>1, <2>1, SeatStays
  <1>6. CASE c2 = c /\ t2 = t
    <2>1. votes'[c][t] = [votes[c][t] EXCEPT !.takeInProgress = TRUE]
      BY <1>0, <1>4 DEF TypeOK
    <2>2. /\ votes'[c][t] # None /\ votes'[c][t].mask = votes[c][t].mask
          /\ votes'[c][t].votingClosed = votes[c][t].votingClosed
      BY <1>2, <1>3, <2>1, NoneAssumption DEF Ballot
    <2> QED BY <1>1, <1>2, <1>6, <2>2, SeatStays
  <1> QED BY <1>5, <1>6

\* Traffic of d may only mark c's ballots as resumed.
LEMMA HeardSeat ==
    ASSUME LifeInv, NEW c \in Local, NEW d \in Client, PeerHeard(c, d),
           NEW c2 \in Local, NEW t \in Target
    PROVE  LifeStep(c2, t)
  <1>0. TypeOK
    BY DEF LifeInv, IInv
  <1>1. /\ t \in cooldown'[c2] <=> t \in cooldown[c2]
        /\ Masks(c2, t)' = Masks(c2, t)
    BY DEF PeerHeard, Masks
  <1>2. votes'[c2][t] = IF c2 = c THEN Touched(c, d)[t] ELSE votes[c2][t]
    BY <1>0 DEF PeerHeard, TypeOK
  <1> QED BY <1>0, <1>1, <1>2, TouchedKind, SeatStays

LEMMA LifeSteps ==
    ASSUME LifeInv, [Next]_vars, NEW c2 \in Local, NEW t2 \in Target
    PROVE  LifeStep(c2, t2)
  <1> USE ClientAssumption, TargetAssumption
  <1>1. ASSUME NEW c \in Local, NEW t \in Target, ProposeManual(c, t) \/ ProposeDropout(c, t)
        PROVE  LifeStep(c2, t2)
    BY <1>1, ProposeSeat DEF ProposeManual, ProposeDropout, Mask
  <1>2. ASSUME NEW c \in Local, NEW t \in Target, CastLocalYesVote(c, t) \/ CastLocalNoVote(c, t)
        PROVE  LifeStep(c2, t2)
    BY <1>2, CastSeat DEF CastLocalYesVote, CastLocalNoVote
  <1>3. ASSUME NEW c \in Local, NEW d \in Local, Deliver(c, d)
        PROVE  LifeStep(c2, t2)
    <2>1. Head(net[d][c]) \in Message
      BY <1>3, TailType DEF Deliver, LifeInv, IInv
    <2> QED BY <1>3, <2>1, OnReceiveSeat DEF Deliver
  <1>4. ASSUME NEW c \in Local, NEW d \in Client, NEW m \in Message, PeerPacket(c, d, m)
        PROVE  LifeStep(c2, t2)
    BY <1>4, OnReceiveSeat DEF PeerPacket
  <1>5. ASSUME NEW c \in Local, NEW late, NEW lapsed, NEW second \in BOOLEAN,
               Tick(c, late, lapsed, second)
        PROVE  LifeStep(c2, t2)
    BY <1>5, TickSeat
  <1>6. CASE UNCHANGED <<votes, cooldown, rejects>>
    <2>1. Masks(c2, t2)' = Masks(c2, t2)
      BY <1>6 DEF Masks
    <2> QED BY <1>6, <2>1, SeatStays
  <1> QED
    BY <1>1, <1>2, <1>3, <1>4, <1>5, <1>6, TakenSeat, CoolsSeat, NotedSeat, HeardSeat
    DEF Next, vars, ballotVars, Lose, PeerSilent, PlayerRemoved, TakeStarts

LEMMA LifeInvariance == Spec => []LifeInv
  <1>1. Init => CooldownExcludesBallot /\ ClosedIsTimeout
    BY DEF Init, CooldownExcludesBallot, ClosedIsTimeout
  <1>2. ASSUME LifeInv, [Next]_vars
        PROVE  ClosedIsTimeout'
    BY <1>2, LifeSteps DEF ClosedIsTimeout, LifeStep
  <1>3. LifeInv /\ [Next]_vars => ClosedIsTimeout'
    BY <1>2
  <1> QED BY <1>1, <1>3, Invariance, CooldownExcludesBallotHolds, PTL DEF Spec, LifeInv

Phases == [s \in Seat |-> Phase(s[1], s[2])]
SentMasks == [s \in Seat |-> {r.mask : r \in {x \in rejects[s[1]] : x.target = s[2]}}]

\* What a move of a seat is called in BallotLifecycle.
LEMMA MoveNames ==
    ASSUME NEW s \in Seat, SeatMove(s[1], s[2])
    PROVE  \/ Lifecycle!Opens(s) \/ Lifecycle!Carries(s) \/ Lifecycle!Fails(s)
           \/ Lifecycle!Closes(s) \/ Lifecycle!IsCancelled(s) \/ Lifecycle!CoolsDown(s)
           \/ Lifecycle!IsTaken(s) \/ Lifecycle!Stays(s)
  <1>1. /\ Phases[s] = Phase(s[1], s[2]) /\ Phases'[s] = Phase(s[1], s[2])'
        /\ SentMasks[s] = Masks(s[1], s[2]) /\ SentMasks'[s] = Masks(s[1], s[2])'
    BY DEF Phases, SentMasks, Masks
  <1> QED
    BY <1>1
    DEF SeatMove, Moves, Sends, Phases, SentMasks, Lifecycle!Goes, Lifecycle!Silently,
        Lifecycle!Opens, Lifecycle!Carries, Lifecycle!Fails, Lifecycle!Closes,
        Lifecycle!IsCancelled, Lifecycle!CoolsDown, Lifecycle!IsTaken, Lifecycle!Stays

\* Every ballot lives the life that BallotLifecycle allows, at every client.
THEOREM ImplementsLifecycleHolds == Spec => ImplementsLifecycle
  <1>1. Init => Lifecycle!Init
    BY DEF Init, Lifecycle!Init, Phase, Seat
  <1>2. ASSUME LifeInv, [Next]_vars
        PROVE  Lifecycle!Next
    <2>1. \A s \in Seat : SeatMove(s[1], s[2])
      BY <1>2, LifeSteps DEF Seat, LifeStep
    <2>2. /\ Phases' = [s \in Seat |-> Phases'[s]]
          /\ SentMasks' = [s \in Seat |-> SentMasks'[s]]
      BY DEF Phases, SentMasks
    <2> QED BY <2>1, <2>2, MoveNames DEF Lifecycle!Next, Phases, SentMasks
  <1>3. LifeInv /\ [Next]_vars => [Lifecycle!Next]_<<Phases, SentMasks>>
    BY <1>2
  <1> QED
    BY <1>1, <1>3, LifeInvariance, PTL
    DEF Spec, ImplementsLifecycle, Lifecycle!Spec, Phases, SentMasks
=============================================================================
