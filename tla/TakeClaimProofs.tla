-------------------------- MODULE TakeClaimProofs --------------------------
(***************************************************************************)
(* What holds of the take election, for any allies, delays and clocks.     *)
(*                                                                         *)
(* The variables keep their types.  This rests on the winner of an         *)
(* election being well defined: of any set of claims, finite or not, with  *)
(* ticks and dpids in Nat, one beats all the others.                       *)
(*                                                                         *)
(* Nobody rejects the target before some taker has broadcast Complete.     *)
(* As long as nobody has, no Complete is in flight and no entry of         *)
(* g_elections, at any client, has a tick to finish at.                    *)
(*                                                                         *)
(* In one round without drop-outs one ally takes, and all wait for the     *)
(* same one.  A claim an ally has heard of is known to every other, on its *)
(* way to it, or cannot matter to it any more; and a packet arrives before *)
(* its receiver's clock passes its stamp by a window.  So whoever closes   *)
(* its window has heard of every claim that could beat the winner's.       *)
(*                                                                         *)
(* With drop-outs this is so of the claims of those still in the game, as  *)
(* long as all claims are made before any window can close: those of the   *)
(* others may have reached some allies only, who pass on their winners     *)
(* when the grace time is over, and then everything that was sent in time  *)
(* has arrived.                                                            *)
(***************************************************************************)
EXTENDS TakeClaim, DataLemmas, TLAPS

-----------------------------------------------------------------------------
(* The winner *)

Claims == [dpid : Client, tick : Nat]

\* One of the claims beats all the others (PickWinner).
LEMMA SomeClaimBeats ==
  ASSUME NEW C \in SUBSET Claims, C # {}
  PROVE  \E x \in C : \A y \in C \ {x} : Beats(x, y)
<1> DEFINE Ticks  == {x.tick : x \in C}
           First(n) == {x \in C : x.tick = n}
           Dpids(n) == {x.dpid : x \in First(n)}
<1>1. Ticks \subseteq Nat /\ Ticks # {}
  BY DEF Claims
<1>2. PICK n \in Ticks : \A m \in Ticks : n <= m
  BY <1>1, LeastNumber
<1>3. Dpids(n) \subseteq Nat /\ Dpids(n) # {}
  BY ClientAssumption DEF Claims
<1>4. PICK p \in Dpids(n) : \A q \in Dpids(n) : p <= q
  <2> HIDE DEF Dpids
  <2> QED BY <1>3, LeastNumber
<1>5. PICK x \in C : x.tick = n /\ x.dpid = p
  BY <1>4
<1>6. ASSUME NEW y \in C \ {x} PROVE Beats(x, y)
  <2>1. x \in Claims /\ y \in Claims /\ x.dpid \in Nat /\ y.dpid \in Nat
    BY ClientAssumption DEF Claims
  <2>2. n <= y.tick
    BY <1>2
  <2>3. y.tick = n => p <= y.dpid
    BY <1>4
  <2>4. x.tick # y.tick \/ x.dpid # y.dpid
    BY <1>6, <2>1 DEF Claims
  <2> QED
    BY <1>5, <2>1, <2>2, <2>3, <2>4 DEF Beats, Claims
<1> QED
  BY <1>6

\* The winner of an election with candidates is one of them.
LEMMA WinnerIsCandidate ==
  ASSUME NEW e \in ElectionType, Candidates(e) # {}
  PROVE  Winner(e) \in Client /\ \E x \in Candidates(e) : x.dpid = Winner(e)
<1> DEFINE w == CHOOSE x \in Candidates(e) : \A y \in Candidates(e) \ {x} : Beats(x, y)
<1>1. Candidates(e) \in SUBSET Claims
  BY DEF Candidates, ElectionType, Claims
<1>2. \E x \in Candidates(e) : \A y \in Candidates(e) \ {x} : Beats(x, y)
  BY <1>1, SomeClaimBeats
<1>3. w \in Candidates(e)
  BY <1>2
<1>4. Winner(e) = w.dpid
  BY DEF Winner
<1> HIDE DEF w
<1> QED
  BY <1>1, <1>3, <1>4 DEF Claims

-----------------------------------------------------------------------------
(* The types *)

LEMMA TicksInNat ==
  /\ SettleTicks \in Nat /\ GraceTicks \in Nat /\ ElectionKeepTicks \in Nat
  /\ QuietTicks \in Nat /\ SamplePeriod \in Nat /\ CompleteBackstop \in Nat
  /\ FinishDelayTicks \in Nat /\ Units \in Nat /\ Leftover \in Nat
  BY TickAssumption

LEMMA LaterTicks ==
  ASSUME NEW t \in Nat
  PROVE  /\ t + GraceTicks \in Nat /\ t + ElectionKeepTicks \in Nat
         /\ t + CompleteBackstop \in Nat /\ NoSample \in Nat
  BY TicksInNat DEF NoSample

LEMMA NewElectionType == NewElection \in ElectionType
  BY TicksInNat DEF NewElection, NoSample, ElectionType

LEMMA EntryType ==
  ASSUME TypeOK, NEW c \in Client
  PROVE  Entry(c) \in ElectionType
  BY NewElectionType DEF Entry, TypeOK

\* A claim of a client, stamped with a tick (RecordClaim).
LEMMA RecordClaimType ==
  ASSUME NEW e \in ElectionType, NEW p \in Client, NEW tick \in Nat
  PROVE  RecordClaim(e, p, tick) \in ElectionType
<1> DEFINE new == [dpid |-> p, tick |-> tick]
<1>1. /\ e.claims \in SUBSET Claims /\ new \in Claims
      /\ tick + SettleTicks \in Nat /\ e.closeTick \in Nat
  BY TicksInNat DEF ElectionType, Claims
<1>2. \A old \in SUBSET e.claims : (e.claims \ old) \cup {new} \in SUBSET Claims
  BY <1>1
<1>3. \A cs \in SUBSET Claims, n \in Nat :
         [e EXCEPT !.claims = cs, !.closeTick = n] \in ElectionType
  BY DEF ElectionType, Claims
<1>4. \A cs \in SUBSET Claims : [e EXCEPT !.claims = cs] \in ElectionType
  BY DEF ElectionType, Claims
<1> HIDE DEF new
<1> QED
  BY <1>1, <1>2, <1>3, <1>4 DEF RecordClaim, new

LEMMA StampType ==
  ASSUME NEW tick \in Nat, NEW t \in Nat
  PROVE  Stamp(tick, t) \in Nat
  BY DEF Stamp

LEMMA StandDownType ==
  ASSUME NEW e \in ElectionType, NEW t \in Nat
  PROVE  StandDown(e, t) \in ElectionType
  BY LaterTicks, Zenon DEF StandDown, ElectionType

\* What the taker's watch on the walk leaves (TransferQuiescent and the drain).
LEMMA AfterDrainType ==
  ASSUME TypeOK, NEW e \in ElectionType, NEW t \in Nat
  PROVE  AfterFinish(AfterDrain(e, t), t) \in ElectionType
<1>1. TargetLiveUnits \in Nat
  BY TicksInNat DEF TargetLiveUnits, TypeOK
<1>2. t + SamplePeriod \in Nat /\ t + FinishDelayTicks \in Nat
  BY TicksInNat
<1>3. Sample(e, t) \in ElectionType
  <2>1. \A a, b, n \in Nat : [e EXCEPT !.nextSample = a, !.liveCount = b, !.lastChange = n]
                                \in ElectionType
    BY Zenon DEF ElectionType
  <2>2. e.lastChange \in Nat
    BY DEF ElectionType
  <2> QED
    BY <1>1, <1>2, <2>1, <2>2 DEF Sample
<1>4. AfterDrain(e, t) \in ElectionType
  <2>1. \A n \in Nat : [Sample(e, t) EXCEPT !.awaitDrain = FALSE, !.finishAt = n]
                           \in ElectionType
    BY <1>3, Zenon DEF ElectionType
  <2> QED
    BY <1>2, <1>3, <2>1 DEF AfterDrain
<1> QED
  BY <1>4 DEF AfterFinish, ElectionType

Decisions == {"stand down", "nobody", "lost", "take", "pass on", "hold", "wait"}

\* A decision excludes, if anybody, the winner among the candidates.
LEMMA DecisionType ==
  ASSUME NEW e \in ElectionType, NEW c, NEW t
  PROVE  /\ Decision(c, e, t) \in Decisions
         /\ Decision(c, e, t) = "pass on" => Winner(e) \in Client
  BY WinnerIsCandidate DEF Decision, Decisions

LEMMA DecidedType ==
  ASSUME NEW e \in ElectionType, NEW t \in Nat, NEW d \in Decisions,
         d = "pass on" => Winner(e) \in Client
  PROVE  Decided(e, d, t) \in ElectionType
<1>1. CASE d \in {"stand down", "lost", "hold"}
  <2>1. t + GraceTicks \in Nat
    BY LaterTicks, Zenon
  <2>2. [e EXCEPT !.resolved = TRUE, !.graceTick = t + GraceTicks] \in ElectionType
    BY <2>1, Zenon DEF ElectionType
  <2> QED
    BY <1>1, <2>2 DEF Decided
<1>2. CASE d = "nobody"
  BY <1>2, StandDownType DEF Decided
<1>3. CASE d = "take"
  <2>1. /\ StandDown(e, t) \in ElectionType
        /\ t + CompleteBackstop \in Nat /\ NoSample \in Nat
    BY StandDownType, LaterTicks, Zenon
  <2>2. \A x \in ElectionType, a, b \in Nat :
           [x EXCEPT !.awaitDrain = TRUE, !.drainBy = a, !.liveCount = b,
                     !.lastChange = t, !.nextSample = t] \in ElectionType
    BY Zenon DEF ElectionType
  <2> QED
    BY <1>3, <2>1, <2>2 DEF Decided
<1>4. CASE d = "pass on"
  <2>1. e.excluded \cup {Winner(e)} \subseteq Client
    BY <1>4 DEF ElectionType
  <2>2. \A X \in SUBSET Client :
           [e EXCEPT !.excluded = X, !.resolved = FALSE, !.closeTick = t] \in ElectionType
    BY Zenon DEF ElectionType
  <2> QED
    BY <1>4, <2>1, <2>2 DEF Decided
<1>5. CASE d = "wait"
  BY <1>5 DEF Decided
<1> QED
  BY <1>1, <1>2, <1>3, <1>4, <1>5 DEF Decisions

LEMMA PacketsType ==
  ASSUME TypeOK, NEW c \in Client, NEW t \in Nat
  PROVE  /\ ToOthers("Claim", c, t) \subseteq PacketType
         /\ ToOthers("Complete", c, t) \subseteq PacketType
         /\ \A accepted \in BOOLEAN : Announced(c, t, accepted) \subseteq PacketType
  BY DEF ToOthers, ToAll, Announced, Packet, PacketType, TypeOK

\* A claim, a packet or a chat line changes the entry of its receiver, and net.
LEMMA EntryChangeType ==
  ASSUME TypeOK, NEW c \in Client, NEW e \in ElectionType, NEW n \in SUBSET PacketType,
         election' = [election EXCEPT ![c] = e], net' = n
  PROVE  /\ election' \in [Client -> ElectionType \cup {None}]
         /\ net' \subseteq PacketType
  BY DEF TypeOK

LEMMA BeginClaimType ==
  ASSUME TypeOK, NEW c \in Client, BeginClaim(c)
  PROVE  TypeOK'
<1>1. now[c] \in Nat /\ made[c] \in Nat
  BY DEF TypeOK
<1>2. RecordClaim(Entry(c), c, now[c]) \in ElectionType
  BY <1>1, EntryType, RecordClaimType
<1>3. net \cup ToOthers("Claim", c, now[c]) \in SUBSET PacketType
  BY <1>1, PacketsType DEF TypeOK
<1>4. /\ election' \in [Client -> ElectionType \cup {None}]
      /\ net' \subseteq PacketType
  BY <1>2, <1>3, EntryChangeType DEF BeginClaim
<1>5. made' \in [Client -> Nat]
  BY <1>1 DEF BeginClaim, TypeOK
<1> QED
  BY <1>4, <1>5 DEF BeginClaim, TypeOK, walk

LEMMA ReceiptType ==
  ASSUME TypeOK, NEW m \in net, OnClaim(m) \/ OnTakeSeen(m) \/ OnComplete(m)
  PROVE  TypeOK'
<1>1. /\ m.to \in Client /\ m.from \in Client /\ m.tick \in Nat
      /\ now[m.to] \in Nat /\ net \ {m} \in SUBSET PacketType
  BY DEF TypeOK, PacketType
<1>2. Entry(m.to) \in ElectionType
  BY <1>1, EntryType
<1>3. CASE OnClaim(m)
  <2>1. RecordClaim(Entry(m.to), m.from, Stamp(m.tick, now[m.to])) \in ElectionType
    BY <1>1, <1>2, StampType, RecordClaimType
  <2>2. /\ election' \in [Client -> ElectionType \cup {None}]
        /\ net' \subseteq PacketType
    BY <1>1, <1>3, <2>1, EntryChangeType DEF OnClaim, Arrives
  <2> QED
    BY <1>3, <2>2 DEF OnClaim, TypeOK, walk
<1>4. CASE OnTakeSeen(m)
  <2>1. StandDown(Entry(m.to), now[m.to]) \in ElectionType
    BY <1>1, <1>2, StandDownType
  <2>2. /\ election' \in [Client -> ElectionType \cup {None}]
        /\ net' \subseteq PacketType
    <3>1. CASE m.to \in rejected
      BY <1>1, <1>4, <3>1 DEF OnTakeSeen, Arrives, TypeOK
    <3>2. CASE m.to \notin rejected
      BY <1>1, <1>4, <2>1, <3>2, EntryChangeType DEF OnTakeSeen, Arrives
    <3> QED BY <3>1, <3>2
  <2>3. noted' \subseteq Client /\ walking' \subseteq takers'
    BY <1>1, <1>4 DEF OnTakeSeen, TypeOK
  <2> QED
    BY <1>4, <2>2, <2>3 DEF OnTakeSeen, TypeOK
<1>5. CASE OnComplete(m)
  <2>1. StandDown(Entry(m.to), now[m.to]) \in ElectionType
    BY <1>1, <1>2, StandDownType
  <2>2. [StandDown(Entry(m.to), now[m.to]) EXCEPT
            !.awaitDrain = FALSE, !.finishAt = now[m.to] + FinishDelayTicks] \in ElectionType
    <3>1. now[m.to] + FinishDelayTicks \in Nat
      BY <1>1, TicksInNat
    <3> QED
      BY <2>1, <3>1, Zenon DEF ElectionType
  <2>3. /\ election' \in [Client -> ElectionType \cup {None}]
        /\ net' \subseteq PacketType
    BY <1>1, <1>5, <2>2, EntryChangeType DEF OnComplete, Arrives
  <2> QED
    BY <1>5, <2>3 DEF OnComplete, TypeOK, walk
<1> QED
  BY <1>3, <1>4, <1>5

LEMMA GameTickType ==
  ASSUME TypeOK, NEW c \in Client, NEW accepted \in BOOLEAN, GameTick(c, accepted)
  PROVE  TypeOK'
<1> DEFINE t  == now[c] + 1
           e  == election[c]
           e2 == AfterFinish(AfterDrain(e, t), t)
           d  == IF e = None THEN "wait" ELSE IF Retires(e2, t) THEN "retire"
                 ELSE Decision(c, e2, t)
           packets == ToOthers("Complete", c, t) \cup Announced(c, t, accepted)
<1>1. t \in Nat /\ packets \subseteq PacketType
  BY PacketsType DEF TypeOK
<1>2. \A x \in ElectionType \cup {None} :
         [election EXCEPT ![c] = x] \in [Client -> ElectionType \cup {None}]
  BY DEF TypeOK
<1>3. e # None => e2 \in ElectionType
  BY <1>1, AfterDrainType DEF TypeOK
<1>4. e # None /\ d # "retire" => Decided(e2, d, t) \in ElectionType
  <2> HIDE DEF e2, t
  <2> QED BY <1>1, <1>3, DecisionType, DecidedType
<1>5. election' \in [Client -> ElectionType \cup {None}]
  <2>1. election' = IF e = None THEN election
                    ELSE [election EXCEPT ![c] = IF d = "retire" THEN None
                                                 ELSE Decided(e2, d, t)]
    BY DEF GameTick
  <2> HIDE DEF e2, t, d
  <2> QED BY <1>2, <1>4, <2>1 DEF TypeOK
<1>6. net' \subseteq PacketType
  <2>1. net' \subseteq net \cup packets
    BY DEF GameTick
  <2> HIDE DEF packets
  <2> QED BY <1>1, <2>1 DEF TypeOK
<1>7. /\ completers' \subseteq Client /\ rejected' \subseteq Client
      /\ takers' \subseteq Client /\ noted' \subseteq Client
      /\ walking' \subseteq takers'
  BY DEF GameTick, TypeOK
<1>8. now' \in [Client -> Nat] /\ walked' \in Nat
  BY <1>1 DEF GameTick, TypeOK
<1> QED
  BY <1>5, <1>6, <1>7, <1>8 DEF GameTick, TypeOK

\* Walk, drop-outs and refusals.
LEMMA SurroundingsType ==
  ASSUME TypeOK, NEW c \in Client, Walk(c) \/ Crash(c) \/ LoseEligibility(c)
  PROVE  TypeOK'
<1>1. CASE Walk(c)
  <2>1. units \in 0..Units /\ units > 0 /\ Units \in Nat /\ now[c] \in Nat
    BY <1>1, TicksInNat DEF Walk, TypeOK
  <2>2. units' \in 0..Units /\ walked' \in Nat
    BY <1>1, <2>1 DEF Walk
  <2> QED
    BY <1>1, <2>2 DEF Walk, TypeOK
<1>2. CASE Crash(c)
  <2>1. net' \subseteq net /\ alive' \subseteq alive
    BY <1>2 DEF Crash
  <2> QED
    BY <1>2, <2>1 DEF Crash, TypeOK, walk
<1>3. CASE LoseEligibility(c)
  BY <1>3 DEF LoseEligibility, TypeOK, walk
<1> QED
  BY <1>1, <1>2, <1>3

\* The variables of the election keep their types; among them, the claims and
\* the excluded clients of every entry of g_elections are allies of the target.
THEOREM TypeInvariant == Spec => []TypeOK
<1>1. Init => TypeOK
  BY TicksInNat DEF Init, TypeOK
<1>2. TypeOK /\ [Next]_vars => TypeOK'
  <2> SUFFICES ASSUME TypeOK, [Next]_vars PROVE TypeOK'
    OBVIOUS
  <2>1. CASE Next
    BY <2>1, BeginClaimType, ReceiptType, GameTickType, SurroundingsType DEF Next
  <2>2. CASE UNCHANGED vars
    BY <2>2 DEF vars, walk, TypeOK
  <2> QED
    BY <2>1, <2>2
<1> QED
  BY <1>1, <1>2, PTL DEF Spec

-----------------------------------------------------------------------------
(* The reject follows the Complete *)

\* An entry that waits for no tick to reject the target at.
Idle(e) == "finishAt" \in DOMAIN e /\ e.finishAt = 0

NothingAnnounced ==
    /\ rejected = {}
    /\ \A m \in net : m.command # "Complete"
    /\ \A c \in Client : election[c] # None => Idle(election[c])

IInv == DOMAIN election = Client /\ (completers = {} => NothingAnnounced)

-----------------------------------------------------------------------------
(* Only a Complete gives an entry a tick to finish at. *)

\* A new entry is idle (struct Election).
LEMMA NewIsIdle == Idle(NewElection)
  BY DEF Idle, NewElection

\* Recording a claim keeps an entry idle (RecordClaim).
LEMMA ClaimKeepsIdle ==
  ASSUME NEW e, NEW p, NEW tick, Idle(e)
  PROVE  Idle(RecordClaim(e, p, tick))
  BY DEF Idle, RecordClaim

\* Standing down keeps an entry idle (OnIncomingChat).
LEMMA StandDownKeepsIdle ==
  ASSUME NEW e, NEW t, Idle(e)
  PROVE  Idle(StandDown(e, t))
  BY DEF Idle, StandDown

\* Sampling the walk keeps an entry idle until the Complete is due.
LEMMA DrainKeepsIdle ==
  ASSUME NEW e, NEW t, Idle(e), ~DrainEnds(e, t)
  PROVE  Idle(AfterDrain(e, t))
<1>1. Idle(Sample(e, t))
  BY DEF Idle, Sample
<1>2. AfterDrain(e, t) \in {e, Sample(e, t)}
  BY DEF AfterDrain
<1> QED
  BY <1>1, <1>2

\* An idle entry does not finish (ResolveElections).
LEMMA IdleDoesNotFinish ==
  ASSUME NEW e, NEW t, Idle(e)
  PROVE  ~Finishes(e, t) /\ AfterFinish(e, t) = e
  BY DEF Idle, Finishes, AfterFinish

\* Whatever the election decides, an idle entry stays idle.
LEMMA DecisionKeepsIdle ==
  ASSUME NEW e, NEW d, NEW t, Idle(e)
  PROVE  Idle(Decided(e, d, t))
<1>1. CASE d \in {"stand down", "lost", "hold"}
  BY <1>1 DEF Decided, Idle
<1>2. CASE d = "nobody"
  BY <1>2, StandDownKeepsIdle DEF Decided
<1>3. CASE d = "take"
  <2>1. Idle(StandDown(e, t))
    BY StandDownKeepsIdle
  <2> QED
    BY <1>3, <2>1 DEF Decided, Idle
<1>4. CASE d = "pass on"
  BY <1>4 DEF Decided, Idle
<1>5. CASE d \notin {"stand down", "lost", "hold", "nobody", "take", "pass on"}
  BY <1>5 DEF Decided
<1> QED
  BY <1>1, <1>2, <1>3, <1>4, <1>5

-----------------------------------------------------------------------------
(* The actions *)

\* A claim, made here or received, announces nothing.
LEMMA ClaimsAnnounceNothing ==
  ASSUME IInv, \/ \E c \in Client : BeginClaim(c)
               \/ \E m \in net : OnClaim(m) \/ OnTakeSeen(m)
  PROVE  IInv'
<1>1. ASSUME NEW c, NEW x,
             completers = {} => (Idle(Entry(c)) => Idle(x)),
             election' = [election EXCEPT ![c] = x], completers' = completers,
             rejected' = rejected, \A m \in net' : m \in net \/ m.command # "Complete"
      PROVE  IInv'
  <2>1. ASSUME completers = {}, c \in Client PROVE Idle(x)
    BY <1>1, <2>1, NewIsIdle DEF IInv, NothingAnnounced, Entry
  <2> QED
    BY <1>1, <2>1 DEF IInv, NothingAnnounced
<1>2. ASSUME NEW c \in Client, BeginClaim(c) PROVE IInv'
  <2>1. Idle(Entry(c)) => Idle(RecordClaim(Entry(c), c, now[c]))
    BY ClaimKeepsIdle
  <2>2. \A m \in ToOthers("Claim", c, now[c]) : m.command # "Complete"
    BY DEF ToOthers, Packet
  <2> QED
    BY <1>1, <1>2, <2>1, <2>2 DEF BeginClaim
<1>3. ASSUME NEW m \in net, OnClaim(m) PROVE IInv'
  <2>1. Idle(Entry(m.to)) =>
          Idle(RecordClaim(Entry(m.to), m.from, Stamp(m.tick, now[m.to])))
    BY ClaimKeepsIdle
  <2> QED
    BY <1>1, <1>3, <2>1 DEF OnClaim, Arrives
<1>4. ASSUME NEW m \in net, OnTakeSeen(m) PROVE IInv'
  <2>1. Idle(Entry(m.to)) => Idle(StandDown(Entry(m.to), now[m.to]))
    BY StandDownKeepsIdle
  <2> QED
    <3>1. CASE m.to \in rejected
      BY <1>4, <3>1 DEF OnTakeSeen, Arrives, IInv, NothingAnnounced
    <3>2. CASE m.to \notin rejected
      BY <1>1, <1>4, <2>1, <3>2 DEF OnTakeSeen, Arrives
    <3> QED
      BY <3>1, <3>2
<1> QED
  BY <1>2, <1>3, <1>4

\* A Complete is received only after it was broadcast.
LEMMA CompleteWasAnnounced ==
  ASSUME IInv, NEW m \in net, OnComplete(m)
  PROVE  IInv'
<1>1. completers # {}
  BY DEF OnComplete, IInv, NothingAnnounced
<1> QED
  BY <1>1 DEF OnComplete, IInv

\* A game tick announces nothing, or adds its client to the completers.
LEMMA TickAnnounces ==
  ASSUME IInv, NEW c \in Client, NEW accepted \in BOOLEAN, GameTick(c, accepted)
  PROVE  IInv'
<1> DEFINE t  == now[c] + 1
           e  == election[c]
           e2 == AfterFinish(AfterDrain(e, t), t)
           d  == IF e = None THEN "wait" ELSE IF Retires(e2, t) THEN "retire"
                 ELSE Decision(c, e2, t)
<1>1. CASE e = None
  BY <1>1 DEF GameTick, IInv, NothingAnnounced
<1>2. CASE e # None /\ (completers # {} \/ DrainEnds(e, t))
  <2>1. completers' # {} /\ DOMAIN election' = Client
    BY <1>2 DEF GameTick, IInv
  <2> QED
    BY <2>1 DEF IInv
<1>3. CASE e # None /\ completers = {} /\ ~DrainEnds(e, t)
  <2>1. Idle(AfterDrain(e, t))
    BY <1>3, DrainKeepsIdle DEF IInv, NothingAnnounced
  <2>2. ~Finishes(AfterDrain(e, t), t) /\ Idle(e2)
    BY <2>1, IdleDoesNotFinish
  <2>3. Idle(Decided(e2, d, t))
    BY <2>2, DecisionKeepsIdle
  <2>4. \A m \in Announced(c, t, accepted) : m.command # "Complete"
    BY DEF Announced, ToAll, ToOthers, Packet
  <2>5. /\ election' = [election EXCEPT ![c] = IF d = "retire" THEN None ELSE Decided(e2, d, t)]
        /\ net' = net \cup (IF d = "take" THEN Announced(c, t, accepted) ELSE {})
        /\ rejected' = rejected
    BY <1>3, <2>2 DEF GameTick
  <2> HIDE DEF e2, d, t
  <2> QED
    BY <1>3, <2>3, <2>4, <2>5 DEF IInv, NothingAnnounced
<1> QED
  BY <1>1, <1>2, <1>3

\* What happens around the election announces nothing.
LEMMA SurroundingsAnnounceNothing ==
  ASSUME IInv, NEW c \in Client, Walk(c) \/ Crash(c) \/ LoseEligibility(c)
  PROVE  IInv'
  BY DEF IInv, NothingAnnounced, Walk, Crash, LoseEligibility

\* The invariant holds in every state of every behaviour.
LEMMA InvariantHolds == Spec => []IInv
<1>1. Init => IInv
  BY DEF Init, IInv, NothingAnnounced
<1>2. IInv /\ [Next]_vars => IInv'
  <2> SUFFICES ASSUME IInv, [Next]_vars PROVE IInv'
    OBVIOUS
  <2>1. ASSUME Next PROVE IInv'
    BY <2>1, ClaimsAnnounceNothing, CompleteWasAnnounced, TickAnnounces,
       SurroundingsAnnounceNothing DEF Next
  <2>2. CASE UNCHANGED vars
    BY <2>2 DEF vars, walk, IInv, NothingAnnounced
  <2> QED
    BY <2>1, <2>2
<1> QED
  BY <1>1, <1>2, PTL DEF Spec

\* Nobody destroys the units the target still owns before a taker has
\* announced that the hand-over is finished: for any number of clients, any
\* delays, clocks and crashes (FinishTake is reached only through finishAt).
THEOREM RejectFollowsCompleteHolds == Spec => []RejectFollowsComplete
<1>1. IInv => RejectFollowsComplete
  BY DEF IInv, NothingAnnounced, RejectFollowsComplete
<1> QED
  BY <1>1, InvariantHolds, PTL

-----------------------------------------------------------------------------
(* The winner is one *)

\* The claims of one election are over before an entry of it can be erased.
OneRound == LastClaim + SettleTicks <= ElectionKeepTicks

-----------------------------------------------------------------------------
(* The invariant *)

ClaimOf(m) == [dpid |-> m.from, tick |-> m.tick]

Holds(c, x) == election[c] # None /\ x \in election[c].claims

\* The claims that some client has recorded or will.
Known == {x \in Claims : \/ \E c \in Client : Holds(c, x)
                         \/ \E m \in net : m.command = "Claim" /\ x = ClaimOf(m)}

\* y is the claim of the same client, made no later.
Covers(y, x) == y.dpid = x.dpid /\ y.tick <= x.tick

\* The client takes no more part in the round.
IsOver(c) == IF election[c] = None THEN now[c] >= LastClaim + SettleTicks
             ELSE election[c].executed

Competes(c) == election[c] # None /\ ~election[c].executed

\* The client has closed its window at least once.
HasClosed(c) == election[c] # None /\ (election[c].resolved \/ election[c].excluded # {})

OnItsWay(x, d) == \E m \in net : m.command = "Claim" /\ m.to = d /\ Covers(ClaimOf(m), x)

\* The claim x is known to d, on its way to d, or cannot matter to d.
SpreadTo(x, d) ==
    \/ IsOver(d)
    \/ OnItsWay(x, d)
    \/ \E y \in Claims : Holds(d, y) /\ Covers(y, x)
    \/ HasClosed(d) /\ \E y \in Claims : Holds(d, y) /\ Beats(y, x)

\* No other claim comes before w, now or later.
Elected(w) ==
    /\ \A x \in Known : x = w \/ Beats(w, x)
    /\ \A p \in Client : w.tick < now[p]

ClocksInv == \A c \in Client, d \in alive : now[c] <= now[d] + MaxSkew

PacketsInv ==
    \A m \in net : /\ m.tick <= now[m.from]
                   /\ now[m.to] <= m.tick + MaxDelay \/ now[m.to] <= m.tick + MaxSkew
                   /\ m.command = "Claim" => m.tick <= LastClaim

\* A window is open for SettleTicks from the stamp of a claim that is recorded.
WindowInv ==
    \A c \in Client : Competes(c) /\ ~HasClosed(c) =>
        \E x \in Claims : Holds(c, x) /\ x.tick + SettleTicks <= election[c].closeTick

SpreadInv == \A x \in Known, d \in Client : SpreadTo(x, d)

ElectedInv ==
    \A c \in Client : Competes(c) /\ HasClosed(c) =>
        \E w \in Claims : Holds(c, w) /\ Elected(w)

\* A client passes on nobody but itself, when it may no longer take.
ExcludedInv ==
    \A c \in Client : election[c] # None =>
        /\ election[c].excluded \subseteq {c}
        /\ election[c].excluded # {} => ~MayTake(c)
        /\ election[c].executed => election[c].retireTick >= ElectionKeepTicks

TakersInv ==
    \A c \in takers : \E w \in Claims :
        w.dpid = c /\ Elected(w) /\ \A d \in Client : SpreadTo(w, d)

RoundInv == /\ ClocksInv /\ PacketsInv /\ WindowInv /\ SpreadInv
            /\ ElectedInv /\ ExcludedInv /\ TakersInv /\ OneTaker

\* As long as nobody has dropped out.
WinnerInv == alive = Client => RoundInv

-----------------------------------------------------------------------------
(* Claims and their order *)

LEMMA ClaimFacts ==
  ASSUME NEW x \in Claims
  PROVE  x.dpid \in Client /\ x.dpid \in Nat /\ x.tick \in Nat
  BY ClientAssumption DEF Claims

LEMMA BeatsIsOrder ==
  ASSUME NEW x \in Claims, NEW y \in Claims
  PROVE  /\ ~(Beats(x, y) /\ Beats(y, x))
         /\ Beats(x, y) => x.tick <= y.tick
         /\ x.tick < y.tick => Beats(x, y)
         /\ ~Beats(x, x)
         /\ \A z \in Claims : Covers(y, z) /\ (x = y \/ Beats(x, y)) => x = z \/ Beats(x, z)
         /\ \A z \in Claims : Covers(x, y) /\ Beats(y, z) => Beats(x, z)
         /\ \A z \in Claims : Covers(x, y) /\ Covers(y, z) => Covers(x, z)
<1>1. x.dpid \in Nat /\ x.tick \in Nat /\ y.dpid \in Nat /\ y.tick \in Nat
  BY ClaimFacts
<1>2. \A z \in Claims : z.dpid \in Nat /\ z.tick \in Nat
  BY ClaimFacts
<1>3. ASSUME NEW z \in Claims, Covers(y, z), x = y \/ Beats(x, y)
      PROVE  x = z \/ Beats(x, z)
  <2>1. x.dpid = z.dpid /\ x.tick = z.tick => x = z
    BY DEF Claims
  <2> QED
    BY <1>1, <1>2, <1>3, <2>1 DEF Covers, Beats
<1> QED
  BY <1>1, <1>2, <1>3 DEF Beats, Covers

\* Two claims that both come first are the same.
LEMMA OneElected ==
  ASSUME NEW v \in Known, NEW w \in Known, Elected(v), Elected(w)
  PROVE  v = w
  BY BeatsIsOrder DEF Elected, Known

\* PickWinner picks the first claim of those it has, if nobody is excluded.
LEMMA WinnerIsFirst ==
  ASSUME NEW e \in ElectionType, Candidates(e) # {}
  PROVE  \E w \in Candidates(e) : /\ w \in Claims /\ w.dpid = Winner(e)
                                  /\ \A y \in Candidates(e) : y = w \/ Beats(w, y)
<1> DEFINE w == CHOOSE x \in Candidates(e) : \A y \in Candidates(e) \ {x} : Beats(x, y)
<1>1. Candidates(e) \in SUBSET Claims
  BY DEF Candidates, ElectionType, Claims
<1>2. \E x \in Candidates(e) : \A y \in Candidates(e) \ {x} : Beats(x, y)
  BY <1>1, SomeClaimBeats
<1>3. w \in Candidates(e) /\ \A y \in Candidates(e) \ {w} : Beats(w, y)
  BY <1>2
<1>4. Winner(e) = w.dpid
  BY DEF Winner
<1> HIDE DEF w
<1> QED
  BY <1>1, <1>3, <1>4

\* A claim that is recorded by a client that still competes (RecordClaim).
LEMMA RecordFacts ==
  ASSUME NEW e \in ElectionType, ~e.executed, NEW x \in Claims, NEW r,
         r = RecordClaim(e, x.dpid, x.tick)
  PROVE  /\ r \in ElectionType /\ ~r.executed
         /\ r.resolved = e.resolved /\ r.excluded = e.excluded
         /\ r.claims \subseteq e.claims \cup {x}
         /\ \A y \in e.claims : \E z \in r.claims : Covers(z, y)
         /\ \/ \E z \in r.claims : Covers(z, x)
            \/ e.resolved /\ r = e
         /\ e.claims # {} => r.closeTick = e.closeTick
         /\ e.claims = {} /\ ~e.resolved => /\ x \in r.claims
                                            /\ x.tick + SettleTicks = r.closeTick
<1> DEFINE old == {y \in e.claims : y.dpid = x.dpid}
           new == [dpid |-> x.dpid, tick |-> x.tick]
<1>1. new = x /\ e.claims \in SUBSET Claims
  BY DEF Claims, ElectionType
<1>2. \A y \in Claims : Covers(y, y)
  BY ClaimFacts DEF Covers
<1>3. r \in ElectionType
  BY ClaimFacts, RecordClaimType
<1>4. CASE old = {}
  <2>1. r = [e EXCEPT !.claims = @ \cup {x},
                      !.closeTick = IF e.claims = {} /\ ~e.resolved
                                    THEN x.tick + SettleTicks ELSE @]
    BY <1>1, <1>4 DEF RecordClaim
  <2>2. /\ r.claims = e.claims \cup {x} /\ r.executed = e.executed
        /\ r.resolved = e.resolved /\ r.excluded = e.excluded
        /\ r.closeTick = IF e.claims = {} /\ ~e.resolved
                         THEN x.tick + SettleTicks ELSE e.closeTick
    BY <2>1 DEF ElectionType
  <2> QED
    BY <1>1, <1>2, <1>3, <2>2
<1>5. CASE old # {} /\ ~e.resolved /\ \A y \in old : x.tick < y.tick
  <2>1. r = [e EXCEPT !.claims = (@ \ old) \cup {x}]
    BY <1>1, <1>5 DEF RecordClaim
  <2>2. /\ r.claims = (e.claims \ old) \cup {x} /\ r.executed = e.executed
        /\ r.resolved = e.resolved /\ r.excluded = e.excluded
        /\ r.closeTick = e.closeTick
    BY <2>1 DEF ElectionType
  <2>3. \A y \in old : Covers(x, y)
    BY <1>1, <1>5, ClaimFacts DEF Covers
  <2> QED
    BY <1>1, <1>2, <1>3, <1>5, <2>2, <2>3
<1>6. CASE old # {} /\ ~(~e.resolved /\ \A y \in old : x.tick < y.tick)
  <2>1. r = e
    BY <1>1, <1>6 DEF RecordClaim
  <2>2. ~e.resolved => \E y \in old : Covers(y, x)
    BY <1>1, <1>6, ClaimFacts DEF Covers
  <2> QED
    BY <1>1, <1>2, <1>3, <1>6, <2>1, <2>2
<1> QED
  BY <1>4, <1>5, <1>6

-----------------------------------------------------------------------------
(* The clocks and the packets *)

LEMMA TickFacts ==
  /\ SettleTicks \in Nat /\ SettleTicks > 0 /\ MaxDelay \in Nat /\ MaxDelay < SettleTicks
  /\ MaxSkew \in Nat /\ MaxSkew > 0 /\ MaxSkew < SettleTicks
  /\ TickSkewTolerance = 2 * SettleTicks
  /\ LastClaim \in Nat /\ ElectionKeepTicks \in Nat
  BY TickAssumption, SourceAssumption, SkewAssumption, SettleAssumption

\* What the lockstep and the network say of a tick (MayAdvance).
LEMMA AdvanceFacts ==
  ASSUME TypeOK, NEW c \in Client, NEW accepted \in BOOLEAN, GameTick(c, accepted)
  PROVE  /\ c \in alive /\ alive' = alive
         /\ now[c] \in Nat /\ now' = [now EXCEPT ![c] = now[c] + 1] /\ now'[c] = now[c] + 1
         /\ \A d \in Client : now[d] \in Nat
         /\ \A d \in alive : now[c] < now[d] + MaxSkew
         /\ \A m \in net : m.tick \in Nat /\ m.from \in Client /\ m.to \in Client
         /\ \A m \in net : m.to = c => now[c] + 1 <= m.tick + MaxDelay
<1>1. \A m \in net : m.tick \in Nat /\ m.from \in Client /\ m.to \in Client
  BY DEF TypeOK, PacketType
<1>2. MayAdvance(c) /\ now' = [now EXCEPT ![c] = now[c] + 1] /\ alive' = alive
  BY DEF GameTick
<1>3. \A d \in Client : now[d] \in Nat
  BY DEF TypeOK
<1>5. now'[c] = now[c] + 1
  BY <1>2 DEF TypeOK
<1>4. \A m \in net : m.to = c => now[c] < m.tick + MaxDelay
  BY <1>2 DEF MayAdvance
<1> QED
  BY <1>1, <1>2, <1>3, <1>4, <1>5, TickFacts DEF MayAdvance

\* A packet that is still under way is no older than the network and the skew allow.
LEMMA InTime ==
  ASSUME TypeOK, PacketsInv, NEW m \in net
  PROVE  /\ m.tick \in Nat /\ m.from \in Client /\ m.to \in Client
         /\ m.tick <= now[m.from] /\ now[m.to] < m.tick + SettleTicks
         /\ m.command = "Claim" => m.tick <= LastClaim
<1>1. m.tick \in Nat /\ m.from \in Client /\ m.to \in Client
  BY DEF TypeOK, PacketType
<1>2. now[m.to] \in Nat
  BY <1>1 DEF TypeOK
<1>3. /\ m.tick <= now[m.from]
      /\ now[m.to] <= m.tick + MaxDelay \/ now[m.to] <= m.tick + MaxSkew
      /\ m.command = "Claim" => m.tick <= LastClaim
  BY DEF PacketsInv
<1> QED
  BY <1>1, <1>2, <1>3, TickFacts

\* A claim that is made, now or later, is stamped with a tick its client has not passed.
LEMMA ClocksStay ==
  ASSUME TypeOK, ClocksInv, Next
  PROVE  ClocksInv' /\ \A p \in Client : now[p] \in Nat /\ now'[p] \in Nat /\ now[p] <= now'[p]
<1>1. \A p \in Client : now[p] \in Nat
  BY DEF TypeOK
<1>2. ASSUME NEW c \in Client, NEW accepted \in BOOLEAN, GameTick(c, accepted)
      PROVE  ClocksInv' /\ \A p \in Client : now'[p] \in Nat /\ now[p] <= now'[p]
  <2>1. \A p \in Client : now'[p] = IF p = c THEN now[c] + 1 ELSE now[p]
    BY <1>2, AdvanceFacts DEF TypeOK
  <2>2. alive' = alive /\ alive \subseteq Client /\ \A d \in alive : now[c] < now[d] + MaxSkew
    BY <1>2, AdvanceFacts DEF TypeOK
  <2>3. \A k \in Client, d \in alive : now[k] <= now[d] + MaxSkew
    BY DEF ClocksInv
  <2>4. \A p \in Client : now'[p] \in Nat /\ now[p] <= now'[p]
    BY <1>1, <2>1
  <2>5. ASSUME NEW k \in Client, NEW d \in alive PROVE now'[k] <= now'[d] + MaxSkew
    <3>1. d \in Client /\ now[d] \in Nat /\ now'[d] \in Nat /\ now[d] <= now'[d] /\ now[k] \in Nat
      BY <1>1, <2>2, <2>4
    <3>2. now'[k] <= now[d] + MaxSkew
      BY <1>1, <2>1, <2>2, <2>3, <3>1, TickFacts
    <3>3. now'[k] \in Nat
      BY <2>4
    <3> QED
      BY <3>1, <3>2, <3>3, TickFacts
  <2> QED
    BY <2>2, <2>4, <2>5 DEF ClocksInv
<1>3. CASE now' = now /\ alive' \subseteq alive
  BY <1>1, <1>3 DEF ClocksInv
<1> QED
  BY <1>1, <1>2, <1>3 DEF Next, BeginClaim, OnClaim, OnTakeSeen, OnComplete, Walk, Crash,
     LoseEligibility

\* A packet arrives before its receiver's clock has passed its stamp by a window.
LEMMA PacketsStay ==
  ASSUME TypeOK, ClocksInv, PacketsInv, Next
  PROVE  PacketsInv'
<1> DEFINE Fits(m) == /\ m.tick <= now[m.from]
                      /\ now[m.to] <= m.tick + MaxDelay \/ now[m.to] <= m.tick + MaxSkew
                      /\ m.command = "Claim" => m.tick <= LastClaim
<1>1. \A p \in Client : now[p] \in Nat /\ now'[p] \in Nat /\ now[p] <= now'[p]
  BY ClocksStay
<1>2. \A m \in net : m.tick \in Nat /\ m.from \in Client /\ m.to \in Client
  BY DEF TypeOK, PacketType
<1>3. ClocksInv' /\ alive \subseteq Client
  BY ClocksStay DEF TypeOK
<1>4. ASSUME NEW m, m.from \in alive', m.from \in Client, m.to \in Client, m.tick = now'[m.from],
             m.command = "Claim" => m.tick <= LastClaim
      PROVE  Fits(m)'
  BY <1>1, <1>3, <1>4 DEF ClocksInv
<1>5. ASSUME net' \subseteq net, now' = now
      PROVE  PacketsInv'
  BY <1>5 DEF PacketsInv
<1>6. ASSUME NEW c \in Client, BeginClaim(c)
      PROVE  PacketsInv'
  <2>1. /\ now' = now /\ net' = net \cup ToOthers("Claim", c, now[c]) /\ now[c] <= LastClaim
        /\ c \in alive /\ alive' = alive
    BY <1>6 DEF BeginClaim
  <2>2. ASSUME NEW m \in ToOthers("Claim", c, now[c])
        PROVE  Fits(m)'
    <3>1. m.from = c /\ m.to \in Client /\ m.tick = now[c]
      BY <1>3, <2>2 DEF ToOthers, Packet
    <3> QED
      BY <1>4, <2>1, <3>1
  <2>3. \A m \in net : Fits(m)'
    BY <2>1 DEF PacketsInv
  <2> QED
    BY <2>1, <2>2, <2>3 DEF PacketsInv
<1>7. ASSUME NEW c \in Client, NEW accepted \in BOOLEAN, GameTick(c, accepted)
      PROVE  PacketsInv'
  <2> DEFINE t == now[c] + 1
             sent == ToOthers("Complete", c, t) \cup Announced(c, t, accepted)
  <2>1. net' \subseteq net \cup sent
    BY <1>7 DEF GameTick
  <2>2. now' = [now EXCEPT ![c] = t] /\ now'[c] = t /\ c \in alive /\ alive' = alive
    BY <1>7, AdvanceFacts
  <2>3. ASSUME NEW m \in sent
        PROVE  Fits(m)'
    <3>1. m.from = c /\ m.to \in Client /\ m.tick = t /\ m.command # "Claim"
      BY <1>3, <2>3 DEF ToOthers, ToAll, Announced, Packet
    <3> QED
      BY <1>4, <2>2, <3>1
  <2>4. ASSUME NEW m \in net
        PROVE  Fits(m)'
    <3>1. Fits(m)
      BY DEF PacketsInv
    <3>2. m.to # c => now'[m.to] = now[m.to]
      BY <1>2, <2>2 DEF TypeOK
    <3>3. m.to = c => now'[m.to] <= m.tick + MaxDelay
      BY <1>2, <1>7, <2>2, AdvanceFacts
    <3>4. m.tick <= now'[m.from]
      BY <1>1, <1>2, <3>1
    <3> QED
      BY <3>1, <3>2, <3>3, <3>4
  <2> HIDE DEF sent, Fits
  <2>5. \A m \in net' : Fits(m)'
    BY <2>1, <2>3, <2>4
  <2> QED
    BY <2>5 DEF PacketsInv, Fits
<1>8. ASSUME NEW m \in net, OnClaim(m) \/ OnTakeSeen(m) \/ OnComplete(m)
      PROVE  PacketsInv'
  BY <1>5, <1>8 DEF OnClaim, OnTakeSeen, OnComplete, Arrives
<1>9. ASSUME NEW c \in Client, Walk(c) \/ Crash(c) \/ LoseEligibility(c)
      PROVE  PacketsInv'
  BY <1>5, <1>9 DEF Walk, Crash, LoseEligibility
<1> QED
  BY <1>6, <1>7, <1>8, <1>9 DEF Next

\* The stamp of a claim is never taken for a dishonest one (OnClaimPacket).
LEMMA HonestStamp ==
  ASSUME TypeOK, ClocksInv, PacketsInv, NEW m \in net, m.to \in alive
  PROVE  Stamp(m.tick, now[m.to]) = m.tick
<1>1. m.tick \in Nat /\ m.from \in Client /\ m.to \in Client
  BY DEF TypeOK, PacketType
<1>2. now[m.from] \in Nat /\ now[m.to] \in Nat
  BY <1>1 DEF TypeOK
<1>3. m.tick <= now[m.from] /\ now[m.to] < m.tick + SettleTicks
  BY InTime
<1>4. now[m.from] <= now[m.to] + MaxSkew
  BY <1>1 DEF ClocksInv
<1> QED
  BY <1>1, <1>2, <1>3, <1>4, TickFacts DEF Stamp

-----------------------------------------------------------------------------
(* What a step does to an entry *)

\* A game tick leaves an entry's claims alone, and does one of these to it.
IsErased(c) ==
    /\ election'[c] = None /\ takers' = takers
    /\ election[c].executed /\ now'[c] >= election[c].retireTick

KeepsClaims(c) ==
    /\ election'[c] \in ElectionType
    /\ election'[c].claims = election[c].claims

IsKept(c) ==
    /\ KeepsClaims(c) /\ takers' = takers
    /\ election'[c].executed = election[c].executed
    /\ election'[c].excluded = election[c].excluded
    /\ election'[c].retireTick = election[c].retireTick
    /\ election'[c].closeTick = election[c].closeTick
    /\ \/ election'[c].graceTick = now'[c] + GraceTicks
       \/ election'[c].graceTick = election[c].graceTick
    /\ \/ election'[c].resolved = election[c].resolved
       \/ /\ election'[c].resolved /\ election'[c].graceTick = now'[c] + GraceTicks
          /\ \/ election[c].executed
             \/ now'[c] >= election[c].closeTick /\ Candidates(election[c]) # {}
    /\ ~election[c].resolved /\ ~election'[c].resolved => now'[c] < election[c].closeTick

IsExecuted(c) ==
    /\ KeepsClaims(c) /\ ~election[c].executed /\ election'[c].executed
    /\ election'[c].excluded = election[c].excluded
    /\ election'[c].retireTick >= ElectionKeepTicks

WinsItsWindow(c) ==
    /\ ~election[c].executed /\ ~election[c].resolved
    /\ now'[c] >= election[c].closeTick
    /\ Candidates(election[c]) # {} /\ Winner(election[c]) = c

GivesUp(c) == IsExecuted(c) /\ takers' = takers

Takes(c) == IsExecuted(c) /\ WinsItsWindow(c) /\ takers' = takers \cup {c}

PassesOn(c) ==
    /\ KeepsClaims(c) /\ WinsItsWindow(c) /\ ~MayTake(c) /\ takers' = takers
    /\ ~election'[c].executed /\ ~election'[c].resolved
    /\ election'[c].excluded = election[c].excluded \cup {c}

\* The winner has dropped out (ClaimantIsGone).
Skips(c) ==
    /\ KeepsClaims(c) /\ takers' = takers
    /\ election[c].resolved /\ ~election[c].executed /\ now'[c] >= election[c].graceTick
    /\ Candidates(election[c]) # {} /\ Winner(election[c]) \notin alive
    /\ ~election'[c].executed /\ ~election'[c].resolved
    /\ election'[c].excluded = election[c].excluded \cup {Winner(election[c])}

\* The watch on the walk does not touch what the election is decided by.
LEMMA WatchKeeps ==
  ASSUME NEW e \in ElectionType, NEW t \in Nat, NEW f, f = AfterFinish(AfterDrain(e, t), t)
  PROVE  /\ f.claims = e.claims /\ f.closeTick = e.closeTick /\ f.resolved = e.resolved
         /\ f.executed = e.executed /\ f.retireTick = e.retireTick /\ f.excluded = e.excluded
         /\ f.graceTick = e.graceTick
         /\ Candidates(f) = Candidates(e) /\ Winner(f) = Winner(e)
<1> DEFINE Same(x, y) == /\ DOMAIN x = DOMAIN y
                         /\ x.claims = y.claims /\ x.closeTick = y.closeTick
                         /\ x.resolved = y.resolved /\ x.executed = y.executed
                         /\ x.retireTick = y.retireTick /\ x.excluded = y.excluded
                         /\ x.graceTick = y.graceTick
<1>1. Same(Sample(e, t), e)
  BY DEF Sample, ElectionType
<1>2. \A x : Same(x, e) => \A n : Same([x EXCEPT !.awaitDrain = FALSE, !.finishAt = n], e)
  BY DEF ElectionType
<1>3. Same(AfterDrain(e, t), e)
  BY <1>1, <1>2 DEF AfterDrain
<1>4. \A x : Same(x, e) => Same([x EXCEPT !.finishAt = 0], e)
  BY DEF ElectionType
<1>5. Same(f, e)
  <2> HIDE DEF Same
  <2> QED BY <1>3, <1>4 DEF AfterFinish
<1>6. Candidates(f) = Candidates(e)
  BY <1>5 DEF Candidates
<1> QED
  BY <1>5, <1>6 DEF Winner

LEMMA TickedEntry ==
  ASSUME TypeOK, NEW c \in Client, NEW accepted \in BOOLEAN,
         GameTick(c, accepted), election[c] # None
  PROVE  \/ IsErased(c) \/ IsKept(c) \/ GivesUp(c) \/ Takes(c) \/ PassesOn(c)
         \/ Skips(c) /\ Winner(election[c]) \in Client \ alive
<1> DEFINE t  == now[c] + 1
           e  == election[c]
           e2 == AfterFinish(AfterDrain(e, t), t)
           d  == IF Retires(e2, t) THEN "retire" ELSE Decision(c, e2, t)
           f  == election'[c]
<1>1. e \in ElectionType /\ t \in Nat /\ now'[c] = t
  BY AdvanceFacts DEF TypeOK
<1>2. e2 \in ElectionType
  BY <1>1, AfterDrainType
<1>3. /\ e2.claims = e.claims /\ e2.closeTick = e.closeTick /\ e2.resolved = e.resolved
      /\ e2.executed = e.executed /\ e2.retireTick = e.retireTick /\ e2.excluded = e.excluded
      /\ e2.graceTick = e.graceTick
      /\ Candidates(e2) = Candidates(e) /\ Winner(e2) = Winner(e)
  BY <1>1, WatchKeeps
<1>4. f = IF d = "retire" THEN None ELSE Decided(e2, d, t)
  BY DEF GameTick, TypeOK
<1>5. takers' = IF d = "take" THEN takers \cup {c} ELSE takers
  BY DEF GameTick
<1> HIDE DEF e2
<1>6. CASE Retires(e2, t)
  BY <1>1, <1>3, <1>4, <1>5, <1>6 DEF Retires, IsErased
<1>7. CASE ~Retires(e2, t)
  <2>1. d = Decision(c, e2, t) /\ f = Decided(e2, d, t) /\ d \in Decisions
    BY <1>2, <1>4, <1>7, DecisionType DEF Decisions
  <2>2. d = "pass on" => Winner(e2) \in Client
    BY <1>2, <2>1, DecisionType
  <2>3. f \in ElectionType
    <3> HIDE DEF d, t
    <3> QED BY <1>1, <1>2, <2>1, <2>2, DecidedType
  <2> HIDE DEF d
  <2>4. CASE d \in {"stand down", "lost", "hold"}
    <3>1. f = [e2 EXCEPT !.resolved = TRUE, !.graceTick = t + GraceTicks]
      BY <2>1, <2>4 DEF Decided
    <3>2. /\ f.claims = e2.claims /\ f.executed = e2.executed /\ f.excluded = e2.excluded
          /\ f.retireTick = e2.retireTick /\ f.closeTick = e2.closeTick /\ f.resolved
          /\ f.graceTick = t + GraceTicks
      BY <1>2, <3>1 DEF ElectionType
    <3>3. \/ e.resolved
          \/ e.executed
          \/ t >= e.closeTick /\ Candidates(e) # {}
      BY <1>3, <2>1, <2>4 DEF Decision
    <3>4. e.resolved \in BOOLEAN
      BY <1>1 DEF ElectionType
    <3> QED
      BY <1>1, <1>3, <1>5, <2>3, <2>4, <3>2, <3>3, <3>4 DEF IsKept, KeepsClaims
  <2>5. CASE d = "nobody"
    <3>1. f = StandDown(e2, t) /\ ~e.executed
      BY <1>3, <2>1, <2>5 DEF Decided, Decision
    <3>2. /\ f.claims = e2.claims /\ f.executed /\ f.excluded = e2.excluded
          /\ f.retireTick = t + ElectionKeepTicks
      BY <1>2, <3>1 DEF StandDown, ElectionType
    <3> QED
      BY <1>1, <1>3, <1>5, <2>3, <2>5, <3>1, <3>2, TickFacts
         DEF GivesUp, IsExecuted, KeepsClaims
  <2>6. CASE d = "take"
    <3>1. /\ f = [StandDown(e2, t) EXCEPT
                    !.awaitDrain = TRUE, !.drainBy = t + CompleteBackstop,
                    !.liveCount = NoSample, !.lastChange = t, !.nextSample = t]
          /\ ~e.executed /\ ~e.resolved /\ t >= e.closeTick
          /\ Candidates(e) # {} /\ Winner(e) = c
      BY <1>3, <2>1, <2>6 DEF Decided, Decision
    <3>2. /\ f.claims = e2.claims /\ f.executed /\ f.excluded = e2.excluded
          /\ f.retireTick = t + ElectionKeepTicks
      BY <1>2, <3>1 DEF StandDown, ElectionType
    <3> QED
      BY <1>1, <1>3, <1>5, <2>3, <2>6, <3>1, <3>2, TickFacts
         DEF Takes, IsExecuted, KeepsClaims, WinsItsWindow
  <2>7. CASE d = "pass on"
    <3>1. f = [e2 EXCEPT !.excluded = @ \cup {Winner(e2)}, !.resolved = FALSE, !.closeTick = t]
      BY <2>1, <2>7 DEF Decided
    <3>2. f.claims = e2.claims /\ f.executed = e2.executed /\ ~f.resolved
          /\ f.excluded = e2.excluded \cup {Winner(e2)}
      BY <1>2, <3>1 DEF ElectionType
    <3>3. \/ /\ ~e2.executed /\ ~e2.resolved /\ t >= e2.closeTick
             /\ Candidates(e2) # {} /\ Winner(e2) = c
             /\ ~MayTake(c)
          \/ /\ ~e2.executed /\ e2.resolved /\ t >= e2.graceTick
             /\ Candidates(e2) # {} /\ ClaimantIsGone(Winner(e2))
      BY <2>1, <2>7 DEF Decision
    <3>4. takers' = takers
      BY <1>5, <2>7
    <3>5. CASE ~e2.resolved
      BY <1>1, <1>3, <2>3, <3>2, <3>3, <3>4, <3>5 DEF PassesOn, KeepsClaims, WinsItsWindow
    <3>6. CASE e2.resolved
      BY <1>1, <1>3, <2>2, <2>3, <2>7, <3>2, <3>3, <3>4, <3>6 DEF Skips, KeepsClaims, ClaimantIsGone
    <3> QED
      BY <3>5, <3>6
  <2>8. CASE d = "wait"
    <3>1. f = e2
      BY <2>1, <2>8 DEF Decided
    <3>2. ~(~e2.resolved /\ t >= e2.closeTick)
      BY <2>1, <2>8 DEF Decision
    <3>3. ~e.resolved => t < e.closeTick
      BY <1>1, <1>3, <3>2 DEF ElectionType
    <3> QED
      BY <1>1, <1>3, <1>5, <2>3, <2>8, <3>1, <3>3 DEF IsKept, KeepsClaims
  <2> QED
    BY <2>1, <2>4, <2>5, <2>6, <2>7, <2>8 DEF Decisions
<1> QED
  BY <1>6, <1>7

\* A claim is recorded at d, of which d has not seen the end.
Records(d, x) ==
    /\ election' = [election EXCEPT ![d] = RecordClaim(Entry(d), x.dpid, x.tick)]
    /\ now' = now /\ takers' = takers
    /\ ~(election[d] = None /\ IsOver(d))

StandsDown(d) ==
    /\ now' = now /\ takers' = takers
    /\ \A c \in Client \ {d} : election'[c] = election[c]
    /\ \/ election'[d] = election[d]
       \/ /\ election'[d] \in ElectionType
          /\ election'[d].claims = Entry(d).claims
          /\ election'[d].excluded = Entry(d).excluded
          /\ election'[d].executed
          /\ election'[d].retireTick >= ElectionKeepTicks

LEMMA NewEntryFacts ==
  /\ NewElection \in ElectionType /\ NewElection.claims = {} /\ NewElection.excluded = {}
  /\ ~NewElection.executed /\ ~NewElection.resolved
  BY NewElectionType DEF NewElection

LEMMA ReceiptStandsDown ==
  ASSUME TypeOK, NEW m \in net, OnTakeSeen(m) \/ OnComplete(m)
  PROVE  StandsDown(m.to) /\ m.to \in Client /\ net' = net \ {m} /\ m.command # "Claim"
<1> DEFINE d == m.to
           e == Entry(d)
           s == StandDown(e, now[d])
<1>1. d \in Client /\ now[d] \in Nat
  BY DEF TypeOK, PacketType
<1>2. e \in ElectionType
  BY <1>1, EntryType
<1>3. s \in ElectionType
  BY <1>1, <1>2, StandDownType
<1>4. /\ s.claims = e.claims /\ s.excluded = e.excluded /\ s.executed
      /\ s.retireTick >= ElectionKeepTicks
  BY <1>1, <1>2, TickFacts DEF StandDown, ElectionType
<1>5. now' = now /\ takers' = takers /\ net' = net \ {m} /\ m.command # "Claim"
  BY DEF OnTakeSeen, OnComplete, Arrives, walk
<1>6. CASE OnTakeSeen(m)
  <2>1. election' = election \/ election' = [election EXCEPT ![d] = s]
    BY <1>6 DEF OnTakeSeen
  <2> HIDE DEF e, s
  <2> QED BY <1>1, <1>3, <1>4, <1>5, <2>1 DEF StandsDown, TypeOK, e
<1>7. CASE OnComplete(m)
  <2> DEFINE f == [s EXCEPT !.awaitDrain = FALSE, !.finishAt = now[d] + FinishDelayTicks]
  <2>1. election' = [election EXCEPT ![d] = f]
    BY <1>7 DEF OnComplete
  <2>2. now[d] + FinishDelayTicks \in Nat
    BY <1>1, TicksInNat
  <2> HIDE DEF e, s
  <2>3. f \in ElectionType /\ f.claims = s.claims /\ f.excluded = s.excluded
        /\ f.executed = s.executed /\ f.retireTick = s.retireTick
    BY <1>3, <2>2 DEF ElectionType
  <2> HIDE DEF f
  <2> QED BY <1>1, <1>4, <1>5, <2>1, <2>3 DEF StandsDown, TypeOK, e
<1> QED
  BY <1>6, <1>7

\* What is recorded, when a claim is made and when one arrives.
LEMMA RecordsFacts ==
  ASSUME TypeOK, NEW d \in Client, NEW x \in Claims, Records(d, x)
  PROVE  /\ \A c \in Client \ {d} : election'[c] = election[c]
         /\ election'[d] \in ElectionType /\ election'[d] # None
         /\ election'[d].claims \subseteq Entry(d).claims \cup {x}
         /\ \A y \in Entry(d).claims : \E z \in election'[d].claims : Covers(z, y)
         /\ election'[d].executed = Entry(d).executed
         /\ election'[d].excluded = Entry(d).excluded
         /\ Entry(d).executed => election'[d] = Entry(d) /\ election'[d] = election[d]
         /\ ~Entry(d).executed =>
              /\ election'[d].resolved = Entry(d).resolved
              /\ \/ \E z \in election'[d].claims : Covers(z, x)
                 \/ election[d] # None /\ Entry(d).resolved /\ election'[d] = election[d]
              /\ Entry(d).claims # {} => election'[d].closeTick = Entry(d).closeTick
              /\ Entry(d).claims = {} /\ ~Entry(d).resolved =>
                   /\ x \in election'[d].claims
                   /\ x.tick + SettleTicks = election'[d].closeTick
<1> DEFINE e == Entry(d)
           r == RecordClaim(e, x.dpid, x.tick)
<1>1. e \in ElectionType /\ e.claims \in SUBSET Claims
  BY EntryType DEF ElectionType, Claims
<1>2. r \in ElectionType
  BY <1>1, ClaimFacts, RecordClaimType
<1>3. election'[d] = r /\ \A c \in Client \ {d} : election'[c] = election[c]
  BY DEF Records, TypeOK
<1>4. election'[d] # None
  BY <1>2, <1>3, NoneAssumption
<1>5. (e.executed \/ e.resolved) => election[d] # None /\ e = election[d]
  BY NewEntryFacts DEF Entry
<1>6. CASE e.executed
  <2>1. r = e
    BY <1>6 DEF RecordClaim
  <2>2. \A y \in e.claims : Covers(y, y)
    BY <1>1, ClaimFacts DEF Covers
  <2> HIDE DEF e, r
  <2> QED BY <1>2, <1>3, <1>4, <1>5, <1>6, <2>1, <2>2 DEF e
<1>7. CASE ~e.executed
  <2> HIDE DEF e
  <2>1. /\ ~r.executed
        /\ r.resolved = e.resolved /\ r.excluded = e.excluded
        /\ r.claims \subseteq e.claims \cup {x}
        /\ \A y \in e.claims : \E z \in r.claims : Covers(z, y)
        /\ \/ \E z \in r.claims : Covers(z, x)
           \/ e.resolved /\ r = e
        /\ e.claims # {} => r.closeTick = e.closeTick
        /\ e.claims = {} /\ ~e.resolved => /\ x \in r.claims
                                           /\ x.tick + SettleTicks = r.closeTick
    BY <1>1, <1>7, RecordFacts
  <2>2. e.executed = FALSE /\ r.executed = FALSE
    BY <1>1, <1>2, <1>7, <2>1 DEF ElectionType
  <2> HIDE DEF r
  <2> QED BY <1>2, <1>3, <1>4, <1>5, <1>7, <2>1, <2>2 DEF e
<1> QED
  BY <1>6, <1>7

\* A claim is made.
LEMMA BeginRecords ==
  ASSUME TypeOK, NEW c \in Client, BeginClaim(c), NEW x, x = [dpid |-> c, tick |-> now[c]]
  PROVE  /\ x \in Claims /\ Records(c, x) /\ ~Entry(c).executed
         /\ net' = net \cup ToOthers("Claim", c, now[c])
<1>1. now[c] \in Nat
  BY DEF TypeOK
<1>2. now[c] < LastClaim + SettleTicks
  BY <1>1, TickFacts DEF BeginClaim
<1>3. election[c] = None => ~IsOver(c)
  BY <1>1, <1>2, TickFacts DEF IsOver
<1>4. ~Entry(c).executed
  BY NewEntryFacts DEF BeginClaim, Entry
<1> QED
  BY <1>1, <1>3, <1>4 DEF BeginClaim, Records, Claims

\* A claim arrives.
LEMMA ReceiptRecords ==
  ASSUME TypeOK, ClocksInv, PacketsInv, NEW m \in net, OnClaim(m)
  PROVE  /\ ClaimOf(m) \in Known /\ m.to \in Client /\ Records(m.to, ClaimOf(m))
         /\ net' = net \ {m}
<1>1. m.tick \in Nat /\ m.from \in Client /\ m.to \in Client
  BY DEF TypeOK, PacketType
<1>2. ClaimOf(m) \in Known /\ ClaimOf(m) \in Claims
  BY <1>1 DEF ClaimOf, Claims, Known, OnClaim
<1>3. now[m.to] \in Nat /\ now[m.to] < LastClaim + SettleTicks
  <2>1. now[m.to] < m.tick + SettleTicks /\ m.tick <= LastClaim
    BY InTime DEF OnClaim
  <2> QED
    BY <1>1, <2>1, TickFacts DEF TypeOK
<1>4. election[m.to] = None => ~IsOver(m.to)
  BY <1>3, TickFacts DEF IsOver
<1>5. election' = [election EXCEPT ![m.to] = RecordClaim(Entry(m.to), m.from, m.tick)]
  BY HonestStamp DEF OnClaim, Arrives
<1> QED
  BY <1>1, <1>2, <1>4, <1>5 DEF Records, ClaimOf, OnClaim, Arrives

-----------------------------------------------------------------------------
(* Claims spread, and the elected one stays elected *)

LEMMA EntryHolds ==
  ASSUME TypeOK, NEW d \in Client
  PROVE  /\ \A y : y \in Entry(d).claims <=> Holds(d, y)
         /\ \A y : Holds(d, y) => y \in Claims
         /\ election[d] # None => Entry(d) = election[d]
         /\ election[d] = None => Entry(d) = NewElection
  BY NewEntryFacts DEF Entry, Holds, TypeOK, ElectionType, Claims

\* Nothing of the election changes but who may take and who is there; of the packets, those
\* to a client that drops out are lost, and of those from it the last may be.
IsQuiet ==
    /\ now' = now /\ election' = election /\ takers' = takers
    /\ alive' \subseteq alive /\ net' \subseteq net
    /\ \A m \in net : m.from \in alive' /\ m.to \in alive' => m \in net'
    /\ \A m \in net', n \in net : n.from = m.from /\ n.to = m.to /\ n.tick <= m.tick => n \in net'
    /\ alive' = alive => net' = net
    /\ \A c \in Client : ~MayTake(c) => ~MayTake(c)'

LEMMA AnyStep ==
  ASSUME TypeOK, Next
  PROVE  \/ alive' = alive /\ \E c \in Client : BeginClaim(c)
         \/ alive' = alive /\ \E m \in net : OnClaim(m)
         \/ alive' = alive /\ \E m \in net : OnTakeSeen(m) \/ OnComplete(m)
         \/ alive' = alive /\ \E c \in Client, accepted \in BOOLEAN : GameTick(c, accepted)
         \/ IsQuiet
<1>1. ASSUME NEW c \in Client, Crash(c) PROVE IsQuiet
  <2>1. /\ alive' = alive \ {c} /\ c \in alive
        /\ now' = now /\ election' = election /\ takers' = takers
        /\ eligible' = eligible /\ rejected' = rejected
    BY <1>1 DEF Crash
  <2>2. net' \subseteq net /\ \A m \in net : m.from # c /\ m.to # c => m \in net'
    BY <1>1 DEF Crash
  <2>3. \A m \in net', n \in net : n.from = m.from /\ n.to = m.to /\ n.tick <= m.tick => n \in net'
    <3>1. PICK cut \in [Client -> {m.tick : m \in {n \in net : n.from = c}} \cup {now[c] + 1}] :
             net' = {m \in net : m.to # c /\ (m.from = c => m.tick < cut[m.to])}
      BY <1>1 DEF Crash
    <3>2. /\ \A m \in net : m.tick \in Nat /\ m.to \in Client
          /\ \A d \in Client : cut[d] \in Nat
      BY <3>1 DEF TypeOK, PacketType
    <3> QED
      BY <3>1, <3>2
  <2> QED
    BY <2>1, <2>2, <2>3 DEF IsQuiet, MayTake
<1>2. ASSUME NEW c \in Client, LoseEligibility(c) PROVE IsQuiet
  <2>1. \A d \in Client : ~MayTake(d) => ~MayTake(d)'
    BY <1>2 DEF LoseEligibility, MayTake, TypeOK
  <2> QED
    BY <1>2, <2>1 DEF LoseEligibility, IsQuiet
<1>3. ASSUME NEW c \in Client, Walk(c) PROVE IsQuiet
  <2>1. \A d \in Client : ~MayTake(d) => ~MayTake(d)'
    BY <1>3 DEF Walk, MayTake
  <2> QED
    BY <1>3, <2>1 DEF Walk, IsQuiet
<1>4. ASSUME NEW c \in Client, BeginClaim(c) PROVE alive' = alive
  BY <1>4 DEF BeginClaim
<1>5. ASSUME NEW c \in Client, NEW accepted \in BOOLEAN, GameTick(c, accepted) PROVE alive' = alive
  BY <1>5 DEF GameTick
<1>6. ASSUME NEW m \in net, OnClaim(m) \/ OnTakeSeen(m) \/ OnComplete(m) PROVE alive' = alive
  BY <1>6 DEF OnClaim, OnTakeSeen, OnComplete
<1> QED
  BY <1>1, <1>2, <1>3, <1>4, <1>5, <1>6 DEF Next

\* A step in which nobody drops out.
LEMMA StepCases ==
  ASSUME TypeOK, alive = Client, alive' = Client, Next
  PROVE  \/ \E c \in Client : BeginClaim(c)
         \/ \E m \in net : OnClaim(m)
         \/ \E m \in net : OnTakeSeen(m) \/ OnComplete(m)
         \/ \E c \in Client, accepted \in BOOLEAN : GameTick(c, accepted)
         \/ /\ now' = now /\ election' = election /\ net' = net /\ takers' = takers
            /\ \A c \in Client : ~MayTake(c) => ~MayTake(c)'
BY AnyStep DEF IsQuiet

\* A claim that becomes known is one that its client makes.
LEMMA KnownSteps ==
  ASSUME TypeOK, ClocksInv, PacketsInv, Next, NEW x \in Known'
  PROVE  x \in Known \/ \E c \in Client : BeginClaim(c) /\ x = [dpid |-> c, tick |-> now[c]]
<1>0. x \in Claims /\ \/ \E c \in Client : Holds(c, x)'
                      \/ \E m \in net' : m.command = "Claim" /\ x = ClaimOf(m)
  BY DEF Known, ClaimOf
<1>1. ASSUME NEW c \in Client, BeginClaim(c)
      PROVE  x \in Known \/ x = [dpid |-> c, tick |-> now[c]]
  <2> DEFINE new == [dpid |-> c, tick |-> now[c]]
  <2>1. /\ new \in Claims /\ Records(c, new)
        /\ net' = net \cup ToOthers("Claim", c, now[c])
    BY <1>1, BeginRecords
  <2>2. \A d \in Client : Holds(d, x)' => Holds(d, x) \/ x = new
    <3> HIDE DEF new
    <3> QED BY <2>1, RecordsFacts, EntryHolds DEF Holds
  <2>3. \A m \in ToOthers("Claim", c, now[c]) : ClaimOf(m) = new
    BY DEF ToOthers, Packet, ClaimOf
  <2> HIDE DEF new
  <2> QED
    BY <1>0, <2>1, <2>2, <2>3 DEF Known, new
<1>2. ASSUME NEW m \in net, OnClaim(m)
      PROVE  x \in Known
  <2>1. ClaimOf(m) \in Known /\ m.to \in Client /\ Records(m.to, ClaimOf(m)) /\ net' = net \ {m}
    BY <1>2, ReceiptRecords
  <2>2. ClaimOf(m) \in Claims
    BY <2>1 DEF Known
  <2>3. \A d \in Client : Holds(d, x)' => Holds(d, x) \/ x = ClaimOf(m)
    BY <2>1, <2>2, RecordsFacts, EntryHolds DEF Holds
  <2> QED
    BY <1>0, <2>1, <2>3 DEF Known
<1>3. ASSUME NEW m \in net, OnTakeSeen(m) \/ OnComplete(m)
      PROVE  x \in Known
  <2>1. StandsDown(m.to) /\ m.to \in Client /\ net' = net \ {m}
    BY <1>3, ReceiptStandsDown
  <2>2. \A d \in Client : Holds(d, x)' => Holds(d, x)
    BY <2>1, EntryHolds DEF Holds, StandsDown
  <2> QED
    BY <1>0, <2>1, <2>2 DEF Known
<1>4. ASSUME NEW c \in Client, NEW accepted \in BOOLEAN, GameTick(c, accepted)
      PROVE  x \in Known
  <2>1. \A d \in Client \ {c} : election'[d] = election[d]
    BY <1>4 DEF GameTick, TypeOK
  <2>2. election[c] = None => election' = election
    BY <1>4 DEF GameTick
  <2>3. election[c] # None => election'[c] = None \/ election'[c].claims = election[c].claims
    BY <1>4, TickedEntry DEF IsErased, IsKept, GivesUp, Takes, IsExecuted, PassesOn, Skips, KeepsClaims
  <2>4. \A d \in Client : Holds(d, x)' => Holds(d, x)
    BY <2>1, <2>2, <2>3 DEF Holds
  <2>5. \A m \in net' : m.command = "Claim" => m \in net
    BY <1>4 DEF GameTick, Announced, ToOthers, ToAll, Packet
  <2> QED
    BY <1>0, <2>4, <2>5 DEF Known
<1>5. CASE election' = election /\ net' \subseteq net
  BY <1>0, <1>5 DEF Known, Holds
<1> QED
  BY <1>1, <1>2, <1>3, <1>4, <1>5, AnyStep DEF IsQuiet

\* No claim made later comes before the elected one.
LEMMA ElectedStays ==
  ASSUME TypeOK, ClocksInv, PacketsInv, alive = Client, alive' = Client, Next,
         NEW w \in Claims, Elected(w)
  PROVE  Elected(w)'
<1>1. \A p \in Client : now[p] \in Nat /\ now'[p] \in Nat /\ now[p] <= now'[p]
  BY ClocksStay
<1>2. ASSUME NEW x \in Known' PROVE x = w \/ Beats(w, x)
  <2>1. CASE x \in Known
    BY <2>1 DEF Elected
  <2>2. ASSUME NEW c \in Client, x = [dpid |-> c, tick |-> now[c]] PROVE Beats(w, x)
    BY <2>2 DEF Elected, Beats
  <2> QED
    BY <2>1, <2>2, KnownSteps
<1>3. \A p \in Client : w.tick < now'[p]
  BY <1>1, ClaimFacts DEF Elected
<1> QED
  BY <1>2, <1>3 DEF Elected, Beats

\* A client that has closed its window knows an elected claim.
LEMMA ClosedKnows ==
  ASSUME TypeOK, ElectedInv, NEW d \in Client, election[d] # None, ~Entry(d).executed,
         Entry(d).resolved \/ Entry(d).excluded # {}
  PROVE  HasClosed(d) /\ \E w \in Claims : Holds(d, w) /\ w \in Known /\ Elected(w)
<1>1. Competes(d) /\ HasClosed(d)
  BY EntryHolds DEF Competes, HasClosed
<1>2. PICK w \in Claims : Holds(d, w) /\ Elected(w)
  BY <1>1 DEF ElectedInv
<1>3. w \in Known
  BY <1>2 DEF Known
<1> QED
  BY <1>1, <1>2, <1>3

\* Recording a claim takes from d nothing that it knew of another one.
LEMMA RecordKeepsSpread ==
  ASSUME TypeOK, ElectedInv, NEW d \in Client, NEW x \in Claims, Records(d, x),
         NEW y \in Claims, NEW b \in Client, SpreadTo(y, b),
         OnItsWay(y, b) => OnItsWay(y, b)' \/ (b = d /\ x \in Known /\ Covers(x, y))
  PROVE  SpreadTo(y, b)'
<1>1. CASE b # d
  <2>1. election'[b] = election[b] /\ now' = now
    BY <1>1, RecordsFacts DEF Records
  <2> QED
    BY <1>1, <2>1 DEF SpreadTo, IsOver, Holds, HasClosed
<1>2. CASE b = d /\ Entry(d).executed
  <2>1. election[d] # None
    BY <1>2, NewEntryFacts DEF Entry
  <2>2. election'[d] = election[d] /\ election[d].executed
    BY <1>2, <2>1, RecordsFacts, EntryHolds
  <2> QED
    BY <1>2, <2>1, <2>2 DEF SpreadTo, IsOver
<1>3. CASE b = d /\ ~Entry(d).executed
  <2>1. ~IsOver(d)
    BY <1>3, EntryHolds DEF Records, IsOver
  <2>2. /\ election'[d] # None
        /\ \A z \in Entry(d).claims : \E v \in election'[d].claims : Covers(v, z)
        /\ election'[d].claims \subseteq Claims
        /\ \/ \E z \in election'[d].claims : Covers(z, x)
           \/ election[d] # None /\ Entry(d).resolved /\ election'[d] = election[d]
        /\ election'[d].resolved = Entry(d).resolved
        /\ election'[d].excluded = Entry(d).excluded
    BY <1>3, RecordsFacts DEF ElectionType, Claims
  <2>3. \A z \in Claims : Holds(d, z) => \E v \in Claims : Holds(d, v)' /\ Covers(v, z)
    BY <2>2, EntryHolds DEF Holds
  <2>4. HasClosed(d) => HasClosed(d)'
    BY <2>2, EntryHolds DEF HasClosed
  <2>5. CASE OnItsWay(y, d) /\ ~OnItsWay(y, d)'
    <3>1. Covers(x, y) /\ x \in Known
      BY <1>3, <2>5
    <3>2. CASE \E z \in election'[d].claims : Covers(z, x)
      <4>1. PICK z \in Claims : Holds(d, z)' /\ Covers(z, x)
        BY <2>2, <3>2 DEF Holds
      <4>2. Covers(z, y)
        BY <3>1, <4>1, BeatsIsOrder
      <4> QED
        BY <1>3, <4>1, <4>2 DEF SpreadTo
    <3>3. CASE election[d] # None /\ Entry(d).resolved /\ election'[d] = election[d]
      <4>1. PICK w \in Claims : Holds(d, w) /\ Elected(w)
        BY <1>3, <3>3, ClosedKnows
      <4>2. HasClosed(d)
        BY <1>3, <3>3, ClosedKnows
      <4>3. x = w \/ Beats(w, x)
        BY <3>1, <4>1 DEF Elected
      <4>4. y = w \/ Beats(w, y)
        BY <3>1, <4>3, BeatsIsOrder
      <4>5. Holds(d, w)' /\ HasClosed(d)'
        BY <2>4, <3>3, <4>1, <4>2 DEF Holds
      <4>6. y = w => Covers(w, y)
        BY ClaimFacts DEF Covers
      <4> QED
        BY <1>3, <4>4, <4>5, <4>6 DEF SpreadTo
    <3> QED
      BY <2>2, <3>2, <3>3
  <2>6. CASE OnItsWay(y, d)'
    BY <1>3, <2>6 DEF SpreadTo
  <2>7. ASSUME NEW z \in Claims, Holds(d, z), Covers(z, y) PROVE SpreadTo(y, d)'
    <3>1. PICK v \in Claims : Holds(d, v)' /\ Covers(v, z)
      BY <2>3, <2>7
    <3>2. Covers(v, y)
      BY <2>7, <3>1, BeatsIsOrder
    <3> QED
      BY <3>1, <3>2 DEF SpreadTo
  <2>8. ASSUME NEW z \in Claims, Holds(d, z), Beats(z, y), HasClosed(d) PROVE SpreadTo(y, d)'
    <3>1. PICK v \in Claims : Holds(d, v)' /\ Covers(v, z)
      BY <2>3, <2>8
    <3>2. Beats(v, y)
      BY <2>8, <3>1, BeatsIsOrder
    <3> QED
      BY <2>4, <2>8, <3>1, <3>2 DEF SpreadTo
  <2> QED
    BY <1>3, <2>1, <2>5, <2>6, <2>7, <2>8 DEF SpreadTo
<1> QED
  BY <1>1, <1>2, <1>3

\* A claim that has spread to b stays so, whatever happens.
LEMMA SpreadStays ==
  ASSUME OneRound, TypeOK, RoundInv, alive = Client, alive' = Client, Next,
         NEW y \in Claims, NEW b \in Client, SpreadTo(y, b)
  PROVE  SpreadTo(y, b)'
<1>0. ClocksInv /\ PacketsInv /\ ElectedInv /\ ExcludedInv
  BY DEF RoundInv
<1>1. ASSUME NEW c \in Client, BeginClaim(c) PROVE SpreadTo(y, b)'
  <2>1. PICK x \in Claims : Records(c, x) /\ net \subseteq net'
    BY <1>1, BeginRecords
  <2>2. OnItsWay(y, b) => OnItsWay(y, b)'
    BY <2>1 DEF OnItsWay
  <2> QED
    BY <1>0, <2>1, <2>2, RecordKeepsSpread
<1>2. ASSUME NEW m \in net, OnClaim(m) PROVE SpreadTo(y, b)'
  <2>1. ClaimOf(m) \in Known /\ m.to \in Client /\ Records(m.to, ClaimOf(m)) /\ net' = net \ {m}
    BY <1>0, <1>2, ReceiptRecords
  <2>2. ClaimOf(m) \in Claims
    BY <2>1 DEF Known
  <2>3. OnItsWay(y, b) => OnItsWay(y, b)' \/ (b = m.to /\ Covers(ClaimOf(m), y))
    BY <2>1 DEF OnItsWay
  <2> QED
    BY <1>0, <2>1, <2>2, <2>3, RecordKeepsSpread
<1>3. ASSUME NEW m \in net, OnTakeSeen(m) \/ OnComplete(m) PROVE SpreadTo(y, b)'
  <2>1. StandsDown(m.to) /\ m.to \in Client /\ net' = net \ {m} /\ m.command # "Claim"
    BY <1>3, ReceiptStandsDown
  <2>2. OnItsWay(y, b) => OnItsWay(y, b)'
    BY <2>1 DEF OnItsWay
  <2>3. CASE election'[b] = election[b]
    BY <2>1, <2>2, <2>3 DEF StandsDown, SpreadTo, IsOver, HasClosed, Holds
  <2>4. CASE election'[b] \in ElectionType /\ election'[b].executed
    BY <2>4, NoneAssumption DEF SpreadTo, IsOver
  <2> QED
    BY <2>1, <2>3, <2>4 DEF StandsDown
<1>4. ASSUME NEW c \in Client, NEW accepted \in BOOLEAN, GameTick(c, accepted)
      PROVE  SpreadTo(y, b)'
  <2>1. OnItsWay(y, b) => OnItsWay(y, b)'
    BY <1>4 DEF GameTick, OnItsWay
  <2>2. now[b] \in Nat /\ now'[b] \in Nat /\ now[b] <= now'[b]
    BY <1>0, <1>4, ClocksStay
  <2>3. CASE election'[b] = election[b]
    BY <2>1, <2>2, <2>3, TickFacts DEF SpreadTo, IsOver, HasClosed, Holds
  <2>4. CASE election'[b] # election[b]
    <3>1. b = c /\ election[c] # None
      BY <1>4, <2>4 DEF GameTick, TypeOK
    <3>2. CASE IsErased(c)
      <4>1. election[c].retireTick >= ElectionKeepTicks /\ election[c].retireTick \in Nat
        BY <1>0, <3>1, <3>2 DEF IsErased, ExcludedInv, TypeOK, ElectionType
      <4>2. now'[b] >= LastClaim + SettleTicks
        BY <2>2, <3>1, <3>2, <4>1, TickFacts DEF IsErased, OneRound
      <4> QED
        BY <3>1, <3>2, <4>2 DEF IsErased, SpreadTo, IsOver
    <3>3. CASE IsExecuted(c)
      BY <3>1, <3>3, NoneAssumption DEF IsExecuted, KeepsClaims, SpreadTo, IsOver
    <3>4. CASE IsKept(c) \/ PassesOn(c)
      <4>1. election'[c] # None /\ election'[c].claims = election[c].claims
        BY <3>4, NoneAssumption DEF IsKept, PassesOn, KeepsClaims
      <4>2. \A z : Holds(b, z) => Holds(b, z)'
        BY <3>1, <4>1 DEF Holds
      <4>3. IsOver(b) => IsOver(b)'
        BY <3>1, <3>4, <4>1 DEF IsOver, IsKept, PassesOn, WinsItsWindow
      <4>4. HasClosed(b) => HasClosed(b)'
        BY <3>1, <3>4, <4>1 DEF HasClosed, IsKept, PassesOn
      <4> QED
        BY <2>1, <4>2, <4>3, <4>4 DEF SpreadTo
    <3> QED
      BY <1>0, <1>4, <3>1, <3>2, <3>3, <3>4, TickedEntry DEF GivesUp, Takes
  <2> QED
    BY <2>3, <2>4
<1>5. CASE now' = now /\ election' = election /\ net' = net
  BY <1>5 DEF SpreadTo, IsOver, HasClosed, Holds, OnItsWay
<1> QED
  BY <1>1, <1>2, <1>3, <1>4, <1>5, StepCases

\* A claim that is made reaches all the others, and is recorded here.
LEMMA NewClaimSpreads ==
  ASSUME TypeOK, RoundInv, alive = Client, NEW c \in Client, BeginClaim(c),
         NEW x, x = [dpid |-> c, tick |-> now[c]], NEW b \in Client
  PROVE  SpreadTo(x, b)'
<1>1. /\ x \in Claims /\ Records(c, x) /\ ~Entry(c).executed
      /\ net' = net \cup ToOthers("Claim", c, now[c])
  BY BeginRecords
<1>2. CASE b # c
  <2>1. Packet("Claim", c, b, now[c]) \in net'
    BY <1>1, <1>2 DEF ToOthers
  <2>2. Covers(ClaimOf(Packet("Claim", c, b, now[c])), x)
    BY <1>1, ClaimFacts DEF Covers, ClaimOf, Packet
  <2> QED
    BY <2>1, <2>2 DEF SpreadTo, OnItsWay, Packet
<1>3. CASE b = c /\ \E z \in election'[c].claims : Covers(z, x)
  <2>1. election'[c] \in ElectionType /\ election'[c] # None
    BY <1>1, RecordsFacts
  <2> QED
    BY <1>3, <2>1 DEF SpreadTo, Holds, ElectionType, Claims
<1>4. CASE b = c /\ election[c] # None /\ Entry(c).resolved /\ election'[c] = election[c]
  <2>1. HasClosed(c) /\ \E w \in Claims : Holds(c, w) /\ Elected(w)
    BY <1>1, <1>4, ClosedKnows DEF RoundInv
  <2>2. PICK w \in Claims : Holds(c, w) /\ Elected(w)
    BY <2>1
  <2>3. Beats(w, x)
    BY <2>2 DEF Elected, Beats
  <2> QED
    BY <1>4, <2>1, <2>2, <2>3 DEF SpreadTo, HasClosed, Holds
<1> QED
  BY <1>1, <1>2, <1>3, <1>4, RecordsFacts

LEMMA SpreadInvStays ==
  ASSUME OneRound, TypeOK, RoundInv, alive = Client, alive' = Client, Next
  PROVE  SpreadInv'
<1> SUFFICES ASSUME NEW x \in Known', NEW d \in Client PROVE SpreadTo(x, d)'
  BY DEF SpreadInv
<1>1. CASE x \in Known
  <2>1. x \in Claims /\ SpreadTo(x, d)
    BY <1>1 DEF Known, RoundInv, SpreadInv
  <2> QED
    BY <2>1, SpreadStays
<1>2. CASE x \notin Known
  BY <1>2, KnownSteps, NewClaimSpreads DEF RoundInv
<1> QED
  BY <1>1, <1>2

-----------------------------------------------------------------------------
(* Closing a window *)

\* Whoever closes its window for the first time picks the elected claim: every
\* claim that has spread to it is recorded, or is stamped later.
LEMMA ClosingElects ==
  ASSUME TypeOK, RoundInv, alive = Client, NEW c \in Client, NEW accepted \in BOOLEAN,
         GameTick(c, accepted), Competes(c), ~HasClosed(c),
         now'[c] >= election[c].closeTick, Candidates(election[c]) # {}
  PROVE  \E w \in Claims :
            /\ Holds(c, w) /\ w.dpid = Winner(election[c]) /\ w \in Known /\ Elected(w)
            /\ \A x \in Claims : SpreadTo(x, c) => x = w \/ Beats(w, x)
<1> DEFINE e == election[c]
           t == now[c] + 1
<1>1. e \in ElectionType /\ e.excluded = {}
  BY DEF Competes, HasClosed, TypeOK
<1>2. Candidates(e) = e.claims
  BY <1>1 DEF Candidates
<1>3. PICK w \in e.claims : /\ w \in Claims /\ w.dpid = Winner(e)
                            /\ \A y \in e.claims : y = w \/ Beats(w, y)
  BY <1>1, <1>2, WinnerIsFirst
<1>4. Holds(c, w) /\ w \in Known
  BY <1>3 DEF Holds, Known, Competes
<1>5. now'[c] = t /\ t \in Nat /\ t >= e.closeTick /\ e.closeTick \in Nat
  BY <1>1, AdvanceFacts DEF RoundInv, TypeOK, ElectionType
<1>6. t >= w.tick + SettleTicks
  <2>1. PICK y \in Claims : Holds(c, y) /\ y.tick + SettleTicks <= e.closeTick
    BY DEF RoundInv, WindowInv
  <2>2. w.tick <= y.tick
    BY <1>3, <2>1, BeatsIsOrder, ClaimFacts DEF Holds
  <2> QED
    BY <1>3, <1>5, <2>1, <2>2, ClaimFacts, TickFacts
<1>7. ASSUME NEW x \in Claims, SpreadTo(x, c) PROVE x = w \/ Beats(w, x)
  <2>1. ~IsOver(c)
    BY DEF IsOver, Competes
  <2>2. ASSUME NEW m \in net, m.command = "Claim", m.to = c, Covers(ClaimOf(m), x)
        PROVE  Beats(w, x)
    <3>1. m.tick \in Nat /\ t <= m.tick + MaxDelay
      BY <2>2, AdvanceFacts DEF RoundInv
    <3>2. m.tick <= x.tick
      BY <2>2 DEF Covers, ClaimOf
    <3>3. w.tick < x.tick
      BY <1>3, <1>5, <1>6, <3>1, <3>2, ClaimFacts, TickFacts
    <3> QED
      BY <3>3 DEF Beats
  <2>3. ASSUME NEW y \in Claims, Holds(c, y), Covers(y, x) PROVE x = w \/ Beats(w, x)
    <3>1. w = y \/ Beats(w, y)
      BY <1>3, <2>3 DEF Holds
    <3> QED
      BY <1>3, <2>3, <3>1, BeatsIsOrder
  <2> QED
    BY <1>7, <2>1, <2>2, <2>3 DEF SpreadTo, OnItsWay
<1>8. Elected(w)
  <2>1. \A x \in Known : x = w \/ Beats(w, x)
    BY <1>7 DEF RoundInv, SpreadInv, Known
  <2>2. ASSUME NEW p \in Client PROVE w.tick < now[p]
    <3>1. now[c] < now[p] + MaxSkew /\ now[p] \in Nat /\ now[c] \in Nat
      BY AdvanceFacts DEF RoundInv
    <3> QED
      BY <1>3, <1>6, <3>1, ClaimFacts, TickFacts
  <2> QED
    BY <2>1, <2>2 DEF Elected
<1> QED
  BY <1>3, <1>4, <1>7, <1>8

LEMMA ElectedInvStays ==
  ASSUME OneRound, TypeOK, RoundInv, alive = Client, alive' = Client, Next
  PROVE  ElectedInv'
<1>0. ClocksInv /\ PacketsInv /\ ElectedInv
  BY DEF RoundInv
<1> SUFFICES ASSUME NEW c \in Client, Competes(c)', HasClosed(c)'
             PROVE  \E w \in Claims : Holds(c, w)' /\ Elected(w)'
  BY DEF ElectedInv
<1>1. \A w \in Claims : Elected(w) => Elected(w)'
  BY <1>0, ElectedStays
<1>2. CASE Competes(c) /\ HasClosed(c) /\ \A w : Holds(c, w) => Holds(c, w)'
  BY <1>0, <1>1, <1>2 DEF ElectedInv
<1>3. ASSUME NEW d \in Client, NEW x \in Claims, Records(d, x)
      PROVE  \E w \in Claims : Holds(c, w)' /\ Elected(w)'
  <2>1. CASE c # d
    <3>1. election'[c] = election[c]
      BY <1>3, <2>1, RecordsFacts
    <3> QED
      BY <1>2, <3>1 DEF Competes, HasClosed, Holds
  <2>2. CASE c = d
    <3>1. /\ ~Entry(c).executed /\ (Entry(c).resolved \/ Entry(c).excluded # {})
          /\ \A y \in Entry(c).claims : \E z \in election'[c].claims : Covers(z, y)
          /\ election'[c].claims \subseteq Claims
      BY <1>3, <2>2, RecordsFacts DEF Competes, HasClosed, ElectionType, Claims
    <3>2. election[c] # None
      BY <3>1, NewEntryFacts DEF Entry
    <3>3. PICK w \in Claims : Holds(c, w) /\ Elected(w)
      BY <1>0, <3>1, <3>2, ClosedKnows
    <3>4. PICK z \in Claims : Holds(c, z)' /\ Covers(z, w)
      BY <3>1, <3>3, EntryHolds DEF Holds, Competes
    <3>5. w = z \/ Beats(w, z)
      BY <1>1, <3>3, <3>4 DEF Elected, Known
    <3>6. w = z
      BY <3>4, <3>5, BeatsIsOrder
    <3> QED
      BY <1>1, <3>3, <3>4, <3>6
  <2> QED
    BY <2>1, <2>2
<1>4. ASSUME NEW e \in Client, BeginClaim(e)
      PROVE  \E w \in Claims : Holds(c, w)' /\ Elected(w)'
  BY <1>3, <1>4, BeginRecords
<1>5. ASSUME NEW m \in net, OnClaim(m)
      PROVE  \E w \in Claims : Holds(c, w)' /\ Elected(w)'
  BY <1>0, <1>3, <1>5, ReceiptRecords DEF Known
<1>6. ASSUME NEW m \in net, OnTakeSeen(m) \/ OnComplete(m)
      PROVE  \E w \in Claims : Holds(c, w)' /\ Elected(w)'
  <2>1. election'[c] = election[c]
    BY <1>6, ReceiptStandsDown DEF StandsDown, Competes
  <2> QED
    BY <1>2, <2>1 DEF Competes, HasClosed, Holds
<1>7. ASSUME NEW d \in Client, NEW accepted \in BOOLEAN, GameTick(d, accepted)
      PROVE  \E w \in Claims : Holds(c, w)' /\ Elected(w)'
  <2>1. CASE election'[c] = election[c]
    BY <1>2, <2>1 DEF Competes, HasClosed, Holds
  <2>2. CASE election'[c] # election[c]
    <3>1. c = d /\ election[c] # None
      BY <1>7, <2>2 DEF GameTick, TypeOK
    <3>2. IsKept(c) \/ PassesOn(c)
      BY <1>0, <1>7, <3>1, TickedEntry
         DEF IsErased, GivesUp, Takes, IsExecuted, Competes
    <3>3. Competes(c) /\ \A w : Holds(c, w) => Holds(c, w)'
      BY <3>1, <3>2 DEF Competes, Holds, IsKept, PassesOn, WinsItsWindow, KeepsClaims
    <3>4. CASE ~HasClosed(c)
      <4>1. now'[c] >= election[c].closeTick /\ Candidates(election[c]) # {}
        BY <3>1, <3>2, <3>3, <3>4
           DEF Competes, HasClosed, IsKept, PassesOn, WinsItsWindow
      <4> QED
        BY <1>1, <1>7, <3>1, <3>3, <3>4, <4>1, ClosingElects
    <3> QED
      BY <1>2, <3>3, <3>4
  <2> QED
    BY <2>1, <2>2
<1>8. CASE election' = election
  BY <1>2, <1>8 DEF Competes, HasClosed, Holds
<1> QED
  BY <1>4, <1>5, <1>6, <1>7, <1>8, StepCases

LEMMA WindowInvStays ==
  ASSUME OneRound, TypeOK, RoundInv, alive = Client, alive' = Client, Next
  PROVE  WindowInv'
<1>0. ClocksInv /\ PacketsInv /\ WindowInv
  BY DEF RoundInv
<1> DEFINE Opened(c) == \E x \in Claims : /\ Holds(c, x)
                                          /\ x.tick + SettleTicks <= election[c].closeTick
<1> SUFFICES ASSUME NEW c \in Client, Competes(c)', ~HasClosed(c)' PROVE Opened(c)'
  BY DEF WindowInv
<1>1. CASE election'[c] = election[c]
  BY <1>0, <1>1 DEF WindowInv, Competes, HasClosed, Holds
<1>2. ASSUME NEW d \in Client, NEW x \in Claims, Records(d, x) PROVE Opened(c)'
  <2>1. CASE c # d
    BY <1>1, <1>2, <2>1, RecordsFacts
  <2>2. CASE c = d
    <3>1. /\ election'[c] \in ElectionType /\ election'[c] # None
          /\ election'[c].claims \subseteq Claims
          /\ ~Entry(c).executed /\ ~Entry(c).resolved /\ Entry(c).excluded = {}
          /\ \A y \in Entry(c).claims : \E z \in election'[c].claims : Covers(z, y)
          /\ Entry(c).claims # {} => election'[c].closeTick = Entry(c).closeTick
          /\ Entry(c).claims = {} => /\ x \in election'[c].claims
                                     /\ x.tick + SettleTicks = election'[c].closeTick
      BY <1>2, <2>2, RecordsFacts DEF Competes, HasClosed, ElectionType, Claims
    <3>2. election'[c].closeTick \in Nat /\ x.tick + SettleTicks \in Nat
      BY <3>1, ClaimFacts, TickFacts DEF ElectionType
    <3>3. CASE Entry(c).claims = {}
      BY <3>1, <3>2, <3>3 DEF Holds
    <3>4. CASE Entry(c).claims # {}
      <4>1. election[c] # None /\ Entry(c) = election[c]
        BY <3>4, EntryHolds, NewEntryFacts
      <4>2. PICK y \in Claims : Holds(c, y) /\ y.tick + SettleTicks <= election[c].closeTick
        BY <1>0, <3>1, <4>1 DEF WindowInv, Competes, HasClosed
      <4>3. PICK z \in Claims : Holds(c, z)' /\ Covers(z, y)
        BY <3>1, <4>1, <4>2 DEF Holds
      <4>4. z.tick + SettleTicks <= election'[c].closeTick
        BY <3>1, <3>2, <3>4, <4>1, <4>2, <4>3, ClaimFacts, TickFacts DEF Covers
      <4> QED
        BY <4>3, <4>4
    <3> QED
      BY <3>3, <3>4
  <2> QED
    BY <2>1, <2>2
<1>3. ASSUME NEW e \in Client, BeginClaim(e) PROVE Opened(c)'
  <2> HIDE DEF Opened
  <2> QED BY <1>2, <1>3, BeginRecords
<1>4. ASSUME NEW m \in net, OnClaim(m) PROVE Opened(c)'
  <2> HIDE DEF Opened
  <2> QED BY <1>0, <1>2, <1>4, ReceiptRecords DEF Known
<1>5. ASSUME NEW m \in net, OnTakeSeen(m) \/ OnComplete(m) PROVE Opened(c)'
  <2>1. election'[c] = election[c]
    BY <1>5, ReceiptStandsDown DEF StandsDown, Competes
  <2> QED
    BY <1>1, <2>1
<1>6. ASSUME NEW d \in Client, NEW accepted \in BOOLEAN, GameTick(d, accepted)
      PROVE  Opened(c)'
  <2>1. CASE election'[c] # election[c]
    <3>1. c = d /\ election[c] # None
      BY <1>6, <2>1 DEF GameTick, TypeOK
    <3>2. IsKept(c)
      BY <1>0, <1>6, <3>1, TickedEntry
         DEF IsErased, GivesUp, Takes, IsExecuted, Competes, PassesOn, HasClosed
    <3>3. /\ election'[c] # None /\ election'[c].claims = election[c].claims
          /\ election'[c].closeTick = election[c].closeTick
      BY <3>2 DEF IsKept, KeepsClaims, Competes
    <3>4. Competes(c) /\ ~HasClosed(c)
      BY <3>1, <3>2 DEF IsKept, Competes, HasClosed
    <3> QED
      BY <1>0, <3>3, <3>4 DEF WindowInv, Holds
  <2> QED
    BY <1>1, <2>1
<1>7. CASE election' = election
  BY <1>1, <1>7
<1> QED
  <2> HIDE DEF Opened
  <2> QED BY <1>3, <1>4, <1>5, <1>6, <1>7, StepCases

\* A client that may no longer take never may again (MayTake).
LEMMA RefusalStays ==
  ASSUME TypeOK, Next, NEW c \in Client, ~MayTake(c)
  PROVE  ~MayTake(c)'
<1>1. CASE eligible' = eligible /\ rejected \subseteq rejected'
  BY <1>1 DEF MayTake
<1>2. ASSUME NEW d \in Client, NEW accepted \in BOOLEAN, GameTick(d, accepted)
      PROVE  ~MayTake(c)'
  BY <1>1, <1>2 DEF GameTick
<1> QED
  BY <1>1, <1>2, AnyStep DEF BeginClaim, OnClaim, OnTakeSeen, OnComplete, IsQuiet

LEMMA ExcludedInvStays ==
  ASSUME OneRound, TypeOK, RoundInv, alive = Client, alive' = Client, Next
  PROVE  ExcludedInv'
<1>0. ClocksInv /\ PacketsInv /\ ExcludedInv
  BY DEF RoundInv
<1> DEFINE Fair(c) == /\ election[c].excluded \subseteq {c}
                      /\ election[c].excluded # {} => ~MayTake(c)
                      /\ election[c].executed => election[c].retireTick >= ElectionKeepTicks
<1> SUFFICES ASSUME NEW c \in Client, election'[c] # None PROVE Fair(c)'
  BY DEF ExcludedInv
<1>1. ~MayTake(c) => ~MayTake(c)'
  BY RefusalStays
<1>2. /\ Entry(c).excluded \subseteq {c}
      /\ Entry(c).excluded # {} => ~MayTake(c)'
      /\ Entry(c).executed => Entry(c).retireTick >= ElectionKeepTicks
  BY <1>0, <1>1, NewEntryFacts DEF ExcludedInv, Entry
<1>3. CASE election'[c] = election[c]
  BY <1>2, <1>3, EntryHolds
<1>4. ASSUME NEW d \in Client, NEW x \in Claims, Records(d, x) PROVE Fair(c)'
  <2>1. CASE c # d
    BY <1>3, <1>4, <2>1, RecordsFacts
  <2>2. CASE c = d
    BY <1>2, <1>4, <2>2, RecordsFacts
  <2> QED
    BY <2>1, <2>2
<1>5. ASSUME NEW e \in Client, BeginClaim(e) PROVE Fair(c)'
  <2> HIDE DEF Fair
  <2> QED BY <1>4, <1>5, BeginRecords
<1>6. ASSUME NEW m \in net, OnClaim(m) PROVE Fair(c)'
  <2> HIDE DEF Fair
  <2> QED BY <1>0, <1>4, <1>6, ReceiptRecords DEF Known
<1>7. ASSUME NEW m \in net, OnTakeSeen(m) \/ OnComplete(m) PROVE Fair(c)'
  <2>1. \/ election'[c] = election[c]
        \/ /\ election'[c].excluded = Entry(c).excluded
           /\ election'[c].retireTick >= ElectionKeepTicks
    BY <1>7, ReceiptStandsDown DEF StandsDown
  <2> QED
    BY <1>2, <1>3, <2>1
<1>8. ASSUME NEW d \in Client, NEW accepted \in BOOLEAN, GameTick(d, accepted)
      PROVE  Fair(c)'
  <2>1. CASE election'[c] # election[c]
    <3>1. c = d /\ election[c] # None /\ Entry(c) = election[c]
      BY <1>8, <2>1, EntryHolds DEF GameTick, TypeOK
    <3>2. IsKept(c) \/ IsExecuted(c) \/ PassesOn(c)
      BY <1>0, <1>8, <3>1, TickedEntry DEF IsErased, GivesUp, Takes
    <3> QED
      BY <1>1, <1>2, <3>1, <3>2 DEF IsKept, IsExecuted, PassesOn
  <2> QED
    BY <1>3, <2>1
<1>9. CASE election' = election
  BY <1>3, <1>9
<1> QED
  <2> HIDE DEF Fair
  <2> QED BY <1>5, <1>6, <1>7, <1>8, <1>9, StepCases

\* The '.take' is that of the elected claim, of which there is one.
LEMMA TakersStay ==
  ASSUME OneRound, TypeOK, RoundInv, alive = Client, alive' = Client, Next
  PROVE  TakersInv' /\ OneTaker'
<1>0. ClocksInv /\ PacketsInv /\ TakersInv /\ OneTaker /\ takers \subseteq Client
  BY DEF RoundInv, TypeOK
<1>1. ASSUME NEW w \in Claims, Elected(w), \A d \in Client : SpreadTo(w, d)
      PROVE  Elected(w)' /\ \A d \in Client : SpreadTo(w, d)'
  BY <1>0, <1>1, ElectedStays, SpreadStays
<1>2. CASE takers' = takers
  BY <1>0, <1>1, <1>2 DEF TakersInv, OneTaker
<1>3. ASSUME NEW c \in Client, NEW accepted \in BOOLEAN, GameTick(c, accepted),
             election[c] # None, Takes(c)
      PROVE  TakersInv' /\ OneTaker'
  <2>1. takers' = takers \cup {c} /\ WinsItsWindow(c)
    BY <1>3 DEF Takes
  <2>2. election[c].excluded = {}
    <3>1. election[c] \in ElectionType /\ election[c].excluded \subseteq {c}
      BY <1>3 DEF RoundInv, ExcludedInv, TypeOK
    <3>2. c \notin election[c].excluded
      BY <2>1, <3>1, WinnerIsCandidate DEF WinsItsWindow, Candidates
    <3> QED
      BY <3>1, <3>2
  <2>3. Competes(c) /\ ~HasClosed(c)
    BY <1>3, <2>1, <2>2 DEF Competes, HasClosed, WinsItsWindow
  <2>4. PICK w \in Claims : /\ w.dpid = c /\ w \in Known /\ Elected(w)
                            /\ \A x \in Claims : SpreadTo(x, c) => x = w \/ Beats(w, x)
    BY <1>3, <2>1, <2>3, ClosingElects DEF WinsItsWindow
  <2>5. \A d \in Client : SpreadTo(w, d)
    BY <2>4 DEF RoundInv, SpreadInv
  <2>6. TakersInv'
    BY <1>0, <1>1, <2>1, <2>4, <2>5 DEF TakersInv
  <2>7. ASSUME NEW k \in takers PROVE k = c
    <3>1. PICK v \in Claims : v.dpid = k /\ Elected(v) /\ SpreadTo(v, c)
      BY <1>0, <2>7 DEF TakersInv
    <3>2. v = w \/ Beats(w, v)
      BY <2>4, <3>1
    <3>3. w = v \/ Beats(v, w)
      BY <2>4, <3>1 DEF Elected
    <3> QED
      BY <2>4, <3>1, <3>2, <3>3, BeatsIsOrder
  <2> QED
    BY <2>1, <2>6, <2>7 DEF OneTaker
<1>4. ASSUME NEW c \in Client, NEW accepted \in BOOLEAN, GameTick(c, accepted)
      PROVE  TakersInv' /\ OneTaker'
  <2>1. election[c] = None => takers' = takers
    BY <1>4 DEF GameTick
  <2>2. election[c] # None => takers' = takers \/ Takes(c)
    BY <1>0, <1>4, TickedEntry DEF IsErased, IsKept, GivesUp, PassesOn
  <2> QED
    BY <1>2, <1>3, <1>4, <2>1, <2>2
<1> QED
  BY <1>2, <1>4, StepCases DEF BeginClaim, OnClaim, OnTakeSeen, OnComplete

-----------------------------------------------------------------------------
(* The theorems *)

LEMMA InitialRound == Init => RoundInv
<1> SUFFICES ASSUME Init PROVE RoundInv
  OBVIOUS
<1>1. Known = {}
  BY DEF Init, Known, Holds
<1>2. ClocksInv
  BY TickFacts DEF Init, ClocksInv
<1> QED
  BY <1>1, <1>2 DEF Init, RoundInv, PacketsInv, WindowInv, SpreadInv, ElectedInv, ExcludedInv,
     TakersInv, OneTaker, Competes

LEMMA WinnerInvStays ==
  ASSUME OneRound, TypeOK, WinnerInv, [Next]_vars
  PROVE  WinnerInv'
<1>1. CASE Next
  <2> SUFFICES ASSUME alive' = Client PROVE RoundInv'
    BY DEF WinnerInv
  <2>1. alive = Client
    BY <1>1 DEF Next, BeginClaim, OnClaim, OnTakeSeen, OnComplete, GameTick, Walk, Crash,
       LoseEligibility, TypeOK
  <2>2. RoundInv
    BY <2>1 DEF WinnerInv
  <2>3. ClocksInv' /\ PacketsInv'
    BY <1>1, <2>1, <2>2, ClocksStay, PacketsStay DEF RoundInv
  <2> QED
    BY <1>1, <2>1, <2>2, <2>3, WindowInvStays, SpreadInvStays, ElectedInvStays,
       ExcludedInvStays, TakersStay DEF RoundInv
<1>2. CASE UNCHANGED vars
  <2>1. /\ now' = now /\ election' = election /\ net' = net /\ takers' = takers
        /\ alive' = alive /\ eligible' = eligible /\ rejected' = rejected
    BY <1>2 DEF vars
  <2>2. \A c, x : Holds(c, x)' <=> Holds(c, x)
    BY <2>1 DEF Holds
  <2>3. Known' = Known
    BY <2>1, <2>2 DEF Known
  <2>4. \A w : Elected(w)' <=> Elected(w)
    BY <2>1, <2>3 DEF Elected
  <2>5. \A c : /\ IsOver(c)' <=> IsOver(c)
               /\ Competes(c)' <=> Competes(c)
               /\ HasClosed(c)' <=> HasClosed(c)
               /\ MayTake(c)' <=> MayTake(c)
    BY <2>1 DEF IsOver, Competes, HasClosed, MayTake
  <2>6. \A x, d : SpreadTo(x, d)' <=> SpreadTo(x, d)
    BY <2>1, <2>2, <2>5 DEF SpreadTo, OnItsWay
  <2>7. ClocksInv /\ PacketsInv /\ ExcludedInv /\ OneTaker =>
          ClocksInv' /\ PacketsInv' /\ ExcludedInv' /\ OneTaker'
    BY <2>1, <2>5 DEF ClocksInv, PacketsInv, ExcludedInv, OneTaker
  <2>8. WindowInv => WindowInv'
    BY <2>1, <2>2, <2>5 DEF WindowInv
  <2>9. ElectedInv /\ SpreadInv /\ TakersInv => ElectedInv' /\ SpreadInv' /\ TakersInv'
    BY <2>1, <2>2, <2>3, <2>4, <2>5, <2>6 DEF ElectedInv, SpreadInv, TakersInv
  <2> QED
    BY <2>1, <2>7, <2>8, <2>9 DEF WinnerInv, RoundInv
<1> QED
  BY <1>1, <1>2

\* Two clients that wait for a winner wait for the same one, or one of them is
\* the winner of both and may no longer take.
LEMMA RoundHasOneWinner ==
  ASSUME TypeOK, alive = Client, RoundInv
  PROVE  SameWinner
<1> SUFFICES ASSUME NEW c \in alive, NEW d \in alive, NEW v \in alive, NEW w \in alive,
                    WaitsFor(c, v), WaitsFor(d, w), MayTake(v), MayTake(w)
             PROVE  v = w
  BY DEF SameWinner
<1>1. ASSUME NEW b \in Client, NEW u \in Client, WaitsFor(b, u)
      PROVE  \E x \in Known : /\ Elected(x)
                              /\ x.dpid = u \/ (x.dpid = b /\ ~MayTake(b))
  <2> DEFINE e == election[b]
  <2>1. /\ election[b] # None /\ e \in ElectionType /\ e.resolved /\ ~e.executed
        /\ Candidates(e) # {} /\ Winner(e) = u
    BY <1>1 DEF WaitsFor, Waits, TypeOK
  <2>2. PICK x \in Claims : Holds(b, x) /\ x \in Known /\ Elected(x)
    BY <2>1, ClosedKnows, EntryHolds DEF RoundInv
  <2>3. CASE x \in Candidates(e)
    <3>1. PICK y \in Candidates(e) : /\ y \in Claims /\ y.dpid = u
                                     /\ \A z \in Candidates(e) : z = y \/ Beats(y, z)
      BY <2>1, WinnerIsFirst
    <3>2. y \in Known
      BY <2>1, <3>1 DEF Candidates, Known, Holds
    <3>3. x = y
      BY <2>2, <2>3, <3>1, <3>2, BeatsIsOrder DEF Elected
    <3> QED
      BY <2>2, <3>1, <3>3
  <2>4. CASE x \notin Candidates(e)
    <3>1. x.dpid \in e.excluded
      BY <2>2, <2>4 DEF Candidates, Holds
    <3>2. e.excluded \subseteq {b} /\ (e.excluded # {} => ~MayTake(b))
      BY <2>1 DEF RoundInv, ExcludedInv
    <3> QED
      BY <2>2, <3>1, <3>2
  <2> QED
    BY <2>3, <2>4
<1>2. c \in Client /\ d \in Client /\ v \in Client /\ w \in Client
  OBVIOUS
<1>3. PICK x \in Known : Elected(x) /\ (x.dpid = v \/ (x.dpid = c /\ ~MayTake(c)))
  BY <1>1, <1>2
<1>4. PICK y \in Known : Elected(y) /\ (y.dpid = w \/ (y.dpid = d /\ ~MayTake(d)))
  BY <1>1, <1>2
<1>5. x = y
  BY <1>3, <1>4, OneElected
<1>6. c = d => v = w
  BY DEF WaitsFor
<1> QED
  BY <1>3, <1>4, <1>5, <1>6

\* As long as nobody drops out and the claims are of one round, the base is
\* handed out once: at most one client emits a '.take' of the target, however
\* late, skewed, refused or declined (TakeClaim.cpp, kSettleTicks, PickWinner).
THEOREM OneTakerHolds ==
  ASSUME OneRound
  PROVE  Spec => [](alive = Client => OneTaker)
<1>1. Init => WinnerInv
  BY InitialRound DEF WinnerInv
<1>2. TypeOK /\ WinnerInv /\ [Next]_vars => WinnerInv'
  BY WinnerInvStays
<1>3. WinnerInv => (alive = Client => OneTaker)
  BY DEF WinnerInv, RoundInv
<1> QED
  BY <1>1, <1>2, <1>3, TypeInvariant, PTL DEF Spec

\* Under the same conditions, clients that have closed their windows and wait
\* for somebody who may take wait for the same one, without a message between
\* them (PickWinner on the claims each of them has heard, in any order).
THEOREM SameWinnerHolds ==
  ASSUME OneRound
  PROVE  Spec => [](alive = Client => SameWinner)
<1>1. Init => WinnerInv
  BY InitialRound DEF WinnerInv
<1>2. TypeOK /\ WinnerInv /\ [Next]_vars => WinnerInv'
  BY WinnerInvStays
<1>3. TypeOK /\ WinnerInv => (alive = Client => SameWinner)
  BY RoundHasOneWinner DEF WinnerInv
<1> QED
  BY <1>1, <1>2, <1>3, TypeInvariant, PTL DEF Spec
-----------------------------------------------------------------------------
(* The Complete *)

\* What the taker knows of the walk (TransferQuiescent): its last count is no
\* lower than what is left, and if it is the same, nothing was handed over since.
Watches(c) ==
    /\ c \in takers /\ c \in walking
    /\ election[c].liveCount >= TargetLiveUnits
    /\ election[c].liveCount = TargetLiveUnits => walked <= election[c].lastChange

DrainInv ==
    /\ \A m \in net : m.command = "take" => m.from \in takers
    /\ \A c \in takers \cap alive : walked <= now[c]
    /\ \A c \in alive : election[c] # None /\ election[c].awaitDrain => Watches(c)

\* No '.take' of another, which would abort its walk, is on its way to a taker.
Unrivalled == \A m \in net : m.command = "take" /\ m.to \in takers \cap alive => m.from = m.to

CompleteInv == alive = Client => DrainInv

\* A tick of a watching taker samples the walk; a take starts the watch.
LEMMA WatchedEntry ==
  ASSUME TypeOK, NEW c \in Client, NEW accepted \in BOOLEAN,
         GameTick(c, accepted), election[c] # None, NEW f, f = election'[c],
         f # None, f.awaitDrain
  PROVE  \/ /\ f.liveCount = NoSample /\ c \in takers'
            /\ walking' = IF accepted THEN walking \cup {c} ELSE walking
            /\ walked' = now'[c]
         \/ /\ election[c].awaitDrain /\ walking' = walking /\ walked' = walked
            /\ takers' = takers
            /\ f.liveCount = Sample(election[c], now'[c]).liveCount
            /\ f.lastChange = Sample(election[c], now'[c]).lastChange
<1> DEFINE t  == now[c] + 1
           e  == election[c]
           e1 == Sample(e, t)
           e2 == AfterFinish(AfterDrain(e, t), t)
           d  == IF Retires(e2, t) THEN "retire" ELSE Decision(c, e2, t)
<1>1. e \in ElectionType /\ t \in Nat /\ now'[c] = t
  BY AdvanceFacts DEF TypeOK
<1>2. e2 \in ElectionType
  BY <1>1, AfterDrainType
<1>3. e2.awaitDrain => /\ e.awaitDrain
                       /\ e2.liveCount = e1.liveCount /\ e2.lastChange = e1.lastChange
  <2>1. "awaitDrain" \in DOMAIN e /\ "finishAt" \in DOMAIN e
    BY <1>1 DEF ElectionType
  <2>2. e1.awaitDrain = e.awaitDrain /\ DOMAIN e1 = DOMAIN e
    BY <2>1 DEF Sample
  <2>3. AfterDrain(e, t).awaitDrain =>
          /\ e.awaitDrain /\ AfterDrain(e, t) = e1
    <3>1. [e1 EXCEPT !.awaitDrain = FALSE, !.finishAt = t + FinishDelayTicks].awaitDrain = FALSE
      BY <2>1, <2>2
    <3> HIDE DEF e1
    <3> QED BY <3>1 DEF AfterDrain, e1
  <2>4. \A x : x.awaitDrain = AfterFinish(x, t).awaitDrain
               /\ x.liveCount = AfterFinish(x, t).liveCount
               /\ x.lastChange = AfterFinish(x, t).lastChange
    BY DEF AfterFinish
  <2> QED
    BY <2>3, <2>4
<1>4. f = IF d = "retire" THEN None ELSE Decided(e2, d, t)
  BY DEF GameTick, TypeOK
<1>5. /\ takers' = IF d = "take" THEN takers \cup {c} ELSE takers
      /\ walking' = IF d = "take" /\ accepted THEN walking \cup {c} ELSE walking
      /\ walked' = IF d = "take" THEN t ELSE walked
  BY DEF GameTick
<1> HIDE DEF e2, e1
<1>6. d = Decision(c, e2, t) /\ f = Decided(e2, d, t) /\ d \in Decisions
  BY <1>2, <1>4, DecisionType DEF Decisions
<1> HIDE DEF d
<1>7. CASE d = "take"
  <2>1. f = [StandDown(e2, t) EXCEPT
               !.awaitDrain = TRUE, !.drainBy = t + CompleteBackstop,
               !.liveCount = NoSample, !.lastChange = t, !.nextSample = t]
    BY <1>6, <1>7 DEF Decided
  <2>2. f.liveCount = NoSample
    BY <1>2, <2>1 DEF StandDown, ElectionType
  <2> QED
    BY <1>1, <1>5, <1>7, <2>2
<1>8. CASE d # "take"
  <2>1. /\ f.awaitDrain = e2.awaitDrain /\ f.liveCount = e2.liveCount
        /\ f.lastChange = e2.lastChange
    BY <1>2, <1>6, <1>8 DEF Decisions, Decided, StandDown, ElectionType
  <2> QED
    BY <1>1, <1>3, <1>5, <1>8, <2>1 DEF e1
<1> QED
  BY <1>7, <1>8

\* The other steps leave the watch of an entry alone, or end it.
LEMMA WatchStays ==
  ASSUME TypeOK, Next, NEW c \in Client,
         \A accepted \in BOOLEAN : ~GameTick(c, accepted),
         election'[c] # None, election'[c].awaitDrain
  PROVE  /\ election[c] # None /\ election[c].awaitDrain
         /\ election'[c].liveCount = election[c].liveCount
         /\ election'[c].lastChange = election[c].lastChange
<1> DEFINE Same(x, y) == /\ x.awaitDrain = y.awaitDrain /\ x.liveCount = y.liveCount
                         /\ x.lastChange = y.lastChange
<1>1. \A p, tick : Same(RecordClaim(Entry(c), p, tick), Entry(c))
  BY DEF RecordClaim
<1>2. \A t : Same(StandDown(Entry(c), t), Entry(c))
  BY DEF StandDown
<1>3. \A t : ~[StandDown(Entry(c), t) EXCEPT
                   !.awaitDrain = FALSE, !.finishAt = t + FinishDelayTicks].awaitDrain
  BY EntryType DEF StandDown, ElectionType
<1>4. ~NewElection.awaitDrain
  BY DEF NewElection
<1>5. CASE Same(election'[c], Entry(c))
  BY <1>4, <1>5 DEF Entry
<1>6. CASE election'[c] = election[c]
  BY <1>6
<1>7. ASSUME NEW d \in Client, NEW e, election' = [election EXCEPT ![d] = e],
             d = c => Same(e, Entry(c))
      PROVE  election'[c] = election[c] \/ Same(election'[c], Entry(c))
  <2>1. CASE d # c
    BY <1>7, <2>1 DEF TypeOK
  <2>2. CASE d = c
    <3>1. election'[c] = e
      BY <1>7, <2>2 DEF TypeOK
    <3> QED
      BY <1>7, <2>2, <3>1
  <2> QED
    BY <2>1, <2>2
<1> HIDE DEF Same
<1>8. ASSUME NEW d \in Client, BeginClaim(d)
      PROVE  election'[c] = election[c] \/ Same(election'[c], Entry(c))
  <2>1. d = c => Same(RecordClaim(Entry(d), d, now[d]), Entry(c))
    BY <1>1
  <2> QED
    BY <1>7, <1>8, <2>1 DEF BeginClaim
<1>9. ASSUME NEW m \in net, OnClaim(m)
      PROVE  election'[c] = election[c] \/ Same(election'[c], Entry(c))
  <2>1. m.to \in Client
    BY DEF TypeOK, PacketType
  <2>2. m.to = c => Same(RecordClaim(Entry(m.to), m.from, Stamp(m.tick, now[m.to])), Entry(c))
    BY <1>1
  <2> QED
    BY <1>7, <1>9, <2>1, <2>2 DEF OnClaim
<1>10. ASSUME NEW m \in net, OnTakeSeen(m)
       PROVE  election'[c] = election[c] \/ Same(election'[c], Entry(c))
  <2>1. m.to \in Client
    BY DEF TypeOK, PacketType
  <2>2. m.to = c => Same(StandDown(Entry(m.to), now[m.to]), Entry(c))
    BY <1>2
  <2> QED
    BY <1>7, <1>10, <2>1, <2>2 DEF OnTakeSeen
<1>11. ASSUME NEW m \in net, OnComplete(m) PROVE election'[c] = election[c]
  BY <1>3, <1>11 DEF OnComplete, TypeOK
<1>12. ASSUME NEW d \in Client, NEW accepted \in BOOLEAN, GameTick(d, accepted)
       PROVE  election'[c] = election[c]
  BY <1>12 DEF GameTick, TypeOK
<1> QED
  BY <1>5, <1>6, <1>8, <1>9, <1>10, <1>11, <1>12, AnyStep DEF IsQuiet

\* While the taker watches, the walk goes on as long as units are left, so that
\* the count cannot stand still for QuietTicks before the last hand-over.
LEMMA DrainStays ==
  ASSUME CanDecline = {}, TypeOK, ClocksInv, OneTaker, OneTaker', DrainInv, Unrivalled, Next
  PROVE  DrainInv'
<1>0. alive' \subseteq alive /\ alive \subseteq Client
  BY AnyStep DEF IsQuiet, TypeOK
<1>1. takers \subseteq takers' /\ takers' \subseteq Client
  <2>1. takers \subseteq takers'
    BY AnyStep DEF IsQuiet, BeginClaim, OnClaim, OnTakeSeen, OnComplete, GameTick
  <2>2. \A c \in Client, accepted \in BOOLEAN : GameTick(c, accepted) => takers' \subseteq Client
    BY DEF TypeOK, GameTick
  <2> QED
    BY <2>1, <2>2, AnyStep DEF IsQuiet, TypeOK, BeginClaim, OnClaim, OnTakeSeen, OnComplete
<1>2. \A k, l \in takers' \cap alive' : k = l
  BY DEF OneTaker
<1>3. \A m \in net' : m.command = "take" => m.from \in takers'
  <2>1. ASSUME NEW c \in Client, BeginClaim(c)
        PROVE  \A m \in net' : m.command = "take" => m \in net
    BY <2>1 DEF BeginClaim, ToOthers, Packet
  <2>2. ASSUME NEW c \in Client, NEW accepted \in BOOLEAN, GameTick(c, accepted)
        PROVE  \A m \in net' : m.command = "take" => m \in net \/ m.from \in takers'
    BY <2>2 DEF GameTick, Announced, ToOthers, ToAll, Packet
  <2>3. ASSUME NEW m \in net, OnClaim(m) \/ OnTakeSeen(m) \/ OnComplete(m)
        PROVE  net' \subseteq net
    BY <2>3 DEF OnClaim, OnTakeSeen, OnComplete, Arrives
  <2> QED
    BY <1>1, <2>1, <2>2, <2>3, AnyStep DEF IsQuiet, DrainInv
<1>4. \A c \in Client : now[c] \in Nat /\ now'[c] \in Nat /\ now[c] <= now'[c]
  BY ClocksStay
<1>5. units \in Nat /\ Leftover \in Nat /\ walked \in Nat /\ Units \in Nat /\ units <= Units
  BY TickAssumption DEF TypeOK
<1>6. ASSUME NEW c \in Client, NEW accepted \in BOOLEAN, GameTick(c, accepted)
      PROVE  DrainInv'
  <2>1. accepted /\ units' = units /\ alive' = alive /\ c \in alive
    BY <1>6, AdvanceFacts DEF GameTick
  <2>2. \A k \in takers' \cap alive' : walked' <= now'[k]
    <3>1. CASE walked' = walked /\ takers' = takers
      <4>1. \A k \in takers' \cap alive' : walked <= now[k] /\ k \in Client
        BY <1>0, <2>1, <3>1 DEF DrainInv
      <4> QED
        BY <1>4, <1>5, <3>1, <4>1
    <3>2. CASE walked' = now[c] + 1 /\ c \in takers'
      <4>1. now'[c] = now[c] + 1
        BY <1>6, AdvanceFacts DEF TypeOK
      <4> QED
        BY <1>2, <1>4, <2>1, <3>2, <4>1
    <3> QED
      BY <1>6, <3>1, <3>2 DEF GameTick
  <2>3. walking \subseteq walking'
    BY <1>6 DEF GameTick
  <2>4. ASSUME NEW k \in alive', election'[k] # None, election'[k].awaitDrain
        PROVE  Watches(k)'
    <3>0. k \in alive /\ k \in Client
      BY <1>0
    <3>1. CASE k # c
      <4>1. election'[k] = election[k]
        BY <1>6, <3>0, <3>1 DEF GameTick, TypeOK
      <4>2. Watches(k)
        BY <2>4, <3>0, <4>1 DEF DrainInv
      <4>3. walked' = walked
        <5>1. k \in takers' /\ c \notin takers'
          BY <1>1, <1>2, <2>1, <3>1, <4>2 DEF Watches
        <5> QED
          BY <1>6, <5>1 DEF GameTick
      <4> QED
        BY <1>1, <2>1, <2>3, <4>1, <4>2, <4>3 DEF Watches, TargetLiveUnits
    <3>2. CASE k = c
      <4>1. election[c] # None
        BY <1>6, <2>4, <3>2 DEF GameTick
      <4>2. CASE /\ election'[c].liveCount = NoSample /\ c \in takers'
                 /\ walking' = walking \cup {c}
        BY <1>5, <2>1, <3>2, <4>2 DEF Watches, TargetLiveUnits, NoSample
      <4>3. CASE /\ election[c].awaitDrain /\ walked' = walked
                 /\ election'[c].liveCount = Sample(election[c], now'[c]).liveCount
                 /\ election'[c].lastChange = Sample(election[c], now'[c]).lastChange
        <5>1. Watches(c)
          BY <2>1, <4>1, <4>3 DEF DrainInv
        <5>2. election[c] \in ElectionType
          BY <4>1 DEF TypeOK
        <5>3. CASE ~Sampled(election[c], now'[c])
          BY <1>1, <2>1, <2>3, <3>2, <4>3, <5>1, <5>3 DEF Watches, TargetLiveUnits, Sample
        <5>4. CASE Sampled(election[c], now'[c])
          <6>1. /\ election'[c].liveCount = TargetLiveUnits
                /\ election'[c].lastChange = IF TargetLiveUnits = election[c].liveCount
                                             THEN election[c].lastChange ELSE now'[c]
            BY <4>3, <5>2, <5>4 DEF Sample, ElectionType
          <6>2. walked' <= election'[c].lastChange
            BY <1>4, <1>5, <2>1, <4>3, <5>1, <6>1 DEF Watches, DrainInv
          <6>3. TargetLiveUnits' = TargetLiveUnits /\ TargetLiveUnits \in Nat
            BY <1>5, <2>1 DEF TargetLiveUnits
          <6> QED
            BY <1>1, <2>3, <3>2, <5>1, <6>1, <6>2, <6>3 DEF Watches
        <5> QED
          BY <5>3, <5>4
      <4> QED
        BY <1>6, <2>1, <2>4, <3>2, <4>1, <4>2, <4>3, WatchedEntry
    <3> QED
      BY <3>1, <3>2
  <2> QED
    BY <1>3, <2>2, <2>4 DEF DrainInv
<1>7. ASSUME \A c \in Client, accepted \in BOOLEAN : ~GameTick(c, accepted)
      PROVE  DrainInv'
  <2>1. takers' = takers /\ now' = now
    BY <1>7, AnyStep DEF IsQuiet, BeginClaim, OnClaim, OnTakeSeen, OnComplete
  <2>2. ASSUME NEW k \in alive', election'[k] # None, election'[k].awaitDrain
        PROVE  /\ Watches(k) /\ election'[k].liveCount = election[k].liveCount
               /\ election'[k].lastChange = election[k].lastChange
               /\ election[k].liveCount \in Nat
    <3>1. /\ election[k] # None /\ election[k].awaitDrain
          /\ election'[k].liveCount = election[k].liveCount
          /\ election'[k].lastChange = election[k].lastChange
      BY <1>0, <1>7, <2>2, WatchStays
    <3> QED
      BY <1>0, <3>1 DEF DrainInv, TypeOK, ElectionType
  <2>3. CASE units' = units /\ walked' = walked /\ walking' = walking
    <3>1. \A k \in alive' : election'[k] # None /\ election'[k].awaitDrain => Watches(k)'
      BY <2>1, <2>2, <2>3 DEF Watches, TargetLiveUnits
    <3> QED
      BY <1>0, <1>3, <2>1, <2>3, <3>1 DEF DrainInv
  <2>4. ASSUME NEW m \in net, OnTakeSeen(m) PROVE DrainInv'
    <3>1. \A k \in takers \cap alive : k \in walking => k \in walking'
      BY <2>4 DEF OnTakeSeen, Unrivalled
    <3>2. units' = units /\ walked' = walked
      BY <2>4 DEF OnTakeSeen
    <3>3. \A k \in alive' : election'[k] # None /\ election'[k].awaitDrain => Watches(k)'
      BY <1>0, <2>1, <2>2, <3>1, <3>2 DEF Watches, TargetLiveUnits
    <3> QED
      BY <1>0, <1>3, <2>1, <3>2, <3>3 DEF DrainInv
  <2>5. ASSUME NEW c \in Client, Walk(c) PROVE DrainInv'
    <3>1. /\ walking' = walking /\ c \in takers \cap alive /\ alive' = alive /\ walked' = now[c]
          /\ units > 0 /\ units' = units - 1
      BY <2>5 DEF Walk, TypeOK
    <3>2. TargetLiveUnits' = TargetLiveUnits - 1 /\ TargetLiveUnits \in Nat
      BY <1>5, <3>1 DEF TargetLiveUnits
    <3>3. ASSUME NEW k \in alive', election'[k] # None, election'[k].awaitDrain
          PROVE  Watches(k)'
      BY <2>1, <2>2, <3>1, <3>2, <3>3 DEF Watches
    <3>4. \A k \in takers' \cap alive' : walked' <= now'[k]
      BY <1>2, <1>4, <2>1, <3>1 DEF TypeOK
    <3> QED
      BY <1>3, <3>3, <3>4 DEF DrainInv
  <2> QED
    BY <1>7, <2>3, <2>4, <2>5
       DEF Next, BeginClaim, OnClaim, OnComplete, Crash, LoseEligibility, walk
<1> QED
  BY <1>6, <1>7

LEMMA CompleteInvStays ==
  ASSUME OneRound, CanDecline = {}, TypeOK, WinnerInv, WinnerInv', CompleteInv, [Next]_vars
  PROVE  CompleteInv'
<1>1. CASE Next
  <2> SUFFICES ASSUME alive' = Client PROVE DrainInv'
    BY DEF CompleteInv
  <2>1. alive = Client
    BY <1>1 DEF Next, BeginClaim, OnClaim, OnTakeSeen, OnComplete, GameTick, Walk, Crash,
       LoseEligibility, TypeOK
  <2>2. Unrivalled
    BY <2>1 DEF TypeOK, Unrivalled, WinnerInv, RoundInv, OneTaker, CompleteInv, DrainInv
  <2> QED
    BY <1>1, <2>1, <2>2, DrainStays DEF WinnerInv, RoundInv, CompleteInv
<1>2. CASE UNCHANGED vars
  <2>1. /\ now' = now /\ election' = election /\ net' = net /\ takers' = takers
        /\ alive' = alive /\ units' = units /\ walking' = walking /\ walked' = walked
    BY <1>2 DEF vars, walk
  <2>2. \A c : Watches(c)' <=> Watches(c)
    BY <2>1 DEF Watches, TargetLiveUnits
  <2> QED
    BY <2>1, <2>2 DEF CompleteInv, DrainInv
<1> QED
  BY <1>1, <1>2

\* A Complete goes out after the last unit, or when the backstop has run out.
LEMMA CompletesInTime ==
  ASSUME CanDecline = {}, TypeOK, DrainInv, [Next]_vars,
         NEW c \in completers', c \notin completers
  PROVE  units = 0 \/ now'[c] >= election[c].drainBy
<1>1. PICK accepted \in BOOLEAN : c \in Client /\ GameTick(c, accepted)
  <2>1. \A d \in Client, a \in BOOLEAN : GameTick(d, a) => completers' \subseteq completers \cup {d}
    BY DEF GameTick
  <2> QED
    BY <2>1 DEF Next, vars, BeginClaim, OnClaim, OnTakeSeen, OnComplete, Walk, Crash,
       LoseEligibility
<1> DEFINE t == now[c] + 1
           e == election[c]
<1>2. e # None /\ DrainEnds(e, t)
  BY <1>1 DEF GameTick
<1>3. now'[c] = t /\ t \in Nat /\ now[c] \in Nat
  BY <1>1, AdvanceFacts DEF TypeOK
<1>4. Watches(c) /\ e \in ElectionType
  BY <1>1, <1>2, AdvanceFacts DEF DrainInv, DrainEnds, TypeOK
<1>5. ASSUME Quiescent(e, t), units # 0 PROVE FALSE
  <2>1. units \in Nat /\ Leftover \in Nat /\ walked \in Nat /\ MaxGap \in Nat /\ QuietTicks \in Nat
    BY TickAssumption DEF TypeOK
  <2>2. t >= e.lastChange + QuietTicks /\ TargetLiveUnits = e.liveCount
    BY <1>5, <2>1 DEF Quiescent, TargetLiveUnits
  <2>3. walked <= e.lastChange /\ e.lastChange \in Nat
    BY <1>4, <2>2 DEF Watches, ElectionType
  <2>4. now[c] < walked + MaxGap
    BY <1>1, <1>4, <1>5, <2>1 DEF GameTick, MayAdvance, Watches
  <2> QED
    BY <1>3, <2>1, <2>2, <2>3, <2>4, QuietAssumption
<1> QED
  BY <1>2, <1>3, <1>5 DEF DrainEnds

\* As long as nobody drops out, the claims are of one round and dplayx accepts
\* every '.take', a taker announces its Complete only when the walk has handed
\* everything over, or the backstop has run out (TransferQuiescent).
THEOREM NoPrematureCompleteHolds ==
  ASSUME OneRound, CanDecline = {}
  PROVE  Spec /\ [](alive = Client) => NoPrematureComplete
<1>1. Init => WinnerInv /\ CompleteInv
  <2>1. Init => DrainInv
    BY DEF Init, DrainInv
  <2> QED
    BY <2>1, InitialRound DEF WinnerInv, CompleteInv
<1>2. TypeOK /\ WinnerInv /\ [Next]_vars => WinnerInv'
  BY WinnerInvStays
<1>3. TypeOK /\ WinnerInv /\ WinnerInv' /\ CompleteInv /\ [Next]_vars => CompleteInv'
  BY CompleteInvStays
<1>4. TypeOK /\ WinnerInv /\ CompleteInv /\ alive = Client /\ [Next]_vars =>
        [\A c \in completers' \ completers :
            units = 0 \/ now'[c] >= election[c].drainBy]_vars
  BY CompletesInTime DEF WinnerInv, CompleteInv
<1> QED
  BY <1>1, <1>2, <1>3, <1>4, TypeInvariant, PTL DEF Spec, NoPrematureComplete

-----------------------------------------------------------------------------
(* With drop-outs *)

\* The claims of the round are made before any window can have closed, and no
\* client is ahead of another by more than the grace time.
Prompt == LastClaim <= SettleTicks /\ MaxSkew <= GraceTicks

Contending(x) == x \in Known /\ x.dpid \in alive

\* No claim of somebody still in the game comes before w, now or later.
Foremost(w) ==
    /\ \A x \in Claims : Contending(x) => x = w \/ Beats(w, x)
    /\ \A p \in alive : w.tick < now[p]

Settles(x, d) == IsOver(d) \/ Holds(d, x)

Reaches(x, d) ==
    Settles(x, d) \/ \E m \in net : m.command = "Claim" /\ m.to = d /\ ClaimOf(m) = x

\* A client makes one claim, and has recorded it itself.
OriginInv ==
    /\ \A c \in Client : 1 <= now[c]
    /\ \A x \in Known : /\ 1 <= x.tick /\ x.tick <= LastClaim /\ Settles(x, x.dpid)
                        /\ \A y \in Known : x.dpid = y.dpid => x = y

\* The claims of those still in the game are lost to nobody.
ReachInv == \A x \in Claims, d \in alive : Contending(x) => Reaches(x, d)

\* The window of some recorded claim is over at tick t.
OpenUntil(c, t) == \E x \in election[c].claims : 1 <= x.tick /\ x.tick + SettleTicks <= t

\* Nobody closes its window before that, nor excludes a claimant that dropped out before
\* the grace time is over as well.
OpenInv ==
    \A c \in alive : Competes(c) =>
        /\ OpenUntil(c, IF HasClosed(c) THEN now[c] ELSE election[c].closeTick)
        /\ election[c].resolved => 1 + SettleTicks + GraceTicks <= election[c].graceTick
        /\ election[c].excluded \ {c} # {} => 1 + SettleTicks + GraceTicks <= now[c]

\* Of those still in the game a client passes on nobody but itself, when its claim comes
\* before all others and it may no longer take.
PassInv ==
    \A c \in alive : election[c] # None =>
        /\ election[c].excluded \cap alive \subseteq {c}
        /\ c \in election[c].excluded =>
              ~MayTake(c) /\ \E w \in election[c].claims : w.dpid = c /\ Foremost(w)
        /\ election[c].executed => election[c].retireTick >= ElectionKeepTicks

TakeInv ==
    \A c \in takers \cap alive : \E w \in Claims :
        w.dpid = c /\ Foremost(w) /\ \A d \in alive : Reaches(w, d)

DropInv == /\ ClocksInv /\ PacketsInv /\ OriginInv /\ ReachInv
           /\ OpenInv /\ PassInv /\ TakeInv /\ OneTaker

LEMMA PromptFacts ==
  ASSUME OneRound, Prompt
  PROVE  /\ SettleTicks \in Nat /\ SettleTicks > 0 /\ GraceTicks \in Nat /\ LastClaim \in Nat
         /\ MaxDelay \in Nat /\ MaxDelay < SettleTicks /\ MaxDelay < GraceTicks
         /\ MaxSkew \in Nat /\ MaxSkew > 0 /\ MaxSkew < SettleTicks /\ MaxSkew <= GraceTicks
         /\ ElectionKeepTicks \in Nat /\ LastClaim <= SettleTicks
         /\ LastClaim + SettleTicks <= ElectionKeepTicks
  BY TickFacts, TickAssumption, GraceAssumption DEF Prompt, OneRound

-----------------------------------------------------------------------------
(* What steps leave, with drop-outs *)

\* Who may still claim has not claimed yet.
LEMMA FirstClaim ==
  ASSUME OneRound, Prompt, TypeOK, OriginInv, OpenInv, NEW c \in Client, BeginClaim(c),
         NEW x \in Known
  PROVE  x.dpid # c
<1> SUFFICES ASSUME x.dpid = c PROVE FALSE
  OBVIOUS
<1>1. /\ c \in alive /\ now[c] <= LastClaim /\ now[c] \in Nat
      /\ election[c] # None => ~election[c].executed
      /\ election[c] # None => election[c].resolved \/ \A y \in election[c].claims : y.dpid # c
  BY DEF BeginClaim, TypeOK
<1>2. ~IsOver(c)
  BY <1>1, PromptFacts DEF IsOver
<1>3. Holds(c, x)
  BY <1>2 DEF OriginInv, Settles
<1>4. Competes(c) /\ HasClosed(c)
  BY <1>1, <1>3 DEF Holds, Competes, HasClosed
<1>5. PICK y \in election[c].claims : 1 <= y.tick /\ y.tick + SettleTicks <= now[c]
  BY <1>1, <1>4 DEF OpenInv, OpenUntil
<1>6. y.tick \in Nat
  <2>1. Holds(c, y)
    BY <1>4, <1>5 DEF Holds, Competes
  <2> QED
    BY <2>1, EntryHolds, ClaimFacts
<1> QED
  BY <1>1, <1>5, <1>6, PromptFacts

\* A claim that is the only one of its client is added to those recorded.
LEMMA RecordAdds ==
  ASSUME TypeOK, NEW d \in Client, NEW x \in Claims, Records(d, x), ~Entry(d).executed,
         \A y \in Entry(d).claims : y.dpid = x.dpid => y = x
  PROVE  /\ election'[d] \in ElectionType /\ election'[d] # None
         /\ election'[d].claims = Entry(d).claims \cup {x}
         /\ ~election'[d].executed /\ election'[d].resolved = Entry(d).resolved
         /\ election'[d].excluded = Entry(d).excluded
         /\ election'[d].graceTick = Entry(d).graceTick
         /\ Entry(d).claims # {} => election'[d].closeTick = Entry(d).closeTick
         /\ Entry(d).claims = {} /\ ~Entry(d).resolved =>
               election'[d].closeTick = x.tick + SettleTicks
<1> DEFINE e == Entry(d)
           r == RecordClaim(e, x.dpid, x.tick)
           old == {y \in e.claims : y.dpid = x.dpid}
           new == [dpid |-> x.dpid, tick |-> x.tick]
<1>1. e \in ElectionType
  BY EntryType
<1>2. new = x
  BY DEF Claims
<1>3. election'[d] = r /\ election'[d] # None
  BY RecordsFacts DEF Records, TypeOK
<1>4. r \in ElectionType
  BY <1>1, ClaimFacts, RecordClaimType
<1> HIDE DEF e
<1>5. CASE old = {}
  <2>1. r = [e EXCEPT !.claims = @ \cup {x},
                      !.closeTick = IF e.claims = {} /\ ~e.resolved
                                    THEN x.tick + SettleTicks ELSE @]
    BY <1>2, <1>5 DEF RecordClaim, e
  <2>2. /\ r.claims = e.claims \cup {x} /\ r.executed = e.executed
        /\ r.resolved = e.resolved /\ r.excluded = e.excluded /\ r.graceTick = e.graceTick
        /\ r.closeTick = IF e.claims = {} /\ ~e.resolved
                         THEN x.tick + SettleTicks ELSE e.closeTick
    BY <1>1, <2>1 DEF ElectionType
  <2> HIDE DEF r
  <2> QED
    BY <1>3, <1>4, <2>2 DEF e
<1>6. CASE old # {}
  <2>1. x \in e.claims
    BY <1>6 DEF e
  <2>2. ~(\A y \in old : x.tick < y.tick)
    BY <2>1, ClaimFacts
  <2>3. r = e
    BY <1>2, <1>6, <2>2 DEF RecordClaim, e
  <2> HIDE DEF r
  <2>4. e.claims # {} /\ e.claims = e.claims \cup {x}
    BY <2>1
  <2> QED
    BY <1>3, <1>4, <2>3, <2>4 DEF e
<1> QED
  BY <1>5, <1>6

\* d records a claim, the only one of its client.
Adds(d, x) ==
    /\ d \in alive /\ x \in Claims /\ Records(d, x) /\ 1 <= x.tick
    /\ x.tick <= LastClaim /\ now[d] < x.tick + SettleTicks
    /\ \A y \in Entry(d).claims : y.dpid = x.dpid => y = x

LEMMA BeginAdds ==
  ASSUME OneRound, Prompt, TypeOK, DropInv, NEW c \in Client, BeginClaim(c),
         NEW x, x = [dpid |-> c, tick |-> now[c]]
  PROVE  /\ Adds(c, x) /\ ~Entry(c).executed /\ x.tick <= LastClaim
         /\ \A y \in Known : y.dpid # c
         /\ net' = net \cup ToOthers("Claim", c, now[c])
<1>1. /\ x \in Claims /\ Records(c, x) /\ ~Entry(c).executed
      /\ net' = net \cup ToOthers("Claim", c, now[c])
  BY BeginRecords
<1>2. \A y \in Known : y.dpid # c
  BY FirstClaim DEF DropInv
<1>3. \A y \in Entry(c).claims : y \in Known
  BY EntryHolds DEF Known
<1>4. c \in alive /\ now[c] <= LastClaim /\ 1 <= now[c] /\ now[c] < now[c] + SettleTicks
  BY TickFacts DEF BeginClaim, DropInv, OriginInv, TypeOK
<1> QED
  BY <1>1, <1>2, <1>3, <1>4 DEF Adds

LEMMA ReceiptAdds ==
  ASSUME TypeOK, DropInv, NEW m \in net, OnClaim(m)
  PROVE  /\ Adds(m.to, ClaimOf(m)) /\ m.to \in Client /\ ClaimOf(m) \in Known
         /\ net' = net \ {m}
<1>1. /\ ClaimOf(m) \in Known /\ m.to \in Client /\ Records(m.to, ClaimOf(m))
      /\ net' = net \ {m}
  BY ReceiptRecords DEF DropInv
<1>2. \A y \in Entry(m.to).claims : y \in Known
  BY <1>1, EntryHolds DEF Known
<1>3. m.to \in alive
  BY DEF OnClaim, Arrives
<1>4. ClaimOf(m) \in Claims
  BY <1>1 DEF Known
<1>5. ClaimOf(m).tick <= LastClaim /\ now[m.to] < ClaimOf(m).tick + SettleTicks
  BY InTime DEF ClaimOf, DropInv, OnClaim
<1> QED
  BY <1>1, <1>2, <1>3, <1>4, <1>5 DEF Adds, DropInv, OriginInv

StoodDown(c) ==
    /\ election'[c] \in ElectionType /\ election'[c].executed
    /\ election'[c].claims = Entry(c).claims /\ election'[c].excluded = Entry(c).excluded
    /\ election'[c].retireTick >= ElectionKeepTicks

Ticks(c) ==
    /\ c \in alive /\ election[c] # None /\ \E accepted \in BOOLEAN : GameTick(c, accepted)
    /\ \/ IsErased(c) \/ IsKept(c) \/ IsExecuted(c) \/ PassesOn(c)
       \/ Skips(c) /\ Winner(election[c]) \in Client \ alive

\* What a step may do to the entry of a client.
LEMMA EntrySteps ==
  ASSUME OneRound, Prompt, TypeOK, DropInv, Next, NEW c \in Client
  PROVE  /\ now[c] \in Nat /\ now'[c] \in Nat /\ now[c] <= now'[c] /\ alive' \subseteq alive
         /\ \/ election'[c] = election[c] /\ (election[c] = None \/ now'[c] = now[c])
            \/ \E x : Adds(c, x)
            \/ StoodDown(c)
            \/ Ticks(c)
<1> DEFINE Stays == election'[c] = election[c] /\ (election[c] = None \/ now'[c] = now[c])
<1>1. now[c] \in Nat /\ now'[c] \in Nat /\ now[c] <= now'[c]
  BY ClocksStay DEF DropInv
<1>2. alive' \subseteq alive
  BY AnyStep DEF IsQuiet
<1>3. ASSUME NEW d \in Client, NEW x, Adds(d, x)
      PROVE  Stays \/ Adds(c, x)
  <2>1. now'[c] = now[c]
    BY <1>3 DEF Adds, Records
  <2> QED
    BY <1>3, <2>1, RecordsFacts DEF Adds
<1>4. ASSUME NEW d \in Client, BeginClaim(d)
      PROVE  Stays \/ \E x : Adds(c, x)
  BY <1>3, <1>4, BeginAdds
<1>5. ASSUME NEW m \in net, OnClaim(m)
      PROVE  Stays \/ \E x : Adds(c, x)
  BY <1>3, <1>5, ReceiptAdds
<1>6. ASSUME NEW m \in net, OnTakeSeen(m) \/ OnComplete(m)
      PROVE  Stays \/ StoodDown(c)
  BY <1>6, ReceiptStandsDown DEF StandsDown, StoodDown
<1>7. ASSUME NEW d \in Client, NEW accepted \in BOOLEAN, GameTick(d, accepted)
      PROVE  Stays \/ Ticks(c)
  <2>1. CASE c # d \/ election[d] = None
    <3>1. /\ election'[c] = election[c] /\ (c = d => election[c] = None)
          /\ now' = [now EXCEPT ![d] = now[d] + 1]
      BY <1>7, <2>1, AdvanceFacts DEF GameTick, TypeOK
    <3> QED
      BY <3>1 DEF TypeOK
  <2>2. CASE c = d /\ election[c] # None
    <3>1. \/ IsErased(c) \/ IsKept(c) \/ IsExecuted(c) \/ PassesOn(c)
          \/ Skips(c) /\ Winner(election[c]) \in Client \ alive
      BY <1>7, <2>2, TickedEntry DEF GivesUp, Takes
    <3>2. c \in alive
      BY <1>7, <2>2, AdvanceFacts
    <3> QED
      BY <1>7, <2>2, <3>1, <3>2 DEF Ticks
  <2> QED
    BY <2>1, <2>2
<1>8. IsQuiet => Stays
  BY DEF IsQuiet
<1>9. Stays \/ (\E x : Adds(c, x)) \/ StoodDown(c) \/ Ticks(c)
  BY <1>4, <1>5, <1>6, <1>7, <1>8, AnyStep
<1> QED
  BY <1>1, <1>2, <1>9

\* What recording a claim leaves of an entry that is not executed.
LEMMA AddsFacts ==
  ASSUME TypeOK, NEW c \in Client, NEW x, Adds(c, x)
  PROVE  /\ now' = now /\ takers' = takers /\ ~(election[c] = None /\ IsOver(c))
         /\ election'[c] \in ElectionType /\ election'[c] # None
         /\ Entry(c).executed => election[c] # None /\ election'[c] = election[c]
         /\ ~Entry(c).executed =>
              /\ election'[c].claims = Entry(c).claims \cup {x}
              /\ ~election'[c].executed /\ election'[c].resolved = Entry(c).resolved
              /\ election'[c].excluded = Entry(c).excluded
              /\ election'[c].graceTick = Entry(c).graceTick
              /\ Entry(c).claims # {} => election'[c].closeTick = Entry(c).closeTick
              /\ Entry(c).claims = {} /\ ~Entry(c).resolved =>
                    election'[c].closeTick = x.tick + SettleTicks
<1>1. /\ c \in alive /\ x \in Claims /\ Records(c, x)
      /\ \A y \in Entry(c).claims : y.dpid = x.dpid => y = x
  BY DEF Adds
<1>2. now' = now /\ takers' = takers /\ ~(election[c] = None /\ IsOver(c))
  BY <1>1 DEF Records
<1>3. election'[c] \in ElectionType /\ election'[c] # None
  BY <1>1, RecordsFacts
<1>4. Entry(c).executed => election[c] # None /\ election'[c] = election[c]
  BY <1>1, RecordsFacts, NewEntryFacts DEF Entry
<1> QED
  BY <1>1, <1>2, <1>3, <1>4, RecordAdds

\* What is settled for a client stays so.
LEMMA SettlesStays ==
  ASSUME OneRound, Prompt, TypeOK, DropInv, Next, NEW c \in Client, NEW y, Settles(y, c)
  PROVE  Settles(y, c)'
<1>1. now[c] \in Nat /\ now'[c] \in Nat /\ now[c] <= now'[c]
  BY EntrySteps
<1>2. CASE election'[c] = election[c]
  BY <1>1, <1>2, PromptFacts DEF Settles, IsOver, Holds
<1>3. ASSUME NEW x, Adds(c, x) PROVE Settles(y, c)'
  <2>1. CASE Entry(c).executed
    BY <1>2, <1>3, <2>1, AddsFacts
  <2>2. CASE ~Entry(c).executed
    <3>1. ~IsOver(c)
      BY <1>3, <2>2, AddsFacts, EntryHolds DEF IsOver
    <3>2. y \in Entry(c).claims
      BY <3>1, EntryHolds DEF Settles
    <3> QED
      BY <1>3, <2>2, <3>2, AddsFacts DEF Settles, Holds
  <2> QED
    BY <2>1, <2>2
<1>4. CASE StoodDown(c) \/ IsExecuted(c)
  BY <1>4, NoneAssumption DEF StoodDown, IsExecuted, KeepsClaims, Settles, IsOver
<1>5. CASE Ticks(c)
  <2>1. CASE IsErased(c)
    <3>1. election[c].retireTick >= ElectionKeepTicks /\ election[c].retireTick \in Nat
      BY <1>5, <2>1 DEF Ticks, IsErased, DropInv, PassInv, TypeOK, ElectionType
    <3>2. now'[c] >= LastClaim + SettleTicks /\ election'[c] = None
      BY <1>1, <2>1, <3>1, PromptFacts DEF IsErased
    <3> QED
      BY <3>2 DEF Settles, IsOver
  <2>2. CASE IsKept(c) \/ PassesOn(c) \/ Skips(c)
    <3>1. /\ election[c] # None /\ election'[c] # None
          /\ election'[c].claims = election[c].claims
          /\ election[c].executed => election'[c].executed
      BY <1>5, <2>2, NoneAssumption DEF Ticks, IsKept, PassesOn, WinsItsWindow, Skips, KeepsClaims
    <3> QED
      BY <3>1 DEF Settles, IsOver, Holds
  <2> QED
    BY <1>4, <1>5, <2>1, <2>2 DEF Ticks
<1> QED
  BY <1>2, <1>3, <1>4, <1>5, EntrySteps

\* No claim made later comes before the foremost one.
LEMMA ForemostStays ==
  ASSUME TypeOK, DropInv, Next, NEW w \in Claims, Foremost(w)
  PROVE  Foremost(w)'
<1>1. /\ \A p \in Client : now[p] \in Nat /\ now'[p] \in Nat /\ now[p] <= now'[p]
      /\ alive \subseteq Client /\ w.tick \in Nat
  BY ClocksStay, ClaimFacts DEF DropInv, TypeOK
<1>2. alive' \subseteq alive
  BY AnyStep DEF IsQuiet
<1>3. ASSUME NEW p \in alive' PROVE w.tick < now'[p]
  <2>1. w.tick < now[p] /\ p \in Client
    BY <1>1, <1>2 DEF Foremost
  <2> QED
    BY <1>1, <2>1
<1>4. ASSUME NEW x \in Claims, x \in Known', x.dpid \in alive' PROVE x = w \/ Beats(w, x)
  <2>1. CASE x \in Known
    BY <1>2, <1>4, <2>1 DEF Foremost, Contending
  <2>2. ASSUME NEW c \in Client, BeginClaim(c), x = [dpid |-> c, tick |-> now[c]]
        PROVE  Beats(w, x)
    <3>1. c \in alive
      BY <2>2 DEF BeginClaim
    <3> QED
      BY <2>2, <3>1 DEF Foremost, Beats
  <2> QED
    BY <1>4, <2>1, <2>2, KnownSteps DEF DropInv
<1> QED
  BY <1>3, <1>4 DEF Foremost, Contending, Beats

\* A claim that reaches d goes on doing so unless d drops out, or its client does and nothing
\* reaches d that it has sent later.
LEMMA ReachesStays ==
  ASSUME OneRound, Prompt, TypeOK, DropInv, Next, NEW y \in Claims, NEW d \in alive',
         Reaches(y, d),
         \/ y.dpid \in alive'
         \/ \E m \in net' : m.from = y.dpid /\ m.to = d /\ y.tick <= m.tick
  PROVE  Reaches(y, d)'
<1>1. d \in Client
  BY AnyStep DEF IsQuiet, TypeOK
<1>2. CASE Settles(y, d)
  BY <1>1, <1>2, SettlesStays DEF Reaches
<1>3. ASSUME NEW m \in net, m.command = "Claim", m.to = d, ClaimOf(m) = y
      PROVE  Reaches(y, d)'
  <2>1. m \in net' => Reaches(y, d)'
    BY <1>3 DEF Reaches, ClaimOf
  <2>2. ASSUME NEW n \in net, OnClaim(n) PROVE Reaches(y, d)'
    <3>1. Adds(n.to, ClaimOf(n)) /\ net' = net \ {n}
      BY <2>2, ReceiptAdds
    <3>2. CASE n = m
      <4>1. Adds(d, y)
        BY <1>3, <3>1, <3>2
      <4>2. /\ election'[d] # None
            /\ Entry(d).executed => election[d] # None /\ election'[d] = election[d]
            /\ ~Entry(d).executed => election'[d].claims = Entry(d).claims \cup {y}
        BY <1>1, <4>1, AddsFacts
      <4> QED
        BY <4>2 DEF Reaches, Settles, IsOver, Holds, Entry
    <3> QED
      BY <2>1, <3>1, <3>2
  <2>3. ASSUME NEW n \in net, OnTakeSeen(n) \/ OnComplete(n) PROVE m \in net'
    BY <1>3, <2>3, ReceiptStandsDown
  <2>4. ASSUME NEW c \in Client, BeginClaim(c) PROVE m \in net'
    BY <2>4 DEF BeginClaim
  <2>5. ASSUME NEW c \in Client, NEW accepted \in BOOLEAN, GameTick(c, accepted) PROVE m \in net'
    BY <2>5 DEF GameTick
  <2>6. IsQuiet => m \in net'
    BY <1>3 DEF IsQuiet, ClaimOf
  <2> QED
    BY <2>1, <2>2, <2>3, <2>4, <2>5, <2>6, AnyStep
<1> QED
  BY <1>2, <1>3 DEF Reaches

\* A claim that is made is recorded here, and on its way to all the others.
LEMMA NewClaimReaches ==
  ASSUME OneRound, Prompt, TypeOK, DropInv, NEW c \in Client, BeginClaim(c),
         NEW x, x = [dpid |-> c, tick |-> now[c]], NEW d \in alive
  PROVE  Reaches(x, d)'
<1>1. Adds(c, x) /\ ~Entry(c).executed /\ net' = net \cup ToOthers("Claim", c, now[c])
  BY BeginAdds
<1>2. CASE d = c
  <2>1. election'[c] # None /\ election'[c].claims = Entry(c).claims \cup {x}
    BY <1>1, AddsFacts
  <2> QED
    BY <1>2, <2>1 DEF Reaches, Settles, Holds
<1>3. CASE d # c
  <2> DEFINE m == Packet("Claim", c, d, now[c])
  <2>1. m \in net' /\ m.command = "Claim" /\ m.to = d /\ ClaimOf(m) = x
    BY <1>1, <1>3 DEF ToOthers, Packet, ClaimOf
  <2> QED
    BY <2>1 DEF Reaches, ClaimOf
<1> QED
  BY <1>2, <1>3

LEMMA ReachInvStays ==
  ASSUME OneRound, Prompt, TypeOK, DropInv, Next
  PROVE  ReachInv'
<1> SUFFICES ASSUME NEW x \in Claims, NEW d \in alive', x \in Known', x.dpid \in alive'
             PROVE  Reaches(x, d)'
  BY DEF ReachInv, Contending
<1>1. alive' \subseteq alive
  BY AnyStep DEF IsQuiet
<1>2. CASE x \in Known
  <2>1. Reaches(x, d)
    BY <1>1, <1>2 DEF DropInv, ReachInv, Contending
  <2> QED
    BY <2>1, ReachesStays
<1>3. ASSUME NEW c \in Client, BeginClaim(c), x = [dpid |-> c, tick |-> now[c]]
      PROVE  Reaches(x, d)'
  BY <1>1, <1>3, NewClaimReaches
<1> QED
  BY <1>2, <1>3, KnownSteps DEF DropInv

LEMMA OriginInvStays ==
  ASSUME OneRound, Prompt, TypeOK, DropInv, Next
  PROVE  OriginInv'
<1>1. ASSUME NEW c \in Client PROVE 1 <= now'[c]
  BY EntrySteps DEF DropInv, OriginInv
<1>2. ASSUME NEW x \in Known' PROVE /\ 1 <= x.tick /\ x.tick <= LastClaim
                                    /\ Settles(x, x.dpid)'
  <2>1. CASE x \in Known
    <3>1. x.dpid \in Client
      BY <2>1 DEF Known, Claims
    <3> QED
      BY <2>1, <3>1, SettlesStays DEF DropInv, OriginInv
  <2>2. ASSUME NEW c \in Client, BeginClaim(c), x = [dpid |-> c, tick |-> now[c]]
        PROVE  1 <= x.tick /\ x.tick <= LastClaim /\ Settles(x, x.dpid)'
    <3>1. Adds(c, x) /\ ~Entry(c).executed /\ 1 <= x.tick /\ x.tick <= LastClaim
      BY <2>2, BeginAdds DEF Adds
    <3>2. election'[c] # None /\ election'[c].claims = Entry(c).claims \cup {x} /\ x.dpid = c
      BY <2>2, <3>1, AddsFacts
    <3> QED
      BY <3>1, <3>2 DEF Settles, Holds
  <2> QED
    BY <2>1, <2>2, KnownSteps DEF DropInv
<1>3. ASSUME NEW x \in Known', NEW y \in Known', x.dpid = y.dpid PROVE x = y
  <2>1. ASSUME NEW c \in Client, BeginClaim(c), NEW z \in Known PROVE z.dpid # c
    BY <2>1, BeginAdds
  <2>2. x \in Known \/ \E c \in Client : BeginClaim(c) /\ x = [dpid |-> c, tick |-> now[c]]
    BY KnownSteps DEF DropInv
  <2>3. y \in Known \/ \E c \in Client : BeginClaim(c) /\ y = [dpid |-> c, tick |-> now[c]]
    BY KnownSteps DEF DropInv
  <2>4. x \in Known /\ y \in Known => x = y
    BY <1>3 DEF DropInv, OriginInv
  <2> QED
    BY <1>3, <2>1, <2>2, <2>3, <2>4
<1> QED
  BY <1>1, <1>2, <1>3 DEF OriginInv

\* What OpenInv says of a client, for the claim that opened its window.
LEMMA OpenUntilStays ==
  ASSUME TypeOK, NEW c \in Client, NEW t \in Nat, NEW u \in Nat, t <= u, OpenUntil(c, t),
         election[c].claims \subseteq election'[c].claims, election[c] # None
  PROVE  /\ 1 + SettleTicks <= u
         /\ \E x \in election'[c].claims : 1 <= x.tick /\ x.tick + SettleTicks <= u
<1>1. PICK x \in election[c].claims : 1 <= x.tick /\ x.tick + SettleTicks <= t
  BY DEF OpenUntil
<1>2. x \in election'[c].claims /\ x.tick \in Nat
  BY <1>1, EntryHolds, ClaimFacts DEF Holds
<1>3. x.tick + SettleTicks <= u /\ 1 + SettleTicks <= u
  BY <1>1, <1>2, TickFacts
<1> QED
  BY <1>1, <1>2, <1>3

LEMMA OpenInvStays ==
  ASSUME OneRound, Prompt, TypeOK, DropInv, Next
  PROVE  OpenInv'
<1> DEFINE Opened(c, t) == \E x \in election[c].claims : 1 <= x.tick /\ x.tick + SettleTicks <= t
           Due == 1 + SettleTicks + GraceTicks
           Right(c) ==
             /\ HasClosed(c) => Opened(c, now[c])
             /\ ~HasClosed(c) => Opened(c, election[c].closeTick)
             /\ election[c].resolved => Due <= election[c].graceTick
             /\ election[c].excluded \ {c} # {} => Due <= now[c]
<1>1. \A c \in alive : Competes(c) => Right(c)
  BY DEF DropInv, OpenInv, OpenUntil
<1> SUFFICES ASSUME NEW c \in alive', Competes(c)' PROVE Right(c)'
  <2>1. \A c \in alive' : Competes(c)' => Right(c)'
    OBVIOUS
  <2> QED
    BY <2>1 DEF OpenInv, OpenUntil
<1>2. c \in alive /\ c \in Client
  BY AnyStep DEF IsQuiet, TypeOK
<1>3. now[c] \in Nat /\ now'[c] \in Nat /\ now[c] <= now'[c] /\ Due \in Nat
  BY <1>2, EntrySteps, PromptFacts
<1>4. CASE election'[c] = election[c]
  <2>1. Competes(c) /\ (HasClosed(c)' <=> HasClosed(c)) /\ election[c] # None
    BY <1>4 DEF Competes, HasClosed
  <2>2. HasClosed(c) => Opened(c, now[c])'
    BY <1>1, <1>2, <1>3, <1>4, <2>1, OpenUntilStays DEF OpenUntil
  <2>3. ~HasClosed(c) => Opened(c, election[c].closeTick)
    BY <1>1, <1>2, <2>1
  <2>4. election[c].resolved => Due <= election[c].graceTick
    BY <1>1, <1>2, <2>1
  <2>5. election[c].excluded \ {c} # {} => Due <= now[c]
    BY <1>1, <1>2, <2>1
  <2>6. election[c].excluded \ {c} # {} => Due <= now'[c]
    BY <1>3, <2>5
  <2> QED
    BY <1>4, <2>1, <2>2, <2>3, <2>4, <2>6
<1>5. ASSUME NEW x, Adds(c, x) PROVE Right(c)'
  <2>1. CASE Entry(c).executed
    BY <1>2, <1>4, <1>5, <2>1, AddsFacts
  <2>2. CASE ~Entry(c).executed
    <3>1. /\ election'[c].claims = Entry(c).claims \cup {x}
          /\ election'[c].resolved = Entry(c).resolved
          /\ election'[c].excluded = Entry(c).excluded
          /\ election'[c].graceTick = Entry(c).graceTick
          /\ Entry(c).claims # {} => election'[c].closeTick = Entry(c).closeTick
          /\ Entry(c).claims = {} /\ ~Entry(c).resolved =>
                election'[c].closeTick = x.tick + SettleTicks
          /\ election'[c] # None /\ now' = now
      BY <1>2, <1>5, <2>2, AddsFacts
    <3>2. x \in Claims /\ 1 <= x.tick /\ x.tick \in Nat
      BY <1>5, ClaimFacts DEF Adds
    <3>3. CASE election[c] = None
      <4>1. /\ Entry(c).claims = {} /\ ~Entry(c).resolved /\ Entry(c).excluded = {}
        BY <3>3, NewEntryFacts DEF Entry
      <4>2. ~HasClosed(c)' /\ ~election'[c].resolved /\ election'[c].excluded = {}
        BY <3>1, <4>1 DEF HasClosed
      <4>3. Opened(c, election[c].closeTick)'
        <5>1. x \in election'[c].claims /\ election'[c].closeTick = x.tick + SettleTicks
          BY <3>1, <4>1
        <5>2. x.tick + SettleTicks <= election'[c].closeTick
          BY <3>2, <5>1, TickFacts
        <5> QED
          BY <3>2, <5>1, <5>2
      <4> QED
        BY <4>2, <4>3
    <3>4. CASE election[c] # None
      <4>1. Entry(c) = election[c] /\ Competes(c) /\ (HasClosed(c)' <=> HasClosed(c))
        BY <2>2, <3>1, <3>4 DEF Entry, Competes, HasClosed
      <4>2. Right(c)
        BY <1>1, <1>2, <4>1
      <4>3. HasClosed(c) => Opened(c, now[c])'
        BY <3>1, <4>1, <4>2
      <4>4. ~HasClosed(c) => Opened(c, election[c].closeTick)'
        BY <3>1, <4>1, <4>2
      <4> QED
        BY <3>1, <4>1, <4>2, <4>3, <4>4
    <3> QED
      BY <3>3, <3>4
  <2> QED
    BY <2>1, <2>2
<1>6. CASE StoodDown(c) \/ IsExecuted(c) \/ IsErased(c)
  BY <1>6 DEF StoodDown, IsExecuted, IsErased, Competes
<1>7. ASSUME Ticks(c), IsKept(c) \/ PassesOn(c) \/ Skips(c) PROVE Right(c)'
  <2>1. /\ election[c] # None /\ ~election[c].executed /\ election[c] \in ElectionType
        /\ election'[c] \in ElectionType /\ election'[c] # None
        /\ election'[c].claims = election[c].claims
    BY <1>2, <1>7, NoneAssumption
       DEF Ticks, IsKept, PassesOn, Skips, WinsItsWindow, KeepsClaims, Competes, TypeOK
  <2>2. Competes(c) /\ Right(c)
    BY <1>1, <1>2, <2>1 DEF Competes
  <2>3. election[c].closeTick \in Nat /\ election[c].graceTick \in Nat
    BY <2>1 DEF ElectionType
  <2>4. HasClosed(c) \/ now'[c] >= election[c].closeTick =>
          1 + SettleTicks <= now'[c] /\ Opened(c, now[c])'
    <3>1. ASSUME NEW t \in Nat, t <= now'[c], Opened(c, t)
          PROVE  1 + SettleTicks <= now'[c] /\ Opened(c, now[c])'
      BY <1>2, <1>3, <2>1, <3>1, OpenUntilStays DEF OpenUntil
    <3> QED
      BY <1>3, <2>2, <2>3, <3>1
  <2>5. CASE IsKept(c)
    <3>1. /\ election'[c].excluded = election[c].excluded
          /\ election'[c].closeTick = election[c].closeTick
          /\ \/ election'[c].graceTick = now'[c] + GraceTicks
             \/ election'[c].graceTick = election[c].graceTick
          /\ \/ election'[c].resolved = election[c].resolved
             \/ /\ election'[c].resolved /\ election'[c].graceTick = now'[c] + GraceTicks
                /\ now'[c] >= election[c].closeTick
      BY <2>1, <2>5 DEF IsKept
    <3>2. election'[c].excluded \ {c} # {} => Due <= now'[c]
      BY <1>3, <2>2, <3>1
    <3>3. election'[c].resolved => HasClosed(c) \/ now'[c] >= election[c].closeTick
      BY <2>1, <3>1 DEF HasClosed
    <3>4. election'[c].resolved => Due <= election'[c].graceTick
      <4>1. SUFFICES ASSUME election'[c].resolved PROVE Due <= election'[c].graceTick
        OBVIOUS
      <4>2. 1 + SettleTicks <= now'[c]
        BY <2>4, <3>3, <4>1
      <4>3. election'[c].graceTick = now'[c] + GraceTicks => Due <= election'[c].graceTick
        BY <1>3, <4>2, PromptFacts
      <4> QED
        BY <2>2, <3>1, <4>1, <4>3
    <3>5. HasClosed(c)' => HasClosed(c) \/ now'[c] >= election[c].closeTick
      BY <2>1, <3>1, <3>3 DEF HasClosed
    <3>6. ~HasClosed(c)' => ~HasClosed(c)
      BY <2>1, <3>1 DEF HasClosed
    <3>7. ~HasClosed(c)' => Opened(c, election[c].closeTick)'
      BY <2>1, <2>2, <3>1, <3>6
    <3> QED
      BY <2>4, <3>2, <3>4, <3>5, <3>7
  <2>6. CASE PassesOn(c)
    <3>1. /\ now'[c] >= election[c].closeTick /\ ~election'[c].resolved
          /\ election'[c].excluded = election[c].excluded \cup {c}
      BY <2>6 DEF PassesOn, WinsItsWindow
    <3>2. HasClosed(c)' /\ election'[c].excluded \ {c} = election[c].excluded \ {c}
      BY <2>1, <3>1 DEF HasClosed
    <3>3. election'[c].excluded \ {c} # {} => Due <= now'[c]
      BY <1>3, <2>2, <3>2
    <3> QED
      BY <2>4, <3>1, <3>2, <3>3
  <2>7. CASE Skips(c)
    <3>1. /\ election[c].resolved /\ now'[c] >= election[c].graceTick /\ ~election'[c].resolved
          /\ election'[c].excluded # {}
      BY <2>7 DEF Skips
    <3>2. HasClosed(c) /\ HasClosed(c)'
      BY <2>1, <3>1 DEF HasClosed
    <3>3. Due <= now'[c]
      BY <1>3, <2>2, <2>3, <3>1
    <3> QED
      BY <2>4, <3>1, <3>2, <3>3
  <2> QED
    BY <1>7, <2>5, <2>6, <2>7
<1> HIDE DEF Right
<1>8. Ticks(c) => Right(c)'
  BY <1>6, <1>7 DEF Ticks
<1> QED
  BY <1>2, <1>4, <1>5, <1>6, <1>8, EntrySteps

\* Who wins its window has the first of the claims it knows, the window of which is over; if
\* it has passed on somebody, the grace time is over as well.
LEMMA WinningFacts ==
  ASSUME OneRound, Prompt, TypeOK, DropInv, NEW c \in Client, NEW accepted \in BOOLEAN,
         GameTick(c, accepted), election[c] # None, WinsItsWindow(c)
  PROVE  \E w \in Claims :
           /\ w.dpid = c /\ Holds(c, w) /\ w \in Known
           /\ \A x : Holds(c, x) /\ x.dpid \notin election[c].excluded => x = w \/ Beats(w, x)
           /\ election[c].excluded = {} => w.tick + SettleTicks <= now'[c]
           /\ election[c].excluded # {} => 1 + SettleTicks + GraceTicks <= now[c]
           /\ election[c].excluded \cap alive = {} /\ ~IsOver(c)
<1> DEFINE e == election[c]
           Due == 1 + SettleTicks + GraceTicks
<1>1. /\ e \in ElectionType /\ ~e.executed /\ ~e.resolved /\ now'[c] >= e.closeTick
      /\ Candidates(e) # {} /\ Winner(e) = c
  BY DEF WinsItsWindow, TypeOK
<1>2. /\ c \in alive /\ now[c] \in Nat /\ now'[c] = now[c] + 1
      /\ \A d \in alive : now[d] \in Nat /\ now[c] < now[d] + MaxSkew
      /\ \A m \in net : m.to = c => now[c] + 1 <= m.tick + MaxDelay
  BY AdvanceFacts DEF TypeOK
<1>3. PICK w \in Candidates(e) : /\ w \in Claims /\ w.dpid = c
                                 /\ \A y \in Candidates(e) : y = w \/ Beats(w, y)
  BY <1>1, WinnerIsFirst
<1>4. Holds(c, w) /\ c \notin e.excluded /\ w \in Known
  BY <1>3 DEF Holds, Candidates, Known
<1>5. w.tick \in Nat /\ 1 <= w.tick /\ w.tick <= LastClaim
  BY <1>3, <1>4, ClaimFacts DEF DropInv, OriginInv
<1>6. Competes(c)
  BY <1>1 DEF Competes
<1>7. e.excluded = {} => w.tick + SettleTicks <= now'[c]
  <2>1. SUFFICES ASSUME e.excluded = {} PROVE w.tick + SettleTicks <= now'[c]
    OBVIOUS
  <2>2. OpenUntil(c, e.closeTick)
    BY <1>1, <1>2, <1>6, <2>1 DEF DropInv, OpenInv, HasClosed
  <2>3. PICK s \in e.claims : s.tick + SettleTicks <= e.closeTick
    BY <2>2 DEF OpenUntil
  <2>4. s \in Candidates(e) /\ s \in Claims
    BY <2>1, <2>3, EntryHolds DEF Candidates, Holds
  <2>5. w.tick <= s.tick
    BY <1>3, <2>4, ClaimFacts, BeatsIsOrder
  <2>6. e.closeTick \in Nat /\ s.tick \in Nat
    BY <1>1, <2>4, ClaimFacts DEF ElectionType
  <2> QED
    BY <1>1, <1>2, <1>5, <2>3, <2>5, <2>6, TickFacts
<1>8. e.excluded # {} => Due <= now[c]
  BY <1>2, <1>4, <1>6 DEF DropInv, OpenInv
<1>9. e.excluded \cap alive = {} /\ ~IsOver(c)
  BY <1>1, <1>2, <1>4 DEF DropInv, PassInv, IsOver
<1>10. \A x : Holds(c, x) /\ x.dpid \notin e.excluded => x \in Candidates(e)
  BY DEF Holds, Candidates
<1> QED
  BY <1>3, <1>4, <1>7, <1>8, <1>9, <1>10

\* Who wins its window comes before everybody who is still in the game: a claim it has not
\* heard of is too late to be stamped earlier, or not made in time at all.
LEMMA WinningIsForemost ==
  ASSUME OneRound, Prompt, TypeOK, DropInv, NEW c \in Client, NEW accepted \in BOOLEAN,
         GameTick(c, accepted), election[c] # None, WinsItsWindow(c)
  PROVE  \E w \in Claims :
           /\ w.dpid = c /\ Holds(c, w) /\ w \in Known /\ Foremost(w)
           /\ \A x \in Claims : x.dpid \in alive /\ Reaches(x, c) => x = w \/ Beats(w, x)
<1> DEFINE e == election[c]
           Due == 1 + SettleTicks + GraceTicks
<1>1. PICK w \in Claims :
        /\ w.dpid = c /\ Holds(c, w) /\ w \in Known
        /\ \A x : Holds(c, x) /\ x.dpid \notin e.excluded => x = w \/ Beats(w, x)
        /\ e.excluded = {} => w.tick + SettleTicks <= now'[c]
        /\ e.excluded # {} => Due <= now[c]
        /\ e.excluded \cap alive = {} /\ ~IsOver(c)
  BY WinningFacts
<1>2. /\ c \in alive /\ now[c] \in Nat /\ now'[c] = now[c] + 1
      /\ \A d \in alive : now[d] \in Nat /\ now[c] < now[d] + MaxSkew
      /\ \A m \in net : m.to = c => now[c] + 1 <= m.tick + MaxDelay
  BY AdvanceFacts DEF TypeOK
<1>3. w.tick \in Nat /\ w.tick <= LastClaim
  BY <1>1, ClaimFacts DEF DropInv, OriginInv
<1>4. ASSUME NEW x \in Claims, x.dpid \in alive, Reaches(x, c)
      PROVE  x = w \/ Beats(w, x)
  <2>1. Holds(c, x) => x = w \/ Beats(w, x)
    BY <1>1, <1>4
  <2>2. ASSUME NEW m \in net, m.command = "Claim", m.to = c, ClaimOf(m) = x
        PROVE  Beats(w, x)
    <3>1. now[c] + 1 <= x.tick + MaxDelay /\ x.tick <= LastClaim /\ x.tick \in Nat
      BY <1>2, <2>2, ClaimFacts, InTime DEF DropInv, ClaimOf
    <3>2. e.excluded = {}
      BY <1>1, <1>2, <3>1, PromptFacts
    <3>3. w.tick < x.tick
      BY <1>1, <1>2, <1>3, <3>1, <3>2, TickFacts
    <3> QED
      BY <3>3 DEF Beats
  <2> QED
    BY <1>1, <1>4, <2>1, <2>2 DEF Reaches, Settles
<1>5. ASSUME NEW x \in Claims, Contending(x) PROVE x = w \/ Beats(w, x)
  BY <1>2, <1>4, <1>5 DEF DropInv, ReachInv, Contending
<1>6. ASSUME NEW p \in alive PROVE w.tick < now[p]
  <2>1. now[p] \in Nat /\ now[c] < now[p] + MaxSkew
    BY <1>2
  <2>2. CASE e.excluded = {}
    BY <1>1, <1>2, <1>3, <2>1, <2>2, TickFacts
  <2>3. CASE e.excluded # {}
    BY <1>1, <1>2, <1>3, <2>1, <2>3, PromptFacts
  <2> QED
    BY <2>2, <2>3
<1>7. Foremost(w)
  BY <1>5, <1>6 DEF Foremost
<1> QED
  BY <1>1, <1>4, <1>7

LEMMA PassInvStays ==
  ASSUME OneRound, Prompt, TypeOK, DropInv, Next
  PROVE  PassInv'
<1> DEFINE Fair(c) ==
             /\ election[c].excluded \cap alive \subseteq {c}
             /\ c \in election[c].excluded =>
                   ~MayTake(c) /\ \E w \in election[c].claims : w.dpid = c /\ Foremost(w)
             /\ election[c].executed => election[c].retireTick >= ElectionKeepTicks
<1> SUFFICES ASSUME NEW c \in alive', election'[c] # None PROVE Fair(c)'
  <2>1. \A c \in alive' : election'[c] # None => Fair(c)'
    OBVIOUS
  <2> QED
    BY <2>1 DEF PassInv
<1>1. c \in alive /\ c \in Client /\ alive' \subseteq alive
  BY AnyStep DEF IsQuiet, TypeOK
<1>2. election[c] # None => Fair(c)
  BY <1>1 DEF DropInv, PassInv
<1>3. ASSUME election[c] # None,
             election'[c].excluded \cap alive' \subseteq election[c].excluded,
             election[c].claims \subseteq election'[c].claims,
             election'[c].executed => election'[c].retireTick >= ElectionKeepTicks
      PROVE  Fair(c)'
  <2>1. election'[c].excluded \cap alive' \subseteq {c}
    BY <1>1, <1>2, <1>3
  <2>2. ASSUME c \in election'[c].excluded
        PROVE  ~MayTake(c)' /\ \E w \in election'[c].claims : w.dpid = c /\ Foremost(w)'
    <3>1. c \in election[c].excluded
      BY <1>3, <2>2
    <3>2. ~MayTake(c) /\ \E w \in election[c].claims : w.dpid = c /\ Foremost(w)
      BY <1>2, <1>3, <3>1
    <3>3. PICK w \in election[c].claims : w.dpid = c /\ Foremost(w)
      BY <3>2
    <3>4. w \in Claims /\ w \in election'[c].claims
      BY <1>1, <1>3, EntryHolds DEF Holds
    <3>5. Foremost(w)'
      BY <3>3, <3>4, ForemostStays
    <3> QED
      BY <1>1, <3>2, <3>3, <3>4, <3>5, RefusalStays
  <2> QED
    BY <1>3, <2>1, <2>2
<1> HIDE DEF Fair
<1>4. CASE election'[c] = election[c]
  BY <1>2, <1>3, <1>4 DEF Fair
<1>5. ASSUME NEW x, Adds(c, x) PROVE Fair(c)'
  <2>1. CASE Entry(c).executed
    BY <1>1, <1>4, <1>5, <2>1, AddsFacts
  <2>2. CASE ~Entry(c).executed
    <3>1. /\ election'[c].claims = Entry(c).claims \cup {x} /\ ~election'[c].executed
          /\ election'[c].excluded = Entry(c).excluded
      BY <1>1, <1>5, <2>2, AddsFacts
    <3>2. CASE election[c] = None
      BY <3>1, <3>2, NewEntryFacts DEF Entry, Fair
    <3>3. CASE election[c] # None
      BY <1>3, <3>1, <3>3 DEF Entry
    <3> QED
      BY <3>2, <3>3
  <2> QED
    BY <2>1, <2>2
<1>6. CASE StoodDown(c)
  <2>1. CASE election[c] = None
    BY <1>6, <2>1, NewEntryFacts DEF StoodDown, Entry, Fair
  <2>2. CASE election[c] # None
    BY <1>3, <1>6, <2>2 DEF StoodDown, Entry
  <2> QED
    BY <2>1, <2>2
<1>7. ASSUME Ticks(c), IsKept(c) \/ IsExecuted(c) PROVE Fair(c)'
  <2>1. election'[c].executed => election'[c].retireTick >= ElectionKeepTicks
    BY <1>2, <1>7 DEF Ticks, IsKept, IsExecuted, Fair
  <2> QED
    BY <1>3, <1>7, <2>1 DEF Ticks, IsKept, IsExecuted, KeepsClaims
<1>8. ASSUME Ticks(c), Skips(c), Winner(election[c]) \notin alive PROVE Fair(c)'
  BY <1>1, <1>3, <1>8 DEF Ticks, Skips, KeepsClaims
<1>9. ASSUME Ticks(c), PassesOn(c) PROVE Fair(c)'
  <2>1. /\ election[c] # None /\ WinsItsWindow(c) /\ ~MayTake(c) /\ ~election'[c].executed
        /\ election'[c].claims = election[c].claims
        /\ election'[c].excluded = election[c].excluded \cup {c}
    BY <1>9 DEF Ticks, PassesOn, KeepsClaims
  <2>2. PICK w \in Claims : w.dpid = c /\ Holds(c, w) /\ Foremost(w)
    BY <1>1, <1>9, <2>1, WinningIsForemost DEF Ticks
  <2>3. Foremost(w)' /\ w \in election'[c].claims
    BY <2>1, <2>2, ForemostStays DEF Holds
  <2>4. ~MayTake(c)'
    BY <1>1, <2>1, RefusalStays
  <2>5. election'[c].excluded \cap alive' \subseteq {c}
    BY <1>1, <1>2, <2>1 DEF Fair
  <2> QED
    BY <2>1, <2>2, <2>3, <2>4, <2>5 DEF Fair
<1>10. Ticks(c) => Fair(c)'
  BY <1>7, <1>8, <1>9 DEF Ticks, IsErased
<1> QED
  BY <1>1, <1>4, <1>5, <1>6, <1>10, EntrySteps

\* The claim of a taker comes before those of all others in the game, so it is the only one.
LEMMA TakeInvStays ==
  ASSUME OneRound, Prompt, TypeOK, DropInv, Next
  PROVE  TakeInv' /\ OneTaker'
<1>0. /\ TakeInv /\ OneTaker /\ takers \subseteq Client /\ alive \subseteq Client
      /\ alive' \subseteq alive
  BY AnyStep DEF IsQuiet, DropInv, TypeOK
<1>1. ASSUME NEW w \in Claims, w.dpid \in alive', Foremost(w), \A d \in alive : Reaches(w, d)
      PROVE  Foremost(w)' /\ \A d \in alive' : Reaches(w, d)'
  BY <1>0, <1>1, ForemostStays, ReachesStays
<1>2. ASSUME NEW k \in takers, k \in alive'
      PROVE  \E w \in Claims : w.dpid = k /\ Foremost(w)' /\ \A d \in alive' : Reaches(w, d)'
  <2>1. PICK w \in Claims : w.dpid = k /\ Foremost(w) /\ \A d \in alive : Reaches(w, d)
    BY <1>0, <1>2 DEF TakeInv
  <2> QED
    BY <1>1, <1>2, <2>1
<1>3. CASE takers' = takers
  BY <1>0, <1>2, <1>3 DEF TakeInv, OneTaker
<1>4. ASSUME NEW c \in Client, NEW accepted \in BOOLEAN, GameTick(c, accepted),
             election[c] # None, Takes(c)
      PROVE  TakeInv' /\ OneTaker'
  <2>1. takers' = takers \cup {c} /\ WinsItsWindow(c) /\ alive' = alive /\ c \in alive
    BY <1>4, AdvanceFacts DEF Takes
  <2>2. PICK w \in Claims :
           /\ w.dpid = c /\ w \in Known /\ Foremost(w)
           /\ \A x \in Claims : x.dpid \in alive /\ Reaches(x, c) => x = w \/ Beats(w, x)
    BY <1>4, <2>1, WinningIsForemost
  <2>3. \A d \in alive : Reaches(w, d)
    BY <2>1, <2>2 DEF DropInv, ReachInv, Contending
  <2>4. Foremost(w)' /\ \A d \in alive' : Reaches(w, d)'
    BY <1>1, <2>1, <2>2, <2>3
  <2>5. TakeInv'
    BY <1>2, <2>1, <2>2, <2>4 DEF TakeInv
  <2>6. ASSUME NEW k \in takers, k \in alive PROVE k = c
    <3>1. PICK v \in Claims : v.dpid = k /\ Foremost(v) /\ Reaches(v, c)
      BY <1>0, <2>1, <2>6 DEF TakeInv
    <3>2. v = w \/ Beats(w, v)
      BY <2>2, <2>6, <3>1
    <3>3. w = v \/ Beats(v, w)
      BY <2>1, <2>2, <3>1 DEF Foremost, Contending
    <3> QED
      BY <2>2, <3>1, <3>2, <3>3, BeatsIsOrder
  <2> QED
    BY <2>1, <2>5, <2>6 DEF OneTaker
<1>5. ASSUME NEW c \in Client, NEW accepted \in BOOLEAN, GameTick(c, accepted)
      PROVE  TakeInv' /\ OneTaker'
  <2>1. election[c] = None => takers' = takers
    BY <1>5 DEF GameTick
  <2>2. election[c] # None => takers' = takers \/ Takes(c)
    BY <1>5, TickedEntry DEF IsErased, IsKept, GivesUp, PassesOn, Skips
  <2> QED
    BY <1>3, <1>4, <1>5, <2>1, <2>2
<1> QED
  BY <1>3, <1>5, AnyStep DEF BeginClaim, OnClaim, OnTakeSeen, OnComplete, IsQuiet

LEMMA InitialDrop == Init => DropInv
<1> SUFFICES ASSUME Init PROVE DropInv
  OBVIOUS
<1>1. Known = {}
  BY DEF Init, Known, Holds
<1>2. ClocksInv /\ PacketsInv
  BY InitialRound DEF RoundInv
<1> QED
  BY <1>1, <1>2 DEF Init, DropInv, OriginInv, ReachInv, Contending, OpenInv, Competes, PassInv,
     TakeInv, OneTaker

LEMMA DropInvStays ==
  ASSUME OneRound, Prompt, TypeOK, DropInv, [Next]_vars
  PROVE  DropInv'
<1>1. CASE Next
  <2>1. ClocksInv' /\ PacketsInv'
    BY <1>1, ClocksStay, PacketsStay DEF DropInv
  <2> QED
    BY <1>1, <2>1, OriginInvStays, ReachInvStays, OpenInvStays, PassInvStays, TakeInvStays
       DEF DropInv
<1>2. CASE UNCHANGED vars
  <2>1. /\ now' = now /\ election' = election /\ net' = net /\ takers' = takers
        /\ alive' = alive /\ eligible' = eligible /\ rejected' = rejected
    BY <1>2 DEF vars
  <2>2. \A c, x : Holds(c, x)' <=> Holds(c, x)
    BY <2>1 DEF Holds
  <2>3. Known' = Known
    BY <2>1, <2>2 DEF Known
  <2>4. \A w : Foremost(w)' <=> Foremost(w)
    BY <2>1, <2>3 DEF Foremost, Contending
  <2>5. \A c : /\ IsOver(c)' <=> IsOver(c)
               /\ Competes(c)' <=> Competes(c)
               /\ HasClosed(c)' <=> HasClosed(c)
               /\ MayTake(c)' <=> MayTake(c)
    BY <2>1 DEF IsOver, Competes, HasClosed, MayTake
  <2>6. \A x, d : /\ Settles(x, d)' <=> Settles(x, d)
                  /\ Reaches(x, d)' <=> Reaches(x, d)
    BY <2>1, <2>2, <2>5 DEF Settles, Reaches
  <2>7. ClocksInv' /\ PacketsInv' /\ OneTaker'
    BY <2>1 DEF DropInv, ClocksInv, PacketsInv, OneTaker
  <2>8. OriginInv' /\ ReachInv'
    BY <2>1, <2>3, <2>6 DEF DropInv, OriginInv, ReachInv, Contending
  <2>9. OpenInv'
    BY <2>1, <2>5 DEF DropInv, OpenInv, OpenUntil
  <2>10. PassInv' /\ TakeInv'
    BY <2>1, <2>4, <2>5, <2>6 DEF DropInv, PassInv, TakeInv
  <2> QED
    BY <2>7, <2>8, <2>9, <2>10 DEF DropInv
<1> QED
  BY <1>1, <1>2

\* Who waits for somebody in the game knows the first claim of those who are: that of whom
\* it waits for, or its own, which it may not take by.
LEMMA WaitsForForemost ==
  ASSUME OneRound, Prompt, TypeOK, DropInv, NEW b \in alive, NEW u \in alive, WaitsFor(b, u)
  PROVE  \E x \in Claims : /\ Contending(x)
                           /\ \A y \in Claims : Contending(y) => x = y \/ Beats(x, y)
                           /\ x.dpid = u \/ (x.dpid = b /\ ~MayTake(b))
<1> DEFINE e == election[b]
           Due == 1 + SettleTicks + GraceTicks
<1>1. /\ b \in Client /\ election[b] # None /\ e \in ElectionType /\ e.resolved /\ ~e.executed
      /\ Candidates(e) # {} /\ Winner(e) = u /\ now[b] \in Nat
  BY DEF WaitsFor, Waits, TypeOK
<1>2. Competes(b) /\ HasClosed(b)
  BY <1>1 DEF Competes, HasClosed
<1>3. CASE b \in e.excluded
  <2>1. PICK x \in e.claims : x.dpid = b /\ Foremost(x)
    BY <1>1, <1>3 DEF DropInv, PassInv
  <2>2. x \in Claims /\ Contending(x) /\ ~MayTake(b)
    BY <1>1, <1>3, <2>1, EntryHolds DEF DropInv, PassInv, Contending, Known, Holds
  <2> QED
    BY <2>1, <2>2 DEF Foremost
<1>4. CASE b \notin e.excluded
  <2>1. PICK w \in Candidates(e) : /\ w \in Claims /\ w.dpid = u
                                   /\ \A y \in Candidates(e) : y = w \/ Beats(w, y)
    BY <1>1, WinnerIsFirst
  <2>2. Contending(w)
    BY <1>1, <2>1 DEF Contending, Known, Holds, Candidates
  <2>3. e.excluded \cap alive = {}
    BY <1>1, <1>4 DEF DropInv, PassInv
  <2>4. ASSUME NEW y \in Claims, Contending(y) PROVE w = y \/ Beats(w, y)
    <3>1. Reaches(y, b) /\ y.dpid \in alive
      BY <2>4 DEF DropInv, ReachInv, Contending
    <3>2. CASE Holds(b, y)
      BY <2>1, <2>3, <3>1, <3>2 DEF Holds, Candidates
    <3>3. ASSUME NEW m \in net, m.command = "Claim", m.to = b, ClaimOf(m) = y
          PROVE  Beats(w, y)
      <4>1. /\ now[b] < y.tick + SettleTicks /\ y.tick <= LastClaim
            /\ now[b] <= y.tick + MaxDelay \/ now[b] <= y.tick + MaxSkew
            /\ y.tick \in Nat /\ w.tick \in Nat
        BY <2>1, <2>4, <3>3, ClaimFacts, InTime DEF DropInv, PacketsInv, ClaimOf
      <4>2. e.excluded # {} => Due <= now[b]
        BY <1>4, <1>2 DEF DropInv, OpenInv
      <4>3. e.excluded = {}
        BY <1>1, <4>1, <4>2, PromptFacts
      <4>4. PICK s \in e.claims : s.tick + SettleTicks <= now[b]
        BY <1>2 DEF DropInv, OpenInv, OpenUntil
      <4>5. s \in Candidates(e) /\ s \in Claims
        BY <1>1, <4>3, <4>4, EntryHolds DEF Candidates, Holds
      <4>6. w.tick <= s.tick /\ s.tick \in Nat
        BY <2>1, <4>5, ClaimFacts, BeatsIsOrder
      <4>7. w.tick < y.tick
        BY <1>1, <4>1, <4>4, <4>6, TickFacts
      <4> QED
        BY <4>7 DEF Beats
    <3>4. ~IsOver(b)
      BY <1>1 DEF IsOver
    <3> QED
      BY <3>1, <3>2, <3>3, <3>4 DEF Reaches, Settles
  <2> QED
    BY <2>1, <2>2, <2>4
<1> QED
  BY <1>3, <1>4

LEMMA DropHasOneWinner ==
  ASSUME OneRound, Prompt, TypeOK, DropInv
  PROVE  SameWinner
<1> SUFFICES ASSUME NEW c \in alive, NEW d \in alive, NEW v \in alive, NEW w \in alive,
                    WaitsFor(c, v), WaitsFor(d, w), MayTake(v), MayTake(w)
             PROVE  v = w
  BY DEF SameWinner
<1>1. PICK x \in Claims : /\ Contending(x)
                          /\ \A z \in Claims : Contending(z) => x = z \/ Beats(x, z)
                          /\ x.dpid = v \/ (x.dpid = c /\ ~MayTake(c))
  BY WaitsForForemost
<1>2. PICK y \in Claims : /\ Contending(y)
                          /\ \A z \in Claims : Contending(z) => y = z \/ Beats(y, z)
                          /\ y.dpid = w \/ (y.dpid = d /\ ~MayTake(d))
  BY WaitsForForemost
<1>3. x = y
  BY <1>1, <1>2, BeatsIsOrder
<1>4. c = d => v = w
  BY DEF WaitsFor
<1> QED
  BY <1>1, <1>2, <1>3, <1>4

\* Clients may drop out at any time, with what they sent last: as long as the claims are
\* made before any window can close, no two clients still in the game have both emitted a
\* '.take' of the target (kSettleTicks, kGraceTicks, PickWinner and the grace path).
THEOREM OneTakerDespiteDropOuts ==
  ASSUME OneRound, Prompt
  PROVE  Spec => []OneTaker
<1>1. TypeOK /\ DropInv /\ [Next]_vars => DropInv'
  BY DropInvStays
<1>2. DropInv => OneTaker
  BY DEF DropInv
<1> QED
  BY InitialDrop, <1>1, <1>2, TypeInvariant, PTL DEF Spec

\* Under the same conditions, clients that wait for somebody who is there and may take wait
\* for the same one, though claims of clients that dropped out have reached only some.
THEOREM SameWinnerDespiteDropOuts ==
  ASSUME OneRound, Prompt
  PROVE  Spec => []SameWinner
<1>1. TypeOK /\ DropInv /\ [Next]_vars => DropInv'
  BY DropInvStays
<1>2. TypeOK /\ DropInv => SameWinner
  BY DropHasOneWinner
<1> QED
  BY InitialDrop, <1>1, <1>2, TypeInvariant, PTL DEF Spec

-----------------------------------------------------------------------------
(* The Complete, when one client may drop out *)

\* One client may drop out, and the '.take' of somebody who passed on nobody arrives before
\* the grace time is over anywhere.
OneMayDrop ==
    /\ \A c, d \in CanCrash : c = d
    /\ LastClaim + MaxDelay <= GraceTicks + 1

\* A window is closed at the first tick at which it is over.
CloseInv ==
    \A c \in alive : Competes(c) /\ ~HasClosed(c) =>
        now[c] < election[c].closeTick /\ election[c].closeTick <= LastClaim + SettleTicks

\* A '.take' does not overtake the claim it follows from, which comes before all others.
NewsInv ==
    \A m \in net : m.command = "take" =>
        /\ m.from \in CanCrash => m.tick <= LastClaim + SettleTicks
        /\ \E w \in Claims : /\ w.dpid = m.from /\ w.tick <= m.tick /\ Foremost(w)
                             /\ m.to \in alive => Reaches(w, m.to)

HandInv == /\ DropInv /\ CloseInv /\ NewsInv /\ Unrivalled /\ DrainInv
           /\ Client \ alive \subseteq CanCrash

LEMMA CloseInvStays ==
  ASSUME OneRound, Prompt, TypeOK, DropInv, CloseInv, Next
  PROVE  CloseInv'
<1> SUFFICES ASSUME NEW c \in alive', Competes(c)', ~HasClosed(c)'
             PROVE  /\ now'[c] < election'[c].closeTick
                    /\ election'[c].closeTick <= LastClaim + SettleTicks
  BY DEF CloseInv
<1>1. c \in alive /\ c \in Client
  BY AnyStep DEF IsQuiet, TypeOK
<1>2. election'[c] # None /\ ~election'[c].executed /\ ~election'[c].resolved
      /\ election'[c].excluded = {}
  BY DEF Competes, HasClosed
<1>3. CASE election'[c] = election[c] /\ now'[c] = now[c]
  BY <1>1, <1>2, <1>3 DEF CloseInv, Competes, HasClosed
<1>4. ASSUME NEW x, Adds(c, x)
      PROVE  /\ now'[c] < election'[c].closeTick
             /\ election'[c].closeTick <= LastClaim + SettleTicks
  <2>1. now' = now /\ (Entry(c).executed => election'[c] = election[c])
    BY <1>1, <1>4, AddsFacts
  <2>2. CASE ~Entry(c).executed
    <3>1. /\ ~Entry(c).resolved /\ Entry(c).excluded = {}
          /\ Entry(c).claims # {} => election'[c].closeTick = Entry(c).closeTick
          /\ Entry(c).claims = {} => election'[c].closeTick = x.tick + SettleTicks
      BY <1>1, <1>2, <1>4, <2>2, AddsFacts
    <3>2. CASE Entry(c).claims = {}
      <4>1. x.tick <= LastClaim /\ now[c] < x.tick + SettleTicks /\ x.tick \in Nat
        BY <1>4, ClaimFacts DEF Adds
      <4>2. x.tick + SettleTicks <= LastClaim + SettleTicks
        BY <4>1, PromptFacts
      <4> QED
        BY <2>1, <3>1, <3>2, <4>1, <4>2
    <3>3. CASE Entry(c).claims # {}
      <4>1. election[c] # None /\ Entry(c) = election[c]
        BY <3>3, NewEntryFacts DEF Entry
      <4> QED
        BY <1>1, <2>1, <2>2, <3>1, <3>3, <4>1 DEF CloseInv, Competes, HasClosed
    <3> QED
      BY <3>2, <3>3
  <2> QED
    BY <1>3, <2>1, <2>2
<1>5. CASE Ticks(c)
  <2>1. IsKept(c)
    BY <1>2, <1>5 DEF Ticks, IsErased, IsExecuted, PassesOn, Skips
  <2>2. /\ election[c] # None /\ ~election[c].executed /\ election[c].excluded = {}
        /\ ~election[c].resolved /\ election'[c].closeTick = election[c].closeTick
        /\ now'[c] < election[c].closeTick
    BY <1>2, <1>5, <2>1 DEF Ticks, IsKept
  <2> QED
    BY <1>1, <2>2 DEF CloseInv, Competes, HasClosed
<1> QED
  BY <1>1, <1>2, <1>3, <1>4, <1>5, EntrySteps DEF StoodDown

\* Whoever sends a '.take' has won its window.
LEMMA TakeSent ==
  ASSUME TypeOK, Next, NEW m \in net', m \notin net, m.command = "take"
  PROVE  \E c \in Client, accepted \in BOOLEAN :
           /\ GameTick(c, accepted) /\ election[c] # None /\ WinsItsWindow(c)
           /\ takers' = takers \cup {c} /\ m.from = c /\ m.tick = now'[c]
<1>1. ASSUME NEW c \in Client, BeginClaim(c) PROVE FALSE
  BY <1>1 DEF BeginClaim, ToOthers, Packet
<1>2. ASSUME NEW c \in Client, NEW accepted \in BOOLEAN, GameTick(c, accepted)
      PROVE  /\ election[c] # None /\ WinsItsWindow(c)
             /\ takers' = takers \cup {c} /\ m.from = c /\ m.tick = now'[c]
  <2> DEFINE t  == now[c] + 1
             e  == election[c]
             e2 == AfterFinish(AfterDrain(e, t), t)
             d  == IF e = None THEN "wait" ELSE IF Retires(e2, t) THEN "retire"
                   ELSE Decision(c, e2, t)
  <2>1. d = "take" /\ takers' = takers \cup {c} /\ m \in Announced(c, t, accepted)
    <3>1. /\ takers' = IF d = "take" THEN takers \cup {c} ELSE takers
          /\ net' \subseteq net \cup ToOthers("Complete", c, t)
                            \cup (IF d = "take" THEN Announced(c, t, accepted) ELSE {})
      BY <1>2 DEF GameTick
    <3>2. m \notin ToOthers("Complete", c, t)
      BY DEF ToOthers, Packet
    <3> HIDE DEF d
    <3> QED
      BY <3>1, <3>2
  <2>2. m.from = c /\ m.tick = t /\ now'[c] = t
    BY <1>2, <2>1, AdvanceFacts DEF Announced, ToOthers, ToAll, Packet
  <2>3. e # None /\ Decision(c, e2, t) = "take"
    BY <2>1
  <2>4. e \in ElectionType /\ t \in Nat
    BY <1>2, <2>3, AdvanceFacts DEF TypeOK
  <2>5. /\ e2.closeTick = e.closeTick /\ e2.resolved = e.resolved /\ e2.executed = e.executed
        /\ Candidates(e2) = Candidates(e) /\ Winner(e2) = Winner(e)
    BY <2>4, WatchKeeps
  <2> HIDE DEF e2
  <2>6. /\ ~e2.resolved /\ t >= e2.closeTick /\ ~e2.executed
        /\ Candidates(e2) # {} /\ Winner(e2) = c
    BY <2>3 DEF Decision
  <2> QED
    BY <2>1, <2>2, <2>3, <2>5, <2>6 DEF WinsItsWindow
<1>3. ASSUME net' \subseteq net PROVE FALSE
  BY <1>3
<1> QED
  BY <1>1, <1>2, <1>3, AnyStep DEF OnClaim, OnTakeSeen, OnComplete, Arrives, IsQuiet

\* The client that may drop out passes on nobody else, and so takes when its window closes.
LEMMA TakesAtOnce ==
  ASSUME OneRound, Prompt, OneMayDrop, TypeOK, HandInv, NEW c \in Client,
         NEW accepted \in BOOLEAN, GameTick(c, accepted), election[c] # None,
         WinsItsWindow(c), c \in CanCrash
  PROVE  now'[c] <= LastClaim + SettleTicks
<1>1. /\ c \in alive /\ now[c] \in Nat /\ now'[c] = now[c] + 1
      /\ election[c] \in ElectionType
  BY AdvanceFacts DEF TypeOK
<1>2. election[c].excluded \cap alive = {}
  BY WinningFacts DEF HandInv
<1>3. election[c].excluded = {}
  <2>1. ASSUME NEW p \in election[c].excluded PROVE FALSE
    <3>1. p \in Client \ alive
      BY <1>1, <1>2, <2>1 DEF ElectionType
    <3> QED
      BY <1>1, <3>1 DEF HandInv, OneMayDrop
  <2> QED
    BY <2>1
<1>4. now[c] < election[c].closeTick /\ election[c].closeTick <= LastClaim + SettleTicks
  BY <1>1, <1>3 DEF HandInv, CloseInv, Competes, HasClosed, WinsItsWindow
<1> QED
  BY <1>1, <1>4, PromptFacts DEF ElectionType

LEMMA NewsInvStays ==
  ASSUME OneRound, Prompt, OneMayDrop, TypeOK, HandInv, Next
  PROVE  NewsInv'
<1> SUFFICES ASSUME NEW m \in net', m.command = "take"
             PROVE  /\ m.from \in CanCrash => m.tick <= LastClaim + SettleTicks
                    /\ \E w \in Claims : /\ w.dpid = m.from /\ w.tick <= m.tick /\ Foremost(w)'
                                         /\ m.to \in alive' => Reaches(w, m.to)'
  BY DEF NewsInv
<1>0. DropInv /\ alive' \subseteq alive
  BY AnyStep DEF HandInv, IsQuiet
<1>1. CASE m \in net
  <2>1. PICK w \in Claims : /\ w.dpid = m.from /\ w.tick <= m.tick /\ Foremost(w)
                            /\ m.to \in alive => Reaches(w, m.to)
    BY <1>1 DEF HandInv, NewsInv
  <2>2. Foremost(w)'
    BY <1>0, <2>1, ForemostStays
  <2>3. m.to \in alive' => Reaches(w, m.to)'
    BY <1>0, <2>1, ReachesStays
  <2> QED
    BY <1>1, <2>1, <2>2, <2>3 DEF HandInv, NewsInv
<1>2. CASE m \notin net
  <2>1. PICK c \in Client, accepted \in BOOLEAN :
           /\ GameTick(c, accepted) /\ election[c] # None /\ WinsItsWindow(c)
           /\ m.from = c /\ m.tick = now'[c]
    BY <1>2, TakeSent
  <2>2. c \in alive /\ alive' = alive /\ now[c] \in Nat /\ now'[c] = now[c] + 1
    BY <2>1, AdvanceFacts
  <2>3. PICK w \in Claims : w.dpid = c /\ w \in Known /\ Foremost(w)
    BY <1>0, <2>1, WinningIsForemost
  <2>4. w.tick <= m.tick
    BY <2>1, <2>2, <2>3, ClaimFacts DEF Foremost
  <2>5. Foremost(w)' /\ \A d \in alive' : Reaches(w, d)'
    <3>1. \A d \in alive : Reaches(w, d)
      BY <1>0, <2>2, <2>3 DEF DropInv, ReachInv, Contending
    <3> QED
      BY <1>0, <2>2, <2>3, <3>1, ForemostStays, ReachesStays
  <2>6. m.from \in CanCrash => m.tick <= LastClaim + SettleTicks
    BY <2>1, TakesAtOnce
  <2> QED
    BY <2>1, <2>3, <2>4, <2>5, <2>6
<1> QED
  BY <1>1, <1>2

\* A '.take' that is still on its way to somebody who takes, as nobody else in the game has,
\* would be that of a client that dropped out: but whoever hears of the '.take' has heard of
\* the claim before, and whoever passed on it has heard of the '.take'.
LEMMA NoLateTake ==
  ASSUME OneRound, Prompt, OneMayDrop, TypeOK, HandInv, OneTaker', NEW c \in Client,
         NEW accepted \in BOOLEAN, GameTick(c, accepted), election[c] # None,
         WinsItsWindow(c), takers' = takers \cup {c},
         NEW m \in net, m.command = "take", m.to = c
  PROVE  m.from = c
<1> SUFFICES ASSUME m.from # c PROVE FALSE
  OBVIOUS
<1> DEFINE e == election[c]
<1>0. DropInv
  BY DEF HandInv
<1>1. /\ c \in alive /\ alive' = alive /\ now[c] \in Nat /\ now'[c] = now[c] + 1
      /\ m.from \in Client /\ m.tick \in Nat /\ now[c] + 1 <= m.tick + MaxDelay
      /\ \A n \in net : n.to = c => now[c] + 1 <= n.tick + MaxDelay
  BY AdvanceFacts
<1>2. m.from \in takers /\ m.from \notin alive /\ m.from \in CanCrash
  BY <1>1 DEF HandInv, DrainInv, OneTaker
<1>3. PICK w \in Claims : /\ w.dpid = m.from /\ w.tick <= m.tick /\ Foremost(w) /\ Reaches(w, c)
  BY <1>1 DEF HandInv, NewsInv
<1>4. PICK v \in Claims :
        /\ v.dpid = c /\ Holds(c, v) /\ v \in Known
        /\ \A x : Holds(c, x) /\ x.dpid \notin e.excluded => x = v \/ Beats(v, x)
        /\ e.excluded = {} => v.tick + SettleTicks <= now'[c]
        /\ e.excluded # {} => 1 + SettleTicks + GraceTicks <= now[c]
        /\ ~IsOver(c)
  BY <1>0, WinningFacts
<1>5. Beats(w, v)
  BY <1>1, <1>3, <1>4 DEF Foremost, Contending
<1>6. e.excluded = {}
  <2>1. m.tick <= LastClaim + SettleTicks
    BY <1>2 DEF HandInv, NewsInv
  <2> QED
    BY <1>1, <1>4, <2>1, PromptFacts DEF OneMayDrop
<1>7. CASE Holds(c, w)
  BY <1>3, <1>4, <1>5, <1>6, <1>7, BeatsIsOrder
<1>8. ASSUME NEW n \in net, n.command = "Claim", n.to = c, ClaimOf(n) = w PROVE FALSE
  <2>1. now[c] + 1 <= w.tick + MaxDelay
    BY <1>1, <1>8 DEF ClaimOf
  <2>2. w.tick <= v.tick /\ w.tick \in Nat /\ v.tick \in Nat
    BY <1>5, ClaimFacts, BeatsIsOrder
  <2> QED
    BY <1>1, <1>4, <1>6, <2>1, <2>2, TickFacts
<1> QED
  BY <1>3, <1>4, <1>7, <1>8 DEF Reaches, Settles

LEMMA UnrivalledStays ==
  ASSUME OneRound, Prompt, OneMayDrop, TypeOK, HandInv, OneTaker', Next
  PROVE  Unrivalled'
<1> SUFFICES ASSUME NEW m \in net', m.command = "take", m.to \in takers' \cap alive'
             PROVE  m.from = m.to
  BY DEF Unrivalled
<1>0. DropInv /\ alive' \subseteq alive
  BY AnyStep DEF HandInv, IsQuiet
<1>1. CASE m \notin net
  <2>1. PICK c \in Client, accepted \in BOOLEAN :
          GameTick(c, accepted) /\ takers' = takers \cup {c} /\ m.from = c
    BY <1>1, TakeSent
  <2>2. c \in alive'
    BY <2>1, AdvanceFacts
  <2> QED
    BY <2>1, <2>2 DEF OneTaker
<1>2. CASE m \in net /\ m.to \in takers
  BY <1>0, <1>2 DEF HandInv, Unrivalled
<1>3. CASE m \in net /\ m.to \notin takers
  <2>1. takers' # takers
    BY <1>3
  <2>2. PICK c \in Client, accepted \in BOOLEAN : GameTick(c, accepted)
    BY <2>1, AnyStep DEF BeginClaim, OnClaim, OnTakeSeen, OnComplete, IsQuiet
  <2>3. election[c] # None /\ Takes(c)
    <3>1. election[c] = None => takers' = takers
      BY <2>2 DEF GameTick
    <3> QED
      BY <2>1, <2>2, <3>1, TickedEntry DEF IsErased, IsKept, GivesUp, PassesOn, Skips
  <2>4. WinsItsWindow(c) /\ takers' = takers \cup {c} /\ m.to = c
    BY <1>3, <2>3 DEF Takes
  <2> QED
    BY <1>3, <2>2, <2>3, <2>4, NoLateTake
<1> QED
  BY <1>1, <1>2, <1>3

LEMMA HandInvStays ==
  ASSUME OneRound, Prompt, OneMayDrop, CanDecline = {}, TypeOK, HandInv, [Next]_vars
  PROVE  HandInv'
<1>0. DropInv /\ DropInv' /\ OneTaker'
  BY DropInvStays DEF HandInv, DropInv
<1>1. CASE Next
  <2>1. CloseInv' /\ NewsInv' /\ Unrivalled'
    BY <1>0, <1>1, CloseInvStays, NewsInvStays, UnrivalledStays DEF HandInv
  <2>2. DrainInv'
    BY <1>0, <1>1, DrainStays DEF HandInv, DropInv
  <2>3. Client \ alive' \subseteq CanCrash
    BY <1>1 DEF HandInv, Next, BeginClaim, OnClaim, OnTakeSeen, OnComplete, GameTick, Walk,
       Crash, LoseEligibility
  <2> QED
    BY <1>0, <2>1, <2>2, <2>3 DEF HandInv
<1>2. CASE UNCHANGED vars
  <2>1. /\ now' = now /\ election' = election /\ net' = net /\ takers' = takers
        /\ alive' = alive /\ units' = units /\ walking' = walking /\ walked' = walked
    BY <1>2 DEF vars, walk
  <2>2. \A c, x : Holds(c, x)' <=> Holds(c, x)
    BY <2>1 DEF Holds
  <2>3. Known' = Known
    BY <2>1, <2>2 DEF Known
  <2>4. \A w : Foremost(w)' <=> Foremost(w)
    BY <2>1, <2>3 DEF Foremost, Contending
  <2>5. \A c : /\ IsOver(c)' <=> IsOver(c)
               /\ Competes(c)' <=> Competes(c)
               /\ HasClosed(c)' <=> HasClosed(c)
               /\ Watches(c)' <=> Watches(c)
    BY <2>1 DEF IsOver, Competes, HasClosed, Watches, TargetLiveUnits
  <2>6. \A x, d : Reaches(x, d)' <=> Reaches(x, d)
    BY <2>1, <2>2, <2>5 DEF Settles, Reaches
  <2>7. CloseInv' /\ Unrivalled' /\ DrainInv'
    BY <2>1, <2>5 DEF HandInv, CloseInv, Unrivalled, DrainInv
  <2>8. NewsInv'
    BY <2>1, <2>4, <2>6 DEF HandInv, NewsInv
  <2> QED
    BY <1>0, <2>1, <2>7, <2>8 DEF HandInv
<1> QED
  BY <1>1, <1>2

\* One client may drop out, before its '.take' or after: as long as the claims are made in
\* time for a '.take' to arrive before anybody passes on its sender, and dplayx accepts every
\* '.take', a taker announces its Complete only when the walk has handed everything over, or
\* the backstop has run out (TransferQuiescent).
THEOREM NoPrematureCompleteDespiteADropOut ==
  ASSUME OneRound, Prompt, OneMayDrop, CanDecline = {}
  PROVE  Spec => NoPrematureComplete
<1>1. Init => HandInv
  BY InitialDrop DEF Init, HandInv, CloseInv, NewsInv, Unrivalled, DrainInv, Competes
<1>2. TypeOK /\ HandInv /\ [Next]_vars => HandInv'
  BY HandInvStays
<1>3. TypeOK /\ HandInv /\ [Next]_vars =>
        [\A c \in completers' \ completers :
            units = 0 \/ now'[c] >= election[c].drainBy]_vars
  BY CompletesInTime DEF HandInv
<1> QED
  BY <1>1, <1>2, <1>3, TypeInvariant, PTL DEF Spec, NoPrematureComplete
=============================================================================
