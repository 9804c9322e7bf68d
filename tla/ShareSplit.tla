----------------------------- MODULE ShareSplit -----------------------------
(***************************************************************************)
(* How a client splits its surplus of a resource among its allies, once    *)
(* every 60 ticks (ShareSplit.cpp): PlanPulse picks the receivers and      *)
(* pours the pool over them like water, the engine's transfers follow.     *)
(*                                                                         *)
(* Amounts are whole numbers of a small part of the game's unit, MinGive   *)
(* of them making kMinGive.  A comparison of whole amounts with left/open  *)
(* comes out the same as with the quotient rounded down; only what a       *)
(* receiver gets is rounded down, as the code does when it goes back to    *)
(* floats.                                                                 *)
(***************************************************************************)
EXTENDS Integers, FiniteSets, FiniteSetsExt

CONSTANTS
    SplitSlots,     \* the slots of Players[] in use
    Sender,         \* the local player's
    MinGive,        \* kMinGive
    Divisor,        \* 1/g_k: 3 for metal, 2 for energy
    MaxReceivers,   \* kMaxReceivers
    Holdings,       \* what a player may have at first, of which storage
    Thresholds      \* the settings of the share threshold, negative ones for all

ASSUME SplitAssumption ==
    /\ SplitSlots \subseteq Nat /\ IsFiniteSet(SplitSlots) /\ Sender \in SplitSlots
    /\ MinGive \in Nat \ {0} /\ Divisor \in Nat \ {0} /\ MaxReceivers \in Nat \ {0}
    /\ \A h \in Holdings : h.max \in Nat /\ h.stock \in 0 .. h.max
    /\ Thresholds \subseteq Int

VARIABLES
    stock,       \* fCurrentMetal or fCurrentEnergy
    capacity,    \* fMaxMetalStorage or fMaxEnergyStorage
    threshold,   \* ShareMetal or ShareEnergy of the sender
    ready,       \* who passes the other tests: in the game, alive, no spectator, allied both ways
    gives        \* the plan of the last pulse: what each receiver gets

splitVars == <<stock, capacity, threshold, ready, gives>>

NoGives == [i \in {} |-> 0]

SplitInitWith(holding, setting, players) ==
    /\ stock = [i \in SplitSlots |-> holding[i].stock]
    /\ capacity = [i \in SplitSlots |-> holding[i].max]
    /\ threshold = setting
    /\ ready = players
    /\ gives = NoGives

SplitInit ==
    \E holding \in [SplitSlots -> Holdings], setting \in Thresholds, players \in SUBSET SplitSlots :
        SplitInitWith(holding, setting, players)

-----------------------------------------------------------------------------
\* CheckSender; that sharing is on is the guard of the pulse.
SenderMayGive == Sender \in ready /\ stock[Sender] > threshold

\* A share of what is above the threshold, less than the stock when that is negative.
Pool ==
    Min({ (stock[Sender] - threshold) \div Divisor, (stock[Sender] * 999999) \div 1000000 })

Room(i) == capacity[i] - stock[i]

LessFull(i, j) == stock[i] * capacity[j] < stock[j] * capacity[i]

\* Who may receive: less full than the sender and with room for the smallest give.
Candidates ==
    {i \in ready \ {Sender} : capacity[i] > 0 /\ LessFull(i, Sender) /\ Room(i) >= MinGive}

\* The order of SortCands.
Before(i, j) == LessFull(i, j) \/ (~LessFull(j, i) /\ i < j)

\* The first n of the candidates.
LeastFull(n) ==
    {i \in Candidates : Cardinality({j \in Candidates : Before(j, i)}) < n}

-----------------------------------------------------------------------------
(* WaterFill *)

Total(g) == MapThenSumSet(LAMBDA i : g[i], DOMAIN g)

\* Faulty variant: what the full receivers get is not taken off.
CapOnCredit(s, hit) ==
    [s EXCEPT !.open = @ \ hit,
              !.give = [i \in DOMAIN @ |-> IF i \in hit THEN Room(i) ELSE @[i]]]

\* The receivers whose room is no more than an equal share get their room.
Cap(s, hit) ==
    [left |-> s.left - Total([i \in hit |-> Room(i)]),
     open |-> s.open \ hit,
     give |-> [i \in DOMAIN s.give |-> IF i \in hit THEN Room(i) ELSE s.give[i]]]

\* An equal share for all that are still open, if none of them fills up.
Round(s) ==
    LET share == s.left \div Cardinality(s.open)
        hit == {i \in s.open : Room(i) <= share}
    IN IF hit # {} THEN Cap(s, hit)
       ELSE [s EXCEPT !.left = 0,
                      !.give = [i \in DOMAIN @ |-> IF i \in s.open THEN share ELSE @[i]]]

\* The rounds for a set of receivers; who is still open in the end is not capped.
Poured(S) ==
    LET rounds[k \in 0 .. Cardinality(S)] ==
            IF k = 0 THEN [left |-> Pool, open |-> S, give |-> [i \in S |-> 0]]
            ELSE LET s == rounds[k - 1]
                 IN IF s.open = {} \/ s.left = 0 THEN s ELSE Round(s)
    IN rounds[Cardinality(S)]

IsDust(s) == \E i \in s.open : s.give[i] < MinGive

\* With the n least full receivers; while somebody would get dust, with one less.
WaterFill ==
    LET kept[n \in 0 .. MaxReceivers] ==
            IF n = 0 THEN NoGives
            ELSE LET s == Poured(LeastFull(n))
                 IN IF IsDust(s) THEN kept[n - 1] ELSE s.give
    IN kept[Min({MaxReceivers, Cardinality(Candidates)})]

Plan ==
    IF SenderMayGive /\ Pool >= MinGive /\ capacity[Sender] > 0 THEN WaterFill ELSE NoGives

\* PlanHolds: what must be true of a plan for it to be sent.
PlanHolds(g) ==
    /\ \A i \in DOMAIN g : MinGive <= g[i] /\ g[i] <= Room(i)
    /\ Total(g) <= Pool

\* RunPulse: the plan, and a transfer to each receiver.
Pulse ==
    /\ gives' = Plan
    /\ stock' = IF Plan # NoGives /\ PlanHolds(Plan)
                THEN [i \in SplitSlots |->
                        IF i \in DOMAIN Plan THEN stock[i] + Plan[i]
                        ELSE IF i = Sender THEN stock[i] - Total(Plan) ELSE stock[i]]
                ELSE stock
    /\ UNCHANGED <<capacity, threshold, ready>>

SplitNext == Pulse

SplitSpec == SplitInit /\ [][SplitNext]_splitVars

-----------------------------------------------------------------------------
(* Properties *)

\* The variables keep their types; no stock exceeds its storage or is overdrawn.
SplitTypeOK ==
    /\ capacity \in [SplitSlots -> Nat]
    /\ \A i \in SplitSlots : stock[i] \in 0 .. capacity[i]
    /\ threshold \in Thresholds
    /\ ready \in SUBSET SplitSlots
    /\ DOMAIN gives \subseteq SplitSlots \ {Sender}

\* What the rounds of WaterFill come to: the split is the fairest there is.  As
\* many of the least full allies receive as the pool has smallest gives for; all
\* of them get the same, but for those whose storage is full with less; and the
\* pool is used up to a rounding, unless all of them are full.
IsFairSplit(g) ==
    /\ DOMAIN g =
          IF SenderMayGive /\ capacity[Sender] > 0
          THEN LeastFull(Min({MaxReceivers, Pool \div MinGive})) ELSE {}
    /\ DOMAIN g # {} => PlanHolds(g)
    /\ \A i, j \in DOMAIN g : g[i] < g[j] => g[i] = Room(i)
    /\ \/ Total(g) + Cardinality(DOMAIN g) > Pool
       \/ \A i \in DOMAIN g : g[i] = Room(i)

\* Whatever the sender and its allies own, the plan of the next pulse is the
\* fairest there is.
FairSplit == IsFairSplit(Plan)
=============================================================================
