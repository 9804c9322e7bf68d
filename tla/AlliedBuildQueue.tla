-------------------------- MODULE AlliedBuildQueue --------------------------
(***************************************************************************)
(* The allied build-queue overlay of tdraw.dll                             *)
(* (DDraw/AlliedBuildQueueProtocol.h, AlliedBuildQueueSync.cpp): while a   *)
(* player holds SHIFT, its allies send it the buildings they have queued.  *)
(*                                                                         *)
(* Both directions between two allies are the same and independent, so     *)
(* one is modelled: the owner has a queue and a Transmitter, the viewer a  *)
(* Receiver.  Packets may be lost, repeated and reordered.  A queue is a   *)
(* set: the code sorts it and removes duplicates (Canonicalize).           *)
(***************************************************************************)
EXTENDS Integers, FiniteSets

CONSTANTS
    Queues,            \* the queues the owner may have: sets of numbers
    MaxRecords,        \* records a queue may have
    RecordsPerPacket,
    Modulus,           \* the sequence numbers are those below it: 2^32
    Start,             \* the process has issued sequence numbers up to this one
    MaxTransactions,   \* bound: transactions the owner starts
    MaxData,           \* bound: data packets in flight
    MaxControl         \* bound: Interest packets in flight

ASSUME QueuesAssumption ==
    \A q \in Queues : q \subseteq Nat /\ IsFiniteSet(q) /\ Cardinality(q) <= MaxRecords
ASSUME PacketAssumption == RecordsPerPacket \in Nat \ {0} /\ MaxRecords \in Nat
ASSUME SequenceAssumption == Modulus \in Nat /\ Modulus > 2 /\ Start \in 0 .. Modulus - 1
ASSUME WindowAssumption ==     \* no packet outlives half the sequence numbers
    MaxTransactions \in Nat /\ 2 * MaxTransactions < Modulus
ASSUME NetAssumption == MaxData \in Nat /\ MaxControl \in Nat

VARIABLES
    queue,         \* g_current: what the last scan of the owner found queued (Collect)
    sequence,      \* g_sequence of the owner's process
    subscribed,    \* at the owner: the viewer wants the queue
    tx,            \* at the owner: the Transmitter for the viewer
    wanted,        \* at the viewer: g_wanted, SHIFT is held
    ackDue,        \* at the viewer: an Interest packet is due
    rx,            \* at the viewer: the Receiver for the owner
    data,          \* Full and Delta packets in flight
    control,       \* Interest packets in flight
    issued         \* history: turn and content of each transaction, by its number

owner  == <<queue, sequence, subscribed, tx, issued>>
viewer == <<wanted, ackDue, rx>>
net    == <<data, control>>
vars   == <<owner, viewer, net>>

-----------------------------------------------------------------------------
(* Sequence numbers *)

\* Faulty variant: numbers are compared as they are.
NewerPlain(a, b) == a > b

\* Modulo 2^32: a is ahead of b by less than half the numbers.
Newer(a, b) == a # b /\ (a - b) % Modulus < Modulus \div 2

\* Faulty variant: 0 is issued too.
NextSequenceZero(s) == (s + 1) % Modulus

\* 0 stands for "nothing" and is skipped.
NextSequence(s) == IF (s + 1) % Modulus = 0 THEN 1 ELSE s + 1

-----------------------------------------------------------------------------
(* Transactions: sets of operations, split into chunks *)

Add(r)    == [record |-> r, remove |-> FALSE]
Remove(r) == [record |-> r, remove |-> TRUE]

FullOperations(current) == {Add(r) : r \in current}

DeltaOperations(old, current) ==
    {Remove(r) : r \in old \ current} \cup {Add(r) : r \in current \ old}

Apply(records, ops) ==
    (records \ {o.record : o \in {x \in ops : x.remove}})
        \cup {o.record : o \in {x \in ops : ~x.remove}}

ChunkCount(ops) ==
    IF ops = {} THEN 1 ELSE (Cardinality(ops) + RecordsPerPacket - 1) \div RecordsPerPacket

\* The operations are sorted by record; a record occurs in one of them at most.
Rank(ops, o) == Cardinality({x \in ops : x.record < o.record})

Chunk(ops, index) == {o \in ops : Rank(ops, o) \div RecordsPerPacket = index}

-----------------------------------------------------------------------------
(* The Transmitter *)

NoTransmitter ==
    [acknowledged |-> {}, target |-> {}, operations |-> {}, acknowledgedSequence |-> 0,
     sequence |-> 0, base |-> 0, nextChunk |-> 0, active |-> FALSE, kind |-> "Full"]

\* Faulty variant: a receiver that lost its base is not noticed.
AcknowledgeUnheard(t, ack) ==
    IF t.active /\ ack = t.sequence
    THEN [t EXCEPT !.acknowledged = t.target, !.acknowledgedSequence = t.sequence, !.active = FALSE]
    ELSE t

\* The code also swaps target with acknowledged; target is written again before
\* it is read.
Acknowledge(t, ack) ==
    IF t.active /\ ack = t.sequence
    THEN [t EXCEPT !.acknowledged = t.target,
                   !.acknowledgedSequence = t.sequence, !.active = FALSE]
    ELSE IF ack = 0 /\ (~t.active \/ t.kind = "Delta")
    THEN [t EXCEPT !.acknowledgedSequence = 0, !.active = FALSE]
    ELSE t

\* Prepare returns false: a transaction is under way, or there is nothing new.
NothingToSend(t, current) ==
    t.active \/ (t.acknowledgedSequence # 0 /\ current = t.acknowledged)

\* Faulty variant: a Delta names the transaction sent last as its base.
PreparedOnSent(t, current, seq) ==
    LET delta == DeltaOperations(t.acknowledged, current)
        full  == t.acknowledgedSequence = 0 \/ Cardinality(delta) >= Cardinality(current)
    IN  [t EXCEPT !.target = current,
                  !.operations = IF full THEN FullOperations(current) ELSE delta,
                  !.kind = IF full THEN "Full" ELSE "Delta",
                  !.base = IF full THEN 0 ELSE t.sequence,
                  !.sequence = seq, !.nextChunk = 0, !.active = TRUE]

\* A Delta is worth it only when it is shorter than the whole queue.
Prepared(t, current, seq) ==
    LET delta == DeltaOperations(t.acknowledged, current)
        full  == t.acknowledgedSequence = 0 \/ Cardinality(delta) >= Cardinality(current)
    IN  [t EXCEPT !.target = current,
                  !.operations = IF full THEN FullOperations(current) ELSE delta,
                  !.kind = IF full THEN "Full" ELSE "Delta",
                  !.base = IF full THEN 0 ELSE t.acknowledgedSequence,
                  !.sequence = seq, !.nextChunk = 0, !.active = TRUE]

Packet(t, index) ==
    [kind |-> t.kind, sequence |-> t.sequence, base |-> t.base, index |-> index,
     count |-> ChunkCount(t.operations), records |-> Chunk(t.operations, index)]

-----------------------------------------------------------------------------
(* The Receiver.  The checks at the top of Accept concern packets no          *)
(* transmitter sends and are left out.                                        *)

NoReceiver ==
    [records |-> {}, pending |-> {}, received |-> {}, sequence |-> 0, pendingSequence |-> 0,
     pendingBase |-> 0, pendingCount |-> 0, pendingKind |-> "Full", needFull |-> FALSE]

Acknowledgement(r) == IF r.needFull THEN 0 ELSE r.sequence

\* Of the transaction on display, or of an older one.
Obsolete(r, p) == r.sequence # 0 /\ ~Newer(p.sequence, r.sequence)

\* Faulty variant: a Delta is applied to whatever is on display.
WrongBaseUnchecked(r, p) == p.kind = "Delta" /\ (r.needFull \/ r.sequence = 0)

WrongBase(r, p) ==
    p.kind = "Delta" /\ (r.needFull \/ r.sequence = 0 \/ p.base # r.sequence)

\* Older than the transaction being collected.
Superseded(r, p) ==
    r.pendingSequence # 0 /\ p.sequence # r.pendingSequence /\ ~Newer(p.sequence, r.pendingSequence)

\* The transaction of p is the one being collected from now on.
Begun(r, p) ==
    IF r.pendingSequence = p.sequence THEN r
    ELSE [r EXCEPT !.pendingSequence = p.sequence, !.pendingBase = p.base, !.pendingKind = p.kind,
                   !.pendingCount = p.count, !.pending = {}, !.received = {}]

Mismatch(b, p) ==
    b.pendingCount # p.count \/ b.pendingKind # p.kind \/ b.pendingBase # p.base

Collected(b, p) == [b EXCEPT !.pending = @ \cup p.records, !.received = @ \cup {p.index}]

\* Faulty variant: the last chunk completes a transaction.
CompleteAtLast(c) == c.pendingCount - 1 \in c.received

Complete(c) == c.received = 0 .. c.pendingCount - 1

Assembled(c) == Apply(IF c.pendingKind = "Full" THEN {} ELSE c.records, c.pending)

\* The transaction is complete: its snapshot is put on display.
Committed(c) ==
    IF Cardinality(Assembled(c)) > MaxRecords THEN [c EXCEPT !.needFull = TRUE]
    ELSE [c EXCEPT !.records = Assembled(c), !.sequence = c.pendingSequence, !.needFull = FALSE,
                   !.pendingSequence = 0, !.pending = {}, !.received = {}]

\* Accept: what the packet makes of the Receiver, and whether it is acknowledged.
Accept(r, p) ==
    LET b == Begun(r, p)
        c == Collected(b, p)
    IN  IF Obsolete(r, p)        THEN [receiver |-> r, ack |-> p.sequence = r.sequence]
        ELSE IF WrongBase(r, p)  THEN [receiver |-> [r EXCEPT !.needFull = TRUE], ack |-> TRUE]
        ELSE IF Superseded(r, p) THEN [receiver |-> r, ack |-> FALSE]
        ELSE IF Mismatch(b, p)   THEN [receiver |-> b, ack |-> FALSE]
        ELSE IF Complete(c)      THEN [receiver |-> Committed(c), ack |-> TRUE]
        ELSE [receiver |-> c, ack |-> FALSE]

-----------------------------------------------------------------------------
(* The owner *)

\* The scan of OnGameTick, every 100 ms while there is a subscriber, finds
\* current.  While a transaction is under way the scan is without effect.  Numbers
\* spent on scans that find nothing new, or on other allies, are not modelled.
Scan(current) ==
    /\ subscribed /\ ~tx.active
    /\ queue' = current
    /\ IF NothingToSend(tx, current) THEN UNCHANGED <<sequence, tx, issued>>
       ELSE /\ Cardinality(DOMAIN issued) < MaxTransactions
            /\ sequence' = NextSequence(sequence)
            /\ tx' = Prepared(tx, current, sequence')
            /\ issued' = [s \in DOMAIN issued \cup {sequence'} |->
                            IF s = sequence'
                            THEN [turn |-> Cardinality(DOMAIN issued) + 1, content |-> current]
                            ELSE issued[s]]
    /\ UNCHANGED <<subscribed, viewer, net>>

\* The send loop of OnGameTick: the next chunk, or, RetryMs after the last one,
\* the first again.
SendChunk ==
    LET index == IF tx.nextChunk = ChunkCount(tx.operations) THEN 0 ELSE tx.nextChunk
    IN  /\ subscribed /\ tx.active
        /\ Cardinality(data) < MaxData
        /\ data' = data \cup {Packet(tx, index)}
        /\ tx' = [tx EXCEPT !.nextChunk = index + 1]
        /\ UNCHANGED <<queue, sequence, subscribed, issued, viewer, control>>

\* HandlePacket of an Interest packet.
OnInterest(m, repeated) ==
    /\ control' = IF repeated THEN control ELSE control \ {m}
    /\ subscribed' = m.request
    /\ tx' = Acknowledge([tx EXCEPT !.active = @ /\ m.request], m.ack)
    /\ UNCHANGED <<queue, sequence, issued, viewer, data>>

\* No Interest packet for LeaseMs.
LeaseLapses ==
    /\ subscribed
    /\ subscribed' = FALSE
    /\ tx' = [tx EXCEPT !.active = FALSE]
    /\ UNCHANGED <<queue, sequence, issued, viewer, net>>

\* The alliance ended at the owner: peer = Peer().
OwnerForgets ==
    /\ subscribed' = FALSE /\ tx' = NoTransmitter
    /\ UNCHANGED <<queue, sequence, issued, viewer, net>>

-----------------------------------------------------------------------------
(* The viewer *)

\* SHIFT is pressed or released.
Toggle ==
    /\ wanted' = ~wanted /\ ackDue' = TRUE
    /\ UNCHANGED <<owner, rx, net>>

\* The send loop of OnGameTick: an acknowledgement that is due, or the Interest
\* repeated while SHIFT is held (ControlMs, ProbeMs).
SendInterest ==
    /\ ackDue \/ wanted
    /\ Cardinality(control) < MaxControl
    /\ control' = control \cup {[request |-> wanted, ack |-> Acknowledgement(rx)]}
    /\ ackDue' = FALSE
    /\ UNCHANGED <<owner, wanted, rx, data>>

\* HandlePacket of a data packet, ignored while SHIFT is not held.
OnData(p, repeated) ==
    LET accept == Accept(rx, p)
    IN  /\ data' = IF repeated THEN data ELSE data \ {p}
        /\ IF wanted
           THEN rx' = accept.receiver /\ ackDue' = (ackDue \/ accept.ack)
           ELSE UNCHANGED <<rx, ackDue>>
        /\ UNCHANGED <<owner, wanted, control>>

\* Nothing was heard from the owner for StaleMs.
Expire ==
    /\ rx.sequence # 0
    /\ rx' = NoReceiver
    /\ UNCHANGED <<owner, wanted, ackDue, net>>

\* The alliance ended at the viewer: peer = Peer().
ViewerForgets ==
    /\ rx' = NoReceiver /\ ackDue' = FALSE
    /\ UNCHANGED <<owner, wanted, net>>

-----------------------------------------------------------------------------
(* The network *)

Lose ==
    /\ \/ \E p \in data : data' = data \ {p} /\ UNCHANGED control
       \/ \E m \in control : control' = control \ {m} /\ UNCHANGED data
    /\ UNCHANGED <<owner, viewer>>

Init ==
    /\ queue \in Queues
    /\ sequence = Start
    /\ subscribed = FALSE /\ tx = NoTransmitter
    /\ wanted = FALSE /\ ackDue = FALSE /\ rx = NoReceiver
    /\ data = {} /\ control = {}
    /\ issued = [s \in {} |-> 0]

Next ==
    \/ (\E current \in Queues : Scan(current)) \/ SendChunk \/ LeaseLapses \/ OwnerForgets
    \/ \E m \in control, repeated \in BOOLEAN : OnInterest(m, repeated)
    \/ Toggle \/ SendInterest \/ Expire \/ ViewerForgets
    \/ \E p \in data, repeated \in BOOLEAN : OnData(p, repeated)
    \/ Lose

Spec == Init /\ [][Next]_vars

\* Both game loops run, and whatever is sent again and again gets through: each
\* chunk and each request.
FairSpec ==
    /\ Spec
    /\ WF_vars(Scan(queue)) /\ WF_vars(SendChunk) /\ WF_vars(SendInterest)
    /\ SF_vars(\E m \in control : OnInterest(m, FALSE))
    /\ \A i \in 0 .. MaxRecords : SF_vars(\E p \in data : p.index = i /\ OnData(p, FALSE))

-----------------------------------------------------------------------------
(* Properties *)

Numbers == 1 .. Modulus - 1
Kinds == {"Full", "Delta"}
Records == UNION Queues
Operations == [record : Records, remove : BOOLEAN]

TransmitterType ==
    [acknowledged : Queues \cup {{}}, target : Queues \cup {{}}, operations : SUBSET Operations,
     acknowledgedSequence : Numbers \cup {0}, sequence : Numbers \cup {0}, base : Numbers \cup {0},
     nextChunk : Nat, active : BOOLEAN, kind : Kinds]

ReceiverType ==
    [records : SUBSET Records, pending : SUBSET Operations, received : SUBSET Nat,
     sequence : Numbers \cup {0}, pendingSequence : Numbers \cup {0},
     pendingBase : Numbers \cup {0}, pendingCount : Nat, pendingKind : Kinds, needFull : BOOLEAN]

PacketType ==
    [kind : Kinds, sequence : Numbers, base : Numbers \cup {0}, index : Nat, count : Nat \ {0},
     records : SUBSET Operations]

InterestType == [request : BOOLEAN, ack : Numbers \cup {0}]

\* The variables keep their types; no transaction and no packet has the number 0,
\* which stands for "nothing" at both ends.
TypeOK ==
    /\ queue \in Queues /\ sequence \in 0 .. Modulus - 1
    /\ subscribed \in BOOLEAN /\ wanted \in BOOLEAN /\ ackDue \in BOOLEAN
    /\ tx \in TransmitterType /\ rx \in ReceiverType
    /\ data \subseteq PacketType /\ control \subseteq InterestType
    /\ DOMAIN issued \subseteq Numbers
    /\ \A s \in DOMAIN issued : issued[s] \in [turn : Nat, content : Queues]

\* "Partial updates do not replace a complete display": the viewer sees nothing,
\* or the whole snapshot that the transaction it acknowledges was made from,
\* whatever was lost, repeated or reordered and however many Deltas built on
\* each other.
ShowsSnapshot ==
    rx.records = IF rx.sequence = 0 THEN {} ELSE issued[rx.sequence].content

\* The two ends agree on a base: a Delta that the viewer would apply is made
\* against what the viewer shows.
BasesAgree ==
    tx.active /\ tx.kind = "Delta" /\ tx.base = rx.sequence => tx.acknowledged = rx.records

\* The display is one of the owner's snapshots and moves to later ones only,
\* also when the numbers wrap around.
Register == INSTANCE SnapshotRegister WITH
    Content   <- Queues,
    published <- {issued[s] : s \in DOMAIN issued},
    shown     <- IF rx.sequence = 0 THEN 0 ELSE issued[rx.sequence].turn,
    display   <- rx.records

ImplementsRegister == Register!Spec

\* The bound on transactions is what stops the owner.
Exhausted == Cardinality(DOMAIN issued) = MaxTransactions

\* SHIFT stays held, the queue stays as it is, and no timer runs out.
Settles ==
    /\ <>[]wanted
    /\ <>[][UNCHANGED queue /\ ~LeaseLapses /\ ~OwnerForgets /\ ~Expire /\ ~ViewerForgets]_vars

\* The viewer has accepted a later transaction than the one the owner knows to
\* be acknowledged, and the owner has nothing to send.
Overtaken ==
    /\ ~tx.active /\ tx.acknowledged = queue
    /\ rx.sequence # 0 /\ rx.sequence # tx.acknowledgedSequence

\* "Missing data is retried": in the end the viewer sees the queue, whatever was
\* lost before, with the one exception that ShiftShowsQueue below is about.
Recovers ==
    []~Exhausted /\ Settles => <>[](rx.records = queue \/ Overtaken)

-----------------------------------------------------------------------------
(* What the documentation says and the code does not do *)

\* tdraw.txt: "Hold Shift ... to display an ally's queued buildings".
ShiftShowsQueue ==
    []~Exhausted /\ Settles => <>[](rx.records = queue)
=============================================================================
