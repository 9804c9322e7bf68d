----------------------- MODULE AlliedBuildQueueProofs -----------------------
(***************************************************************************)
(* That the overlay's protocol implements its abstract register, for any   *)
(* queues, any packet size and any amount of loss, repetition and          *)
(* reordering, also when the sequence numbers wrap around.                 *)
(***************************************************************************)
EXTENDS AlliedBuildQueue, FiniteSetTheorems, TLAPS

\* What is counted is finite, and a transaction under way has a number.
FiniteInv ==
    /\ IsFiniteSet(tx.operations) /\ IsFiniteSet(DOMAIN issued)
    /\ tx.active => tx.sequence # 0

-----------------------------------------------------------------------------
(* Queues, operations and chunks *)

LEMMA QueueFacts ==
    ASSUME NEW q \in Queues \cup {{}}
    PROVE  q \subseteq Records /\ q \subseteq Nat /\ IsFiniteSet(q)
BY QueuesAssumption, FS_EmptySet DEF Records

LEMMA AddedFinite ==
    ASSUME NEW q, IsFiniteSet(q)
    PROVE  IsFiniteSet({Add(r) : r \in q})
<1> DEFINE T == {Add(r) : r \in q}
           f == [r \in q |-> Add(r)]
<1>1. f \in Surjection(q, T)
  BY DEF Surjection
<1> QED
  BY <1>1, FS_Surjection

LEMMA RemovedFinite ==
    ASSUME NEW q, IsFiniteSet(q)
    PROVE  IsFiniteSet({Remove(r) : r \in q})
<1> DEFINE T == {Remove(r) : r \in q}
           f == [r \in q |-> Remove(r)]
<1>1. f \in Surjection(q, T)
  BY DEF Surjection
<1> QED
  BY <1>1, FS_Surjection

LEMMA FullFacts ==
    ASSUME NEW q \in Queues \cup {{}}
    PROVE  FullOperations(q) \subseteq Operations /\ IsFiniteSet(FullOperations(q))
<1>1. IsFiniteSet(FullOperations(q))
  BY QueueFacts, AddedFinite DEF FullOperations
<1>2. ASSUME NEW x \in FullOperations(q) PROVE x \in Operations
  <2>1. PICK r \in q : x = Add(r)
    BY DEF FullOperations
  <2> QED
    BY <2>1, QueueFacts DEF Operations, Add
<1> QED
  BY <1>1, <1>2

LEMMA DeltaFacts ==
    ASSUME NEW old \in Queues \cup {{}}, NEW q \in Queues \cup {{}}
    PROVE  /\ DeltaOperations(old, q) \subseteq Operations
           /\ IsFiniteSet(DeltaOperations(old, q))
<1>1. IsFiniteSet(old \ q) /\ IsFiniteSet(q \ old)
  BY QueueFacts, FS_Difference
<1>2. IsFiniteSet(DeltaOperations(old, q))
  BY <1>1, AddedFinite, RemovedFinite, FS_Union DEF DeltaOperations
<1>3. ASSUME NEW x \in DeltaOperations(old, q) PROVE x \in Operations
  <2>1. (\E r \in old : x = Remove(r)) \/ (\E r \in q : x = Add(r))
    BY DEF DeltaOperations
  <2>2. old \subseteq Records /\ q \subseteq Records
    BY QueueFacts
  <2>3. \A r \in Records : Remove(r) \in Operations /\ Add(r) \in Operations
    BY DEF Operations, Add, Remove
  <2> QED
    BY <2>1, <2>2, <2>3
<1> QED
  BY <1>2, <1>3

\* Applying the operations of a transaction gives the queue it was made from.
LEMMA AppliedFull ==
    ASSUME NEW q PROVE Apply({}, FullOperations(q)) = q
<1>1. \A x \in FullOperations(q) : ~x.remove /\ x.record \in q
  BY DEF FullOperations, Add
<1>2. \A r \in q : Add(r) \in FullOperations(q) /\ Add(r).record = r /\ ~Add(r).remove
  BY DEF FullOperations, Add
<1> QED
  BY <1>1, <1>2 DEF Apply

LEMMA AppliedDelta ==
    ASSUME NEW old, NEW q PROVE Apply(old, DeltaOperations(old, q)) = q
<1> DEFINE ops == DeltaOperations(old, q)
<1>1. \A x \in ops : (x.remove => x.record \in old \ q) /\ (~x.remove => x.record \in q \ old)
  BY DEF DeltaOperations, Add, Remove
<1>2. \A r \in q \ old : Add(r) \in ops /\ Add(r).record = r /\ ~Add(r).remove
  BY DEF DeltaOperations, Add
<1>3. \A r \in old \ q : Remove(r) \in ops /\ Remove(r).record = r /\ Remove(r).remove
  BY DEF DeltaOperations, Remove
<1> HIDE DEF ops
<1>4. {o.record : o \in {x \in ops : x.remove}} = old \ q
  BY <1>1, <1>3
<1>5. {o.record : o \in {x \in ops : ~x.remove}} = q \ old
  BY <1>1, <1>2
<1> QED
  BY <1>4, <1>5 DEF Apply, ops

LEMMA DivisionFacts ==
    ASSUME NEW a \in Nat, NEW r \in Nat \ {0}
    PROVE  /\ a \div r \in Nat
           /\ r * (a \div r) <= a /\ a < r * (a \div r) + r
OBVIOUS

LEMMA ChunkCountType ==
    ASSUME NEW ops, IsFiniteSet(ops)
    PROVE  ChunkCount(ops) \in Nat \ {0}
<1>1. CASE ops = {}
  BY <1>1 DEF ChunkCount
<1>2. CASE ops # {}
  <2> DEFINE a == Cardinality(ops) + RecordsPerPacket - 1
  <2>1. Cardinality(ops) \in Nat /\ Cardinality(ops) # 0
    BY <1>2, FS_CardinalityType, FS_EmptySet
  <2>2. a \in Nat /\ a >= RecordsPerPacket
    BY <2>1, PacketAssumption
  <2>3. /\ a \div RecordsPerPacket \in Nat
        /\ a < RecordsPerPacket * (a \div RecordsPerPacket) + RecordsPerPacket
    BY <2>2, PacketAssumption, DivisionFacts
  <2>4. ChunkCount(ops) = a \div RecordsPerPacket
    BY <1>2 DEF ChunkCount
  <2> HIDE DEF a
  <2>5. a \div RecordsPerPacket # 0
    BY <2>2, <2>3, PacketAssumption
  <2> QED
    BY <2>3, <2>4, <2>5
<1> QED
  BY <1>1, <1>2

\* Every operation is in one of the chunks.
LEMMA ChunksCover ==
    ASSUME NEW ops \in SUBSET Operations, IsFiniteSet(ops)
    PROVE  UNION {Chunk(ops, i) : i \in 0 .. ChunkCount(ops) - 1} = ops
<1>1. ASSUME NEW o \in ops PROVE Rank(ops, o) \div RecordsPerPacket \in 0 .. ChunkCount(ops) - 1
  <2> DEFINE R == RecordsPerPacket
             n == Cardinality(ops)
             k == Rank(ops, o)
             d == k \div R
             c == (n + R - 1) \div R
  <2>1. R \in Nat \ {0}
    BY PacketAssumption
  <2>2. n \in Nat /\ n # 0 /\ k \in Nat /\ k <= n - 1
    <3>1. n \in Nat /\ n # 0
      BY FS_CardinalityType, FS_EmptySet
    <3>2. IsFiniteSet(ops \ {o}) /\ Cardinality(ops \ {o}) = n - 1
      BY FS_RemoveElement
    <3>3. {x \in ops : x.record < o.record} \in SUBSET (ops \ {o})
      <4>1. o.record \in Nat
        BY QueuesAssumption DEF Operations, Records
      <4> QED
        BY <4>1
    <3>4. k \in Nat /\ k <= Cardinality(ops \ {o})
      BY <3>2, <3>3, FS_Subset, FS_CardinalityType DEF Rank
    <3> QED
      BY <3>1, <3>2, <3>4
  <2>3. d \in Nat /\ R * d <= k
    BY <2>1, <2>2, DivisionFacts
  <2>4. n + R - 1 \in Nat
    BY <2>1, <2>2
  <2>5. c \in Nat /\ n + R - 1 < R * c + R
    BY <2>1, <2>4, DivisionFacts
  <2>6. ChunkCount(ops) = c
    BY DEF ChunkCount
  <2> HIDE DEF R, n, k, d, c
  <2>7. R * d < R * c
    <3>1. R * d \in Int /\ R * c \in Int
      BY <2>1, <2>3, <2>5
    <3> QED
      BY <2>1, <2>2, <2>3, <2>5, <3>1
  <2>8. d < c
    BY <2>1, <2>3, <2>5, <2>7
  <2> QED
    BY <2>3, <2>5, <2>6, <2>8 DEF d, k, R
<1>2. \A o \in ops : o \in Chunk(ops, Rank(ops, o) \div RecordsPerPacket)
  BY DEF Chunk
<1> QED
  BY <1>1, <1>2 DEF Chunk

-----------------------------------------------------------------------------
(* Types *)

LEMMA NextSequenceType ==
    ASSUME NEW s \in 0 .. Modulus - 1 PROVE NextSequence(s) \in Numbers
<1>1. CASE s + 1 = Modulus
  BY <1>1, SequenceAssumption DEF NextSequence, Numbers
<1>2. CASE s + 1 < Modulus
  BY <1>2, SequenceAssumption DEF NextSequence, Numbers
<1> QED
  BY <1>1, <1>2, SequenceAssumption

LEMMA AcknowledgeType ==
    ASSUME NEW t \in TransmitterType, NEW ack \in Numbers \cup {0}
    PROVE  /\ Acknowledge(t, ack) \in TransmitterType
           /\ Acknowledge(t, ack).operations = t.operations
<1>1. CASE t.active /\ ack = t.sequence
  BY <1>1 DEF Acknowledge, TransmitterType
<1>2. CASE ~(t.active /\ ack = t.sequence) /\ ack = 0 /\ (~t.active \/ t.kind = "Delta")
  BY <1>2 DEF Acknowledge, TransmitterType
<1>3. CASE ~(t.active /\ ack = t.sequence) /\ ~(ack = 0 /\ (~t.active \/ t.kind = "Delta"))
  BY <1>3 DEF Acknowledge, TransmitterType
<1> QED
  BY <1>1, <1>2, <1>3

LEMMA NoTransmitterType == NoTransmitter \in TransmitterType
BY DEF NoTransmitter, TransmitterType, Kinds

LEMMA NoReceiverType == NoReceiver \in ReceiverType
BY DEF NoReceiver, ReceiverType, Kinds

LEMMA PreparedType ==
    ASSUME NEW t \in TransmitterType, NEW q \in Queues, NEW s \in Numbers
    PROVE  /\ Prepared(t, q, s) \in TransmitterType
           /\ IsFiniteSet(Prepared(t, q, s).operations)
<1> DEFINE delta == DeltaOperations(t.acknowledged, q)
           full  == t.acknowledgedSequence = 0 \/ Cardinality(delta) >= Cardinality(q)
           ops   == IF full THEN FullOperations(q) ELSE delta
           kind  == IF full THEN "Full" ELSE "Delta"
           base  == IF full THEN 0 ELSE t.acknowledgedSequence
<1>1. t.acknowledged \in Queues \cup {{}} /\ t.acknowledgedSequence \in Numbers \cup {0}
  BY DEF TransmitterType
<1>2. ops \subseteq Operations /\ IsFiniteSet(ops)
  BY <1>1, FullFacts, DeltaFacts
<1>3. kind \in Kinds /\ base \in Numbers \cup {0}
  BY <1>1 DEF Kinds
<1>4. Prepared(t, q, s) = [t EXCEPT !.target = q, !.operations = ops, !.kind = kind, !.base = base,
                                    !.sequence = s, !.nextChunk = 0, !.active = TRUE]
  BY DEF Prepared
<1> HIDE DEF delta, full, ops, kind, base
<1>5. /\ Prepared(t, q, s).operations = ops /\ Prepared(t, q, s).target = q
      /\ Prepared(t, q, s).kind = kind /\ Prepared(t, q, s).base = base
      /\ Prepared(t, q, s).sequence = s /\ Prepared(t, q, s).nextChunk = 0
      /\ Prepared(t, q, s).active = TRUE
      /\ Prepared(t, q, s).acknowledged = t.acknowledged
      /\ Prepared(t, q, s).acknowledgedSequence = t.acknowledgedSequence
  BY <1>4 DEF TransmitterType
<1>6. Prepared(t, q, s) =
        [acknowledged |-> t.acknowledged, target |-> q, operations |-> ops,
         acknowledgedSequence |-> t.acknowledgedSequence, sequence |-> s, base |-> base,
         nextChunk |-> 0, active |-> TRUE, kind |-> kind]
  BY <1>4 DEF TransmitterType
<1>7. Prepared(t, q, s) \in TransmitterType
  BY <1>1, <1>2, <1>3, <1>6 DEF TransmitterType
<1> QED
  BY <1>2, <1>5, <1>7

LEMMA PacketTypeLemma ==
    ASSUME NEW t \in TransmitterType, IsFiniteSet(t.operations), t.sequence # 0, NEW i \in Nat
    PROVE  Packet(t, i) \in PacketType
<1>1. ChunkCount(t.operations) \in Nat \ {0}
  BY ChunkCountType
<1>2. Chunk(t.operations, i) \subseteq Operations
  BY DEF Chunk, TransmitterType
<1> QED
  BY <1>1, <1>2 DEF Packet, PacketType, TransmitterType

LEMMA BegunType ==
    ASSUME NEW r \in ReceiverType, NEW p \in PacketType
    PROVE  Begun(r, p) \in ReceiverType
<1>1. p.sequence \in Numbers \cup {0} /\ p.base \in Numbers \cup {0} /\ p.kind \in Kinds /\ p.count \in Nat
  BY DEF PacketType
<1> QED
  BY <1>1 DEF Begun, ReceiverType

LEMMA CollectedType ==
    ASSUME NEW b \in ReceiverType, NEW p \in PacketType
    PROVE  Collected(b, p) \in ReceiverType
<1>1. b.pending \cup p.records \in SUBSET Operations /\ b.received \cup {p.index} \in SUBSET Nat
  BY DEF PacketType, ReceiverType
<1> QED
  BY <1>1 DEF Collected, ReceiverType

LEMMA CommittedType ==
    ASSUME NEW c \in ReceiverType
    PROVE  Committed(c) \in ReceiverType
<1>1. Assembled(c) \subseteq Records
  BY DEF Assembled, Apply, Operations, ReceiverType
<1>2. Committed(c) = [c EXCEPT !.needFull = TRUE]
      \/ Committed(c) = [c EXCEPT !.records = Assembled(c), !.sequence = c.pendingSequence,
                           !.needFull = FALSE, !.pendingSequence = 0, !.pending = {}, !.received = {}]
  BY DEF Committed
<1>3. c.pendingSequence \in Numbers \cup {0}
  BY DEF ReceiverType
<1> QED
  BY <1>1, <1>2, <1>3 DEF ReceiverType

\* What a packet can make of the Receiver.
LEMMA AcceptCases ==
    ASSUME NEW r, NEW p
    PROVE  LET c == Collected(Begun(r, p), p)
           IN  \/ Accept(r, p).receiver = r
               \/ Accept(r, p).receiver = [r EXCEPT !.needFull = TRUE]
               \/ /\ ~Obsolete(r, p) /\ ~WrongBase(r, p)
                  /\ \/ Accept(r, p).receiver = Begun(r, p)
                     \/ /\ ~Mismatch(Begun(r, p), p)
                        /\ \/ Accept(r, p).receiver = c
                           \/ Complete(c) /\ Accept(r, p).receiver = Committed(c)
BY DEF Accept

LEMMA AcceptType ==
    ASSUME NEW r \in ReceiverType, NEW p \in PacketType
    PROVE  Accept(r, p).receiver \in ReceiverType /\ Accept(r, p).ack \in BOOLEAN
<1>1. Begun(r, p) \in ReceiverType /\ Collected(Begun(r, p), p) \in ReceiverType
  BY BegunType, CollectedType
<1>2. Committed(Collected(Begun(r, p), p)) \in ReceiverType
  BY <1>1, CommittedType
<1>3. [r EXCEPT !.needFull = TRUE] \in ReceiverType
  BY DEF ReceiverType
<1>4. Accept(r, p).receiver \in ReceiverType
  BY <1>1, <1>2, <1>3, AcceptCases
<1>5. Accept(r, p).ack \in BOOLEAN
  BY DEF Accept
<1> QED
  BY <1>4, <1>5

LEMMA TypeInit == Init => TypeOK /\ FiniteInv
<1> SUFFICES ASSUME Init PROVE TypeOK /\ FiniteInv
    OBVIOUS
<1> USE DEF Init
<1>1. DOMAIN issued = {}
  OBVIOUS
<1>2. tx.operations = {} /\ tx.active = FALSE
  BY DEF NoTransmitter
<1>3. FiniteInv
  BY <1>1, <1>2, FS_EmptySet DEF FiniteInv
<1>4. TypeOK
  BY <1>1, NoTransmitterType, NoReceiverType, SequenceAssumption DEF TypeOK
<1> QED
  BY <1>3, <1>4

\* The transaction that a scan starts.
LEMMA Started ==
    ASSUME TypeOK, NEW current \in Queues, Scan(current), ~NothingToSend(tx, current)
    PROVE  /\ Cardinality(DOMAIN issued) < MaxTransactions
           /\ ~tx.active
           /\ sequence' = NextSequence(sequence) /\ sequence' \in Numbers
           /\ tx' = Prepared(tx, current, sequence')
           /\ DOMAIN issued' = DOMAIN issued \cup {sequence'}
           /\ issued'[sequence'] = [turn |-> Cardinality(DOMAIN issued) + 1, content |-> current]
           /\ \A s \in DOMAIN issued \ {sequence'} : issued'[s] = issued[s]
BY NextSequenceType DEF Scan, TypeOK

\* The owner's transmitter on an Interest packet, its lease checked first.
Asked(m) == [tx EXCEPT !.active = @ /\ m.request]

LEMMA AskedFacts ==
    ASSUME TypeOK, NEW m \in InterestType
    PROVE  /\ Asked(m) \in TransmitterType
           /\ Asked(m).operations = tx.operations /\ Asked(m).sequence = tx.sequence
           /\ Asked(m).active => tx.active
BY DEF Asked, InterestType, TypeOK, TransmitterType

LEMMA AcknowledgeActive ==
    ASSUME NEW t \in TransmitterType, NEW ack, Acknowledge(t, ack).active
    PROVE  Acknowledge(t, ack) = t
BY DEF Acknowledge, TransmitterType

LEMMA TypeStep == TypeOK /\ FiniteInv /\ [Next]_vars => TypeOK' /\ FiniteInv'
<1> SUFFICES ASSUME TypeOK, FiniteInv, [Next]_vars PROVE TypeOK' /\ FiniteInv'
    OBVIOUS
<1>0. /\ tx \in TransmitterType /\ rx \in ReceiverType
      /\ data \subseteq PacketType /\ control \subseteq InterestType
      /\ DOMAIN issued \subseteq Numbers /\ Cardinality(DOMAIN issued) \in Nat
      /\ IsFiniteSet(tx.operations)
  BY FS_CardinalityType DEF TypeOK, FiniteInv
<1>1. ASSUME NEW current \in Queues, Scan(current) PROVE TypeOK' /\ FiniteInv'
  <2>0. queue' = current /\ UNCHANGED <<subscribed, viewer, net>>
    BY <1>1 DEF Scan
  <2>1. CASE NothingToSend(tx, current)
    <3>1. UNCHANGED <<sequence, tx, issued>>
      BY <1>1, <2>1 DEF Scan
    <3> QED
      BY <2>0, <3>1 DEF TypeOK, FiniteInv, viewer, net
  <2>2. CASE ~NothingToSend(tx, current)
    <3>1. tx' \in TransmitterType /\ IsFiniteSet(tx'.operations) /\ tx'.sequence = sequence'
      <4>1. tx'.sequence = sequence'
        BY <1>0, <1>1, <2>2, Started DEF Prepared, TransmitterType
      <4> QED
        BY <1>0, <1>1, <2>2, <4>1, Started, PreparedType
    <3>2. IsFiniteSet(DOMAIN issued')
      BY <1>1, <2>2, Started, FS_AddElement DEF FiniteInv
    <3>3. DOMAIN issued' \subseteq Numbers /\ sequence' \in Numbers /\ sequence' # 0
      <4>1. sequence' \in Numbers /\ DOMAIN issued' = DOMAIN issued \cup {sequence'}
        BY <1>1, <2>2, Started
      <4>2. 0 \notin Numbers
        BY DEF Numbers
      <4> QED
        BY <1>0, <4>1, <4>2
    <3>4. \A s \in DOMAIN issued' : issued'[s] \in [turn : Nat, content : Queues]
      <4>1. [turn |-> Cardinality(DOMAIN issued) + 1, content |-> current]
                \in [turn : Nat, content : Queues]
        BY <1>0
      <4>2. \A s \in DOMAIN issued : issued[s] \in [turn : Nat, content : Queues]
        BY DEF TypeOK
      <4>3. issued'[sequence'] = [turn |-> Cardinality(DOMAIN issued) + 1, content |-> current]
        BY <1>1, <2>2, Started
      <4>4. /\ DOMAIN issued' = DOMAIN issued \cup {sequence'}
            /\ \A s \in DOMAIN issued \ {sequence'} : issued'[s] = issued[s]
        BY <1>1, <2>2, Started
      <4> SUFFICES ASSUME NEW s \in DOMAIN issued'
                   PROVE  issued'[s] \in [turn : Nat, content : Queues]
        OBVIOUS
      <4>5. CASE s = sequence'
        BY <4>1, <4>3, <4>5
      <4>6. CASE s # sequence'
        <5>1. s \in DOMAIN issued \ {sequence'}
          BY <4>4, <4>6
        <5> QED
          BY <4>2, <4>4, <5>1
      <4> QED
        BY <4>5, <4>6
    <3>5. sequence' \in 0 .. Modulus - 1
      BY <3>3 DEF Numbers
    <3>6. FiniteInv'
      BY <3>1, <3>2, <3>3 DEF FiniteInv
    <3>7. queue' \in Queues
      BY <2>0
    <3>8. UNCHANGED <<subscribed, wanted, ackDue, rx, data, control>>
      BY <2>0 DEF viewer, net
    <3> QED
      BY <3>1, <3>3, <3>4, <3>5, <3>6, <3>7, <3>8 DEF TypeOK
  <2> QED
    BY <2>1, <2>2
<1>2. CASE SendChunk
  <2> DEFINE index == IF tx.nextChunk = ChunkCount(tx.operations) THEN 0 ELSE tx.nextChunk
  <2>1. index \in Nat
    BY <1>0 DEF TransmitterType
  <2>2. tx.sequence # 0
    BY <1>2 DEF SendChunk, FiniteInv
  <2>3. Packet(tx, index) \in PacketType
    BY <1>0, <2>1, <2>2, PacketTypeLemma
  <2>4. data' \subseteq PacketType
    BY <1>0, <1>2, <2>3 DEF SendChunk
  <2>5. tx' \in TransmitterType /\ tx'.operations = tx.operations /\ tx'.sequence = tx.sequence
    <3>1. tx' = [tx EXCEPT !.nextChunk = index + 1]
      BY <1>2 DEF SendChunk
    <3> HIDE DEF index
    <3> QED
      BY <1>0, <2>1, <3>1 DEF TransmitterType
  <2>6. UNCHANGED <<queue, sequence, subscribed, issued, wanted, ackDue, rx, control>>
    BY <1>2 DEF SendChunk, viewer
  <2> QED
    BY <2>2, <2>4, <2>5, <2>6 DEF TypeOK, FiniteInv
<1>3. ASSUME NEW m \in control, NEW repeated \in BOOLEAN, OnInterest(m, repeated)
      PROVE  TypeOK' /\ FiniteInv'
  <2>0. m \in InterestType /\ m.request \in BOOLEAN /\ m.ack \in Numbers \cup {0}
    BY <1>0 DEF InterestType
  <2>1. tx' = Acknowledge(Asked(m), m.ack)
    BY <1>3 DEF OnInterest, Asked
  <2>2. tx' \in TransmitterType /\ tx'.operations = tx.operations
    BY <2>0, <2>1, AskedFacts, AcknowledgeType
  <2>3. tx'.active => tx'.sequence # 0
    <3>1. tx'.active => tx' = Asked(m)
      BY <2>0, <2>1, AskedFacts, AcknowledgeActive
    <3> QED
      BY <2>0, <3>1, AskedFacts DEF FiniteInv
  <2>4. control' \subseteq InterestType /\ subscribed' \in BOOLEAN
    BY <1>0, <1>3, <2>0 DEF OnInterest
  <2>5. UNCHANGED <<queue, sequence, issued, wanted, ackDue, rx, data>>
    BY <1>3 DEF OnInterest, viewer
  <2> QED
    BY <2>2, <2>3, <2>4, <2>5 DEF TypeOK, FiniteInv
<1>4. CASE LeaseLapses
  <2>1. tx' \in TransmitterType /\ tx'.operations = tx.operations /\ ~tx'.active
    BY <1>0, <1>4 DEF LeaseLapses, TransmitterType
  <2> QED
    BY <1>4, <2>1 DEF LeaseLapses, TypeOK, FiniteInv, viewer, net
<1>5. CASE OwnerForgets
  <2>1. tx' \in TransmitterType /\ tx'.operations = {} /\ ~tx'.active
    BY <1>5, NoTransmitterType DEF OwnerForgets, NoTransmitter
  <2> QED
    BY <1>5, <2>1, FS_EmptySet DEF OwnerForgets, TypeOK, FiniteInv, viewer, net
<1>6. CASE Toggle
  BY <1>6 DEF Toggle, TypeOK, FiniteInv, owner, net
<1>7. CASE SendInterest
  <2>1. [request |-> wanted, ack |-> Acknowledgement(rx)] \in InterestType
    BY <1>0 DEF InterestType, Acknowledgement, ReceiverType, TypeOK
  <2> QED
    BY <1>7, <2>1 DEF SendInterest, TypeOK, FiniteInv, owner
<1>8. ASSUME NEW p \in data, NEW repeated \in BOOLEAN, OnData(p, repeated)
      PROVE  TypeOK' /\ FiniteInv'
  <2>1. Accept(rx, p).receiver \in ReceiverType /\ Accept(rx, p).ack \in BOOLEAN
    BY <1>0, AcceptType
  <2>2. rx' \in ReceiverType /\ ackDue' \in BOOLEAN
    BY <1>8, <2>1 DEF OnData, TypeOK
  <2>3. data' \subseteq PacketType
    BY <1>0, <1>8 DEF OnData
  <2>4. UNCHANGED <<queue, sequence, subscribed, tx, issued, wanted, control>>
    BY <1>8 DEF OnData, owner
  <2> QED
    BY <2>2, <2>3, <2>4 DEF TypeOK, FiniteInv
<1>9. CASE Expire
  BY <1>9, NoReceiverType DEF Expire, TypeOK, FiniteInv, owner, net
<1>10. CASE ViewerForgets
  BY <1>10, NoReceiverType DEF ViewerForgets, TypeOK, FiniteInv, owner, net
<1>11. CASE Lose
  BY <1>11 DEF Lose, TypeOK, FiniteInv, owner, viewer
<1>12. CASE UNCHANGED vars
  BY <1>12 DEF vars, owner, viewer, net, TypeOK, FiniteInv
<1> QED
  BY <1>1, <1>2, <1>3, <1>4, <1>5, <1>6, <1>7, <1>8, <1>9, <1>10, <1>11, <1>12 DEF Next

-----------------------------------------------------------------------------
(* Sequence numbers *)

\* How many numbers lie between Start and s, going up modulo Modulus.
Steps(s) == IF s >= Start THEN s - Start ELSE s + Modulus - Start

\* The numbers issued are the next after Start, in the order of their turns; at
\* most one was skipped.
SequenceInv ==
    /\ Cardinality(DOMAIN issued) <= MaxTransactions
    /\ Steps(sequence) <= Cardinality(DOMAIN issued) + (IF sequence < Start THEN 1 ELSE 0)
    /\ \A s \in DOMAIN issued :
          /\ Steps(s) \in 1 .. Steps(sequence)
          /\ issued[s].turn \in 1 .. Cardinality(DOMAIN issued)
    /\ \A s, t \in DOMAIN issued : Steps(s) < Steps(t) => issued[s].turn < issued[t].turn

LEMMA StepsFacts ==
    ASSUME NEW s \in 0 .. Modulus - 1
    PROVE  /\ Steps(s) \in 0 .. Modulus - 1
           /\ \A t \in 0 .. Modulus - 1 : Steps(s) = Steps(t) => s = t
BY SequenceAssumption DEF Steps

LEMMA NextSequenceFacts ==
    ASSUME NEW s \in 0 .. Modulus - 1
    PROVE  NextSequence(s) = IF s + 1 = Modulus THEN 1 ELSE s + 1
<1>1. CASE s + 1 = Modulus
  BY <1>1, SequenceAssumption DEF NextSequence
<1>2. CASE s + 1 < Modulus
  BY <1>2, SequenceAssumption DEF NextSequence
<1> QED
  BY <1>1, <1>2, SequenceAssumption

\* While less than half the numbers are in use, the next one is new.
LEMMA NextSteps ==
    ASSUME NEW s \in 0 .. Modulus - 1, NEW n \in Nat, n < MaxTransactions,
           Steps(s) <= n + (IF s < Start THEN 1 ELSE 0)
    PROVE  LET t == NextSequence(s)
           IN  Steps(t) > Steps(s) /\ Steps(t) <= n + 1 + (IF t < Start THEN 1 ELSE 0)
<1>1. NextSequence(s) = IF s + 1 = Modulus THEN 1 ELSE s + 1
  BY NextSequenceFacts
<1>2. /\ Modulus \in Nat /\ Modulus > 2 /\ Start \in 0 .. Modulus - 1
      /\ MaxTransactions \in Nat /\ 2 * MaxTransactions < Modulus
  BY SequenceAssumption, WindowAssumption
<1>3. CASE s + 1 = Modulus
  BY <1>1, <1>2, <1>3 DEF Steps
<1>4. CASE s + 1 # Modulus
  BY <1>1, <1>2, <1>4 DEF Steps
<1> QED
  BY <1>3, <1>4

LEMMA FreshNumber ==
    ASSUME TypeOK, FiniteInv, SequenceInv, NEW current \in Queues, Scan(current),
           ~NothingToSend(tx, current)
    PROVE  /\ Steps(sequence') > Steps(sequence)
           /\ Steps(sequence')
                 <= Cardinality(DOMAIN issued) + 1 + (IF sequence' < Start THEN 1 ELSE 0)
           /\ sequence' \notin DOMAIN issued
           /\ Cardinality(DOMAIN issued') = Cardinality(DOMAIN issued) + 1
           /\ Cardinality(DOMAIN issued') <= MaxTransactions
<1> DEFINE n == Cardinality(DOMAIN issued)
<1>1. n \in Nat /\ sequence \in 0 .. Modulus - 1 /\ MaxTransactions \in Nat
  BY FS_CardinalityType, WindowAssumption DEF FiniteInv, TypeOK
<1>2. n < MaxTransactions
  BY Started
<1>3. sequence' = NextSequence(sequence) /\ sequence' \in 0 .. Modulus - 1
  <2>1. sequence' = NextSequence(sequence) /\ sequence' \in Numbers
    BY Started
  <2> QED
    BY <2>1 DEF Numbers
<1>4. Steps(sequence) <= n + (IF sequence < Start THEN 1 ELSE 0)
  BY DEF SequenceInv
<1> HIDE DEF n
<1>5. Steps(sequence') > Steps(sequence)
      /\ Steps(sequence') <= n + 1 + (IF sequence' < Start THEN 1 ELSE 0)
  BY <1>1, <1>2, <1>3, <1>4, NextSteps
<1>6. sequence' \notin DOMAIN issued
  <2>1. \A s \in DOMAIN issued : Steps(s) <= Steps(sequence)
    <3>1. Steps(sequence) \in Int
      BY <1>1, StepsFacts
    <3> QED
      BY <3>1 DEF SequenceInv
  <2>2. Steps(sequence) \in Int /\ Steps(sequence') \in Int
    BY <1>1, <1>3, StepsFacts
  <2> QED
    BY <1>5, <2>1, <2>2
<1>7. Cardinality(DOMAIN issued') = n + 1
  BY <1>6, Started, FS_AddElement DEF FiniteInv, n
<1> QED
  BY <1>1, <1>2, <1>5, <1>6, <1>7 DEF n

\* What was issued stays as it was.
LEMMA IssuedGrows ==
    ASSUME TypeOK, FiniteInv, SequenceInv, [Next]_vars
    PROVE  /\ DOMAIN issued \subseteq DOMAIN issued'
           /\ \A s \in DOMAIN issued : issued'[s] = issued[s]
<1>1. ASSUME NEW current \in Queues, Scan(current)
      PROVE  /\ DOMAIN issued \subseteq DOMAIN issued'
             /\ \A s \in DOMAIN issued : issued'[s] = issued[s]
  <2>1. CASE NothingToSend(tx, current)
    BY <1>1, <2>1 DEF Scan
  <2>2. CASE ~NothingToSend(tx, current)
    BY <1>1, <2>2, Started, FreshNumber
  <2> QED
    BY <2>1, <2>2
<1>2. CASE UNCHANGED issued
  BY <1>2
<1> QED
  BY <1>1, <1>2 DEF Next, vars, owner, SendChunk, OnInterest, LeaseLapses, OwnerForgets, Toggle,
                    SendInterest, OnData, Expire, ViewerForgets, Lose

LEMMA SequenceStep ==
    TypeOK /\ FiniteInv /\ SequenceInv /\ [Next]_vars => SequenceInv'
<1> SUFFICES ASSUME TypeOK, FiniteInv, SequenceInv, [Next]_vars PROVE SequenceInv'
    OBVIOUS
<1>0. UNCHANGED <<sequence, issued>> => SequenceInv'
  BY DEF SequenceInv
<1>1. ASSUME NEW current \in Queues, Scan(current) PROVE SequenceInv'
  <2>1. CASE NothingToSend(tx, current)
    BY <1>0, <1>1, <2>1 DEF Scan
  <2>2. CASE ~NothingToSend(tx, current)
    <3> DEFINE n == Cardinality(DOMAIN issued)
               new == sequence'
    <3>1. /\ Steps(new) > Steps(sequence)
          /\ Steps(new) <= n + 1 + (IF new < Start THEN 1 ELSE 0)
          /\ new \notin DOMAIN issued
          /\ Cardinality(DOMAIN issued') = n + 1 /\ n + 1 <= MaxTransactions
      BY <1>1, <2>2, FreshNumber
    <3>2. /\ DOMAIN issued' = DOMAIN issued \cup {new}
          /\ issued'[new].turn = n + 1
          /\ \A s \in DOMAIN issued : issued'[s] = issued[s]
      <4>1. /\ DOMAIN issued' = DOMAIN issued \cup {new}
            /\ issued'[new] = [turn |-> n + 1, content |-> current]
            /\ \A s \in DOMAIN issued \ {new} : issued'[s] = issued[s]
        BY <1>1, <2>2, Started
      <4> HIDE DEF new, n
      <4>2. issued'[new].turn = n + 1
        BY <4>1
      <4> QED
        BY <3>1, <4>1, <4>2
    <3>3. n \in Nat
      BY FS_CardinalityType DEF FiniteInv
    <3>4. Steps(new) \in Nat /\ Steps(sequence) \in Nat
      <4>1. new \in Numbers /\ sequence \in 0 .. Modulus - 1
        BY <1>1, <2>2, Started DEF TypeOK
      <4>2. new \in 0 .. Modulus - 1
        BY <4>1 DEF Numbers
      <4> QED
        BY <4>1, <4>2, StepsFacts
    <3>5. \A s \in DOMAIN issued : /\ Steps(s) \in 1 .. Steps(sequence)
                                   /\ issued[s].turn \in 1 .. n
      BY DEF SequenceInv
    <3>6. \A s, t \in DOMAIN issued : Steps(s) < Steps(t) => issued[s].turn < issued[t].turn
      BY DEF SequenceInv
    <3> HIDE DEF n
    <3>7. ASSUME NEW s \in DOMAIN issued'
          PROVE  Steps(s) \in 1 .. Steps(new) /\ issued'[s].turn \in 1 .. n + 1
      <4>1. CASE s = new
        BY <3>1, <3>2, <3>3, <3>4, <4>1
      <4>2. CASE s \in DOMAIN issued
        BY <3>1, <3>2, <3>3, <3>4, <3>5, <4>2
      <4> QED
        BY <3>2, <4>1, <4>2
    <3>8. ASSUME NEW s \in DOMAIN issued', NEW t \in DOMAIN issued', Steps(s) < Steps(t)
          PROVE  issued'[s].turn < issued'[t].turn
      <4>1. s # new
        BY <3>4, <3>7, <3>8
      <4>2. s \in DOMAIN issued
        BY <3>2, <4>1
      <4>3. CASE t = new
        BY <3>2, <3>3, <3>5, <4>2, <4>3
      <4>4. CASE t \in DOMAIN issued
        BY <3>2, <3>6, <3>8, <4>2, <4>4
      <4> QED
        BY <3>2, <4>3, <4>4
    <3>9. \A s : Steps(s)' = Steps(s)
      BY DEF Steps
    <3>10. Steps(sequence)' = Steps(new)
      BY DEF Steps
    <3> HIDE DEF new
    <3> QED
      BY <3>1, <3>7, <3>8, <3>10 DEF SequenceInv, new, Steps
  <2> QED
    BY <2>1, <2>2
<1> QED
  BY <1>0, <1>1 DEF Next, vars, owner, SendChunk, OnInterest, LeaseLapses, OwnerForgets, Toggle,
                    SendInterest, OnData, Expire, ViewerForgets, Lose

-----------------------------------------------------------------------------
(* Contents: what is sent, collected and shown is of a transaction issued *)

Known(kind, base, seq) ==
    seq \in DOMAIN issued /\ (kind = "Delta" => base \in DOMAIN issued)

\* The operations of a transaction.
Made(kind, base, seq) ==
    IF kind = "Full" THEN FullOperations(issued[seq].content)
    ELSE DeltaOperations(issued[base].content, issued[seq].content)

Genuine(p) ==
    /\ Known(p.kind, p.base, p.sequence)
    /\ p.count = ChunkCount(Made(p.kind, p.base, p.sequence))
    /\ p.records = Chunk(Made(p.kind, p.base, p.sequence), p.index)

\* What the Receiver has of the transaction it is collecting.
Partly(r) ==
    r.pendingSequence # 0 =>
        /\ Known(r.pendingKind, r.pendingBase, r.pendingSequence)
        /\ r.pendingCount = ChunkCount(Made(r.pendingKind, r.pendingBase, r.pendingSequence))
        /\ r.pending = UNION {Chunk(Made(r.pendingKind, r.pendingBase, r.pendingSequence), i) :
                                i \in r.received}

Shows(r) ==
    IF r.sequence = 0 THEN r.records = {}
    ELSE r.sequence \in DOMAIN issued /\ r.records = issued[r.sequence].content

AcknowledgedInv(t) ==
    t.acknowledgedSequence # 0 =>
        /\ t.acknowledgedSequence \in DOMAIN issued
        /\ issued[t.acknowledgedSequence].content = t.acknowledged

ActiveInv(t) ==
    t.active =>
        /\ Known(t.kind, t.base, t.sequence)
        /\ issued[t.sequence].content = t.target
        /\ t.operations = Made(t.kind, t.base, t.sequence)
        /\ t.kind = "Delta" => issued[t.base].content = t.acknowledged

ContentInv ==
    /\ AcknowledgedInv(tx) /\ ActiveInv(tx)
    /\ \A p \in data : Genuine(p)
    /\ Partly(rx) /\ Shows(rx)

LEMMA MadeFacts ==
    ASSUME TypeOK, NEW kind \in Kinds, NEW base, NEW seq, Known(kind, base, seq)
    PROVE  Made(kind, base, seq) \in SUBSET Operations /\ IsFiniteSet(Made(kind, base, seq))
<1>1. issued[seq].content \in Queues \cup {{}}
  BY DEF Known, TypeOK
<1>2. CASE kind = "Full"
  BY <1>1, <1>2, FullFacts DEF Made
<1>3. CASE kind = "Delta"
  <2>1. issued[base].content \in Queues \cup {{}}
    BY <1>3 DEF Known, TypeOK
  <2> QED
    BY <1>1, <1>3, <2>1, DeltaFacts DEF Made
<1> QED
  BY <1>2, <1>3 DEF Kinds

LEMMA BegunPartly ==
    ASSUME NEW r \in ReceiverType, NEW p \in PacketType, Genuine(p), Partly(r)
    PROVE  /\ Partly(Begun(r, p))
           /\ Begun(r, p).pendingSequence = p.sequence
           /\ Begun(r, p).sequence = r.sequence /\ Begun(r, p).records = r.records
<1>1. CASE r.pendingSequence = p.sequence
  BY <1>1 DEF Begun
<1>2. CASE r.pendingSequence # p.sequence
  <2> DEFINE b == Begun(r, p)
  <2>1. /\ b.pendingSequence = p.sequence /\ b.pendingBase = p.base /\ b.pendingKind = p.kind
        /\ b.pendingCount = p.count /\ b.pending = {} /\ b.received = {}
        /\ b.sequence = r.sequence /\ b.records = r.records
    BY <1>2 DEF Begun, ReceiverType
  <2> HIDE DEF b
  <2>2. Partly(b)
    BY <2>1 DEF Partly, Genuine
  <2> QED
    BY <2>1, <2>2 DEF b
<1> QED
  BY <1>1, <1>2

LEMMA CollectedPartly ==
    ASSUME NEW b \in ReceiverType, NEW p \in PacketType, Genuine(p), Partly(b),
           b.pendingSequence = p.sequence, ~Mismatch(b, p)
    PROVE  /\ Partly(Collected(b, p))
           /\ Collected(b, p).pendingSequence = p.sequence
           /\ Collected(b, p).pendingKind = p.kind /\ Collected(b, p).pendingBase = p.base
           /\ Collected(b, p).sequence = b.sequence /\ Collected(b, p).records = b.records
<1> DEFINE c == Collected(b, p)
           ops == Made(p.kind, p.base, p.sequence)
<1>1. /\ c.pendingSequence = p.sequence /\ c.pendingKind = b.pendingKind
      /\ c.pendingBase = b.pendingBase /\ c.pendingCount = b.pendingCount
      /\ c.pending = b.pending \cup p.records /\ c.received = b.received \cup {p.index}
      /\ c.sequence = b.sequence /\ c.records = b.records
  BY DEF Collected, ReceiverType
<1>2. b.pendingKind = p.kind /\ b.pendingBase = p.base /\ b.pendingCount = p.count
  BY DEF Mismatch
<1>3. p.sequence # 0
  BY DEF PacketType, Numbers
<1>4. b.pending = UNION {Chunk(ops, i) : i \in b.received}
  BY <1>2, <1>3 DEF Partly
<1>5. p.records = Chunk(ops, p.index) /\ p.count = ChunkCount(ops)
      /\ Known(p.kind, p.base, p.sequence)
  BY DEF Genuine
<1> HIDE DEF c
<1>6. c.pending = UNION {Chunk(ops, i) : i \in c.received}
  <2> HIDE DEF ops
  <2> QED
    BY <1>1, <1>4, <1>5
<1>7. Partly(c)
  BY <1>1, <1>2, <1>5, <1>6 DEF Partly
<1> QED
  BY <1>1, <1>2, <1>7 DEF c

LEMMA CommittedShows ==
    ASSUME TypeOK, NEW c \in ReceiverType, Partly(c), Shows(c), c.pendingSequence # 0, Complete(c),
           c.pendingKind = "Delta" => c.sequence # 0 /\ c.pendingBase = c.sequence
    PROVE  Partly(Committed(c)) /\ Shows(Committed(c))
<1> DEFINE ops == Made(c.pendingKind, c.pendingBase, c.pendingSequence)
<1>1. Known(c.pendingKind, c.pendingBase, c.pendingSequence) /\ c.pendingKind \in Kinds
  BY DEF Partly, ReceiverType
<1>2. c.pending = ops
  <2>1. ops \in SUBSET Operations /\ IsFiniteSet(ops)
    BY <1>1, MadeFacts
  <2>2. c.pending = UNION {Chunk(ops, i) : i \in c.received} /\ c.pendingCount = ChunkCount(ops)
    BY DEF Partly
  <2>3. c.received = 0 .. ChunkCount(ops) - 1
    BY <2>2 DEF Complete
  <2> HIDE DEF ops
  <2> QED
    BY <2>1, <2>2, <2>3, ChunksCover
<1>3. Assembled(c) = issued[c.pendingSequence].content
  <2>1. CASE c.pendingKind = "Full"
    BY <1>2, <2>1, AppliedFull DEF Assembled, Made
  <2>2. CASE c.pendingKind = "Delta"
    <3>1. c.records = issued[c.pendingBase].content
      BY <2>2 DEF Shows
    <3> QED
      BY <1>2, <2>2, <3>1, AppliedDelta DEF Assembled, Made
  <2> QED
    BY <1>1, <2>1, <2>2 DEF Kinds
<1>4. CASE Cardinality(Assembled(c)) > MaxRecords
  <2> DEFINE d == Committed(c)
  <2>1. /\ d.pendingSequence = c.pendingSequence /\ d.pendingKind = c.pendingKind
        /\ d.pendingBase = c.pendingBase /\ d.pendingCount = c.pendingCount
        /\ d.pending = c.pending /\ d.received = c.received
        /\ d.sequence = c.sequence /\ d.records = c.records
    BY <1>4 DEF Committed, ReceiverType
  <2> HIDE DEF d
  <2>2. Partly(d) /\ Shows(d)
    BY <2>1 DEF Partly, Shows
  <2> QED
    BY <2>2 DEF d
<1>5. CASE ~(Cardinality(Assembled(c)) > MaxRecords)
  <2> DEFINE d == Committed(c)
  <2>1. d.pendingSequence = 0 /\ d.sequence = c.pendingSequence /\ d.records = Assembled(c)
    BY <1>5 DEF Committed, ReceiverType
  <2> HIDE DEF d
  <2>2. Partly(d) /\ Shows(d)
    BY <1>1, <1>3, <2>1 DEF Partly, Shows, Known
  <2> QED
    BY <2>2 DEF d
<1> QED
  BY <1>4, <1>5

LEMMA AcceptKeeps ==
    ASSUME TypeOK, NEW p \in PacketType, Genuine(p), Partly(rx), Shows(rx)
    PROVE  Partly(Accept(rx, p).receiver) /\ Shows(Accept(rx, p).receiver)
<1> DEFINE b == Begun(rx, p)
           c == Collected(b, p)
<1>0. rx \in ReceiverType
  BY DEF TypeOK
<1>1. /\ b \in ReceiverType /\ Partly(b) /\ b.pendingSequence = p.sequence
      /\ b.sequence = rx.sequence /\ b.records = rx.records
  BY <1>0, BegunType, BegunPartly
<1>2. Shows(b)
  <2> HIDE DEF b
  <2> QED
    BY <1>1 DEF Shows
<1>3. CASE Accept(rx, p).receiver = [rx EXCEPT !.needFull = TRUE]
  <2> DEFINE d == [rx EXCEPT !.needFull = TRUE]
  <2>1. /\ d.pendingSequence = rx.pendingSequence /\ d.pendingKind = rx.pendingKind
        /\ d.pendingBase = rx.pendingBase /\ d.pendingCount = rx.pendingCount
        /\ d.pending = rx.pending /\ d.received = rx.received
        /\ d.sequence = rx.sequence /\ d.records = rx.records
    BY <1>0 DEF ReceiverType
  <2> HIDE DEF d
  <2>2. Partly(d) /\ Shows(d)
    BY <2>1 DEF Partly, Shows
  <2> QED
    BY <1>3, <2>2 DEF d
<1>4. ASSUME ~WrongBase(rx, p), ~Mismatch(b, p)
      PROVE  /\ Partly(c) /\ Shows(c)
             /\ Complete(c) => Partly(Committed(c)) /\ Shows(Committed(c))
  <2>1. /\ Partly(c) /\ c \in ReceiverType /\ c.pendingSequence = p.sequence
        /\ c.pendingKind = p.kind /\ c.pendingBase = p.base
        /\ c.sequence = b.sequence /\ c.records = b.records
    <3> HIDE DEF b
    <3> QED
      BY <1>1, <1>4, CollectedType, CollectedPartly
  <2> HIDE DEF b, c
  <2>2. Shows(c)
    BY <1>2, <2>1 DEF Shows
  <2>3. c.pendingSequence # 0
    BY <2>1 DEF PacketType, Numbers
  <2>4. c.pendingKind = "Delta" => c.sequence # 0 /\ c.pendingBase = c.sequence
    BY <1>1, <1>4, <2>1 DEF WrongBase
  <2> QED
    BY <2>1, <2>2, <2>3, <2>4, CommittedShows
<1> QED
  BY <1>1, <1>2, <1>3, <1>4, AcceptCases

\* A transaction stays what it is while others are issued.
LEMMA MadeKept ==
    ASSUME TypeOK, FiniteInv, SequenceInv, [Next]_vars,
           NEW kind \in Kinds, NEW base, NEW seq, Known(kind, base, seq)
    PROVE  Known(kind, base, seq)' /\ Made(kind, base, seq)' = Made(kind, base, seq)
BY IssuedGrows DEF Known, Made, Kinds

LEMMA GenuineKept ==
    ASSUME TypeOK, FiniteInv, SequenceInv, [Next]_vars, NEW p \in PacketType, Genuine(p)
    PROVE  Genuine(p)'
<1>1. p.kind \in Kinds
  BY DEF PacketType
<1>2. /\ Known(p.kind, p.base, p.sequence)'
      /\ Made(p.kind, p.base, p.sequence)' = Made(p.kind, p.base, p.sequence)
  BY <1>1, MadeKept DEF Genuine
<1> QED
  BY <1>2 DEF Genuine, ChunkCount, Chunk, Rank

LEMMA ReceiverKept ==
    ASSUME TypeOK, FiniteInv, SequenceInv, [Next]_vars, NEW r \in ReceiverType,
           Partly(r), Shows(r)
    PROVE  Partly(r)' /\ Shows(r)'
<1>1. r.pendingKind \in Kinds
  BY DEF ReceiverType
<1>2. CASE r.pendingSequence # 0
  <2>1. /\ Known(r.pendingKind, r.pendingBase, r.pendingSequence)'
        /\ Made(r.pendingKind, r.pendingBase, r.pendingSequence)'
              = Made(r.pendingKind, r.pendingBase, r.pendingSequence)
    BY <1>1, <1>2, MadeKept DEF Partly
  <2>2. Partly(r)'
    <3> DEFINE made == Made(r.pendingKind, r.pendingBase, r.pendingSequence)
    <3>1. ChunkCount(made)' = ChunkCount(made)
      BY <2>1 DEF ChunkCount
    <3>2. UNION {Chunk(made, i) : i \in r.received}' = UNION {Chunk(made, i) : i \in r.received}
      <4>1. made' = made
        BY <2>1
      <4> HIDE DEF made
      <4>2. ASSUME NEW i \in r.received PROVE Chunk(made, i)' = Chunk(made, i)
        BY <4>1 DEF Chunk, Rank
      <4> QED
        BY <4>2
    <3>3. r.pendingCount = ChunkCount(made) /\ r.pending = UNION {Chunk(made, i) : i \in r.received}
      BY <1>2 DEF Partly
    <3> QED
      BY <2>1, <3>1, <3>2, <3>3 DEF Partly
  <2> QED
    BY <2>2, IssuedGrows DEF Shows
<1>3. CASE r.pendingSequence = 0
  BY <1>3, IssuedGrows DEF Partly, Shows
<1> QED
  BY <1>2, <1>3

\* The transaction that a scan starts is made from the queue it found.
LEMMA PreparedContent ==
    ASSUME TypeOK, FiniteInv, SequenceInv, ContentInv, NEW current \in Queues, Scan(current),
           ~NothingToSend(tx, current)
    PROVE  AcknowledgedInv(tx)' /\ ActiveInv(tx)'
<1> DEFINE delta == DeltaOperations(tx.acknowledged, current)
           full  == tx.acknowledgedSequence = 0 \/ Cardinality(delta) >= Cardinality(current)
<1>0. tx \in TransmitterType
  BY DEF TypeOK
<1>1. /\ tx'.acknowledged = tx.acknowledged
      /\ tx'.acknowledgedSequence = tx.acknowledgedSequence
      /\ tx'.target = current /\ tx'.sequence = sequence' /\ tx'.active
      /\ tx'.operations = IF full THEN FullOperations(current) ELSE delta
      /\ tx'.kind = IF full THEN "Full" ELSE "Delta"
      /\ tx'.base = IF full THEN 0 ELSE tx.acknowledgedSequence
  <2>1. tx' = Prepared(tx, current, sequence')
    BY Started
  <2> QED
    BY <1>0, <2>1 DEF Prepared, TransmitterType
<1>2. /\ sequence' \notin DOMAIN issued
      /\ DOMAIN issued' = DOMAIN issued \cup {sequence'}
      /\ issued'[sequence'].content = current
      /\ \A s \in DOMAIN issued : issued'[s] = issued[s]
  <2>1. sequence' \notin DOMAIN issued
    BY FreshNumber
  <2>2. /\ DOMAIN issued' = DOMAIN issued \cup {sequence'}
        /\ issued'[sequence'] = [turn |-> Cardinality(DOMAIN issued) + 1, content |-> current]
        /\ \A s \in DOMAIN issued \ {sequence'} : issued'[s] = issued[s]
    BY Started
  <2> QED
    BY <2>1, <2>2
<1>3. tx.acknowledgedSequence # 0 =>
         /\ tx.acknowledgedSequence \in DOMAIN issued'
         /\ issued'[tx.acknowledgedSequence].content = tx.acknowledged
  BY <1>2 DEF ContentInv, AcknowledgedInv
<1>4. AcknowledgedInv(tx)'
  BY <1>1, <1>3 DEF AcknowledgedInv
<1>5. ActiveInv(tx)'
  <2>1. CASE full
    <3>1. tx'.kind = "Full" /\ tx'.operations = FullOperations(current)
      BY <1>1, <2>1
    <3> HIDE DEF full, delta
    <3> QED
      BY <1>1, <1>2, <3>1 DEF ActiveInv, Known, Made
  <2>2. CASE ~full
    <3>1. tx'.kind = "Delta" /\ tx'.operations = delta /\ tx'.base = tx.acknowledgedSequence
      BY <1>1, <2>2
    <3>2. tx.acknowledgedSequence # 0
      BY <2>2
    <3> HIDE DEF full
    <3> QED
      BY <1>1, <1>2, <1>3, <3>1, <3>2 DEF ActiveInv, Known, Made
  <2> QED
    BY <2>1, <2>2
<1> QED
  BY <1>4, <1>5

LEMMA ContentStep ==
    TypeOK /\ FiniteInv /\ SequenceInv /\ ContentInv /\ [Next]_vars => ContentInv'
<1> SUFFICES ASSUME TypeOK, FiniteInv, SequenceInv, ContentInv, [Next]_vars PROVE ContentInv'
    OBVIOUS
<1>0. /\ tx \in TransmitterType /\ rx \in ReceiverType
      /\ data \subseteq PacketType /\ control \subseteq InterestType
  BY DEF TypeOK
<1>a. \A p \in data : Genuine(p)'
  BY <1>0, GenuineKept DEF ContentInv
<1>b. rx' = rx => Partly(rx)' /\ Shows(rx)'
  <2>1. PICK r : r = rx
    OBVIOUS
  <2>2. Partly(r) /\ Shows(r) /\ r \in ReceiverType
    BY <1>0, <2>1 DEF ContentInv
  <2>3. Partly(r)' /\ Shows(r)'
    BY <2>2, ReceiverKept
  <2>4. ASSUME rx' = rx PROVE rx' = r
    BY <2>1, <2>4
  <2> QED
    BY <2>3, <2>4 DEF Partly, Shows, Known, Made
<1>c. UNCHANGED <<issued, tx>> => AcknowledgedInv(tx)' /\ ActiveInv(tx)'
  BY DEF ContentInv, AcknowledgedInv, ActiveInv, Known, Made
<1>d. UNCHANGED issued =>
        /\ \A t : AcknowledgedInv(t)' <=> AcknowledgedInv(t)
        /\ \A t : ActiveInv(t)' <=> ActiveInv(t)
  BY DEF AcknowledgedInv, ActiveInv, Known, Made
<1>e. (AcknowledgedInv(tx)' /\ ActiveInv(tx)') /\ data' \subseteq data /\ rx' = rx => ContentInv'
  BY <1>a, <1>b DEF ContentInv
<1>1. ASSUME NEW current \in Queues, Scan(current) PROVE ContentInv'
  <2>1. data' = data /\ rx' = rx
    BY <1>1 DEF Scan, viewer, net
  <2>2. AcknowledgedInv(tx)' /\ ActiveInv(tx)'
    <3>1. CASE NothingToSend(tx, current)
      BY <1>1, <1>c, <3>1 DEF Scan
    <3>2. CASE ~NothingToSend(tx, current)
      BY <1>1, <3>2, PreparedContent
    <3> QED
      BY <3>1, <3>2
  <2> QED
    BY <1>e, <2>1, <2>2
<1>2. CASE SendChunk
  <2> DEFINE index == IF tx.nextChunk = ChunkCount(tx.operations) THEN 0 ELSE tx.nextChunk
             p == Packet(tx, index)
  <2>1. /\ data' = data \cup {p} /\ tx' = [tx EXCEPT !.nextChunk = index + 1]
        /\ tx.active /\ UNCHANGED <<issued, rx>>
    BY <1>2 DEF SendChunk, viewer
  <2>2. Genuine(p)
    <3>1. /\ p.kind = tx.kind /\ p.base = tx.base /\ p.sequence = tx.sequence
          /\ p.count = ChunkCount(tx.operations) /\ p.records = Chunk(tx.operations, p.index)
      BY DEF Packet
    <3>2. /\ Known(tx.kind, tx.base, tx.sequence)
          /\ tx.operations = Made(tx.kind, tx.base, tx.sequence)
      BY <2>1 DEF ContentInv, ActiveInv
    <3> HIDE DEF p
    <3> QED
      BY <3>1, <3>2 DEF Genuine
  <2>3. p \in PacketType
    <3>1. index \in Nat
      BY <1>0 DEF TransmitterType
    <3> HIDE DEF index
    <3> QED
      BY <1>0, <2>1, <3>1, PacketTypeLemma DEF FiniteInv
  <2>4. \A q \in data' : Genuine(q)'
    <3>1. ASSUME NEW q \in PacketType, q = p PROVE Genuine(q)'
      BY <2>2, <3>1, GenuineKept
    <3> QED
      BY <1>a, <2>1, <2>3, <3>1
  <2>5. /\ tx'.acknowledged = tx.acknowledged /\ tx'.target = tx.target
        /\ tx'.acknowledgedSequence = tx.acknowledgedSequence /\ tx'.active = tx.active
        /\ tx'.kind = tx.kind /\ tx'.base = tx.base /\ tx'.sequence = tx.sequence
        /\ tx'.operations = tx.operations
    BY <1>0, <2>1 DEF TransmitterType
  <2>6. AcknowledgedInv(tx)' /\ ActiveInv(tx)'
    BY <2>1, <2>5 DEF ContentInv, AcknowledgedInv, ActiveInv, Known, Made
  <2> QED
    BY <1>b, <2>1, <2>4, <2>6 DEF ContentInv
<1>3. ASSUME NEW m \in control, NEW repeated \in BOOLEAN, OnInterest(m, repeated)
      PROVE  ContentInv'
  <2>1. tx' = Acknowledge(Asked(m), m.ack) /\ UNCHANGED <<issued, rx, data>>
    BY <1>3 DEF OnInterest, Asked, viewer
  <2>2. m \in InterestType /\ Asked(m) \in TransmitterType
    BY <1>0, AskedFacts
  <2>3. AcknowledgedInv(Asked(m)) /\ ActiveInv(Asked(m))
    <3>1. /\ Asked(m).acknowledged = tx.acknowledged /\ Asked(m).target = tx.target
          /\ Asked(m).acknowledgedSequence = tx.acknowledgedSequence
          /\ Asked(m).active => tx.active
          /\ Asked(m).kind = tx.kind /\ Asked(m).base = tx.base /\ Asked(m).sequence = tx.sequence
          /\ Asked(m).operations = tx.operations
      BY <1>0, <2>2 DEF Asked, TransmitterType, InterestType
    <3> QED
      BY <3>1 DEF ContentInv, AcknowledgedInv, ActiveInv
  <2>4. ASSUME NEW t \in TransmitterType, AcknowledgedInv(t), ActiveInv(t)
        PROVE  AcknowledgedInv(Acknowledge(t, m.ack)) /\ ActiveInv(Acknowledge(t, m.ack))
    <3>1. CASE t.active /\ m.ack = t.sequence
      <4>1. /\ Acknowledge(t, m.ack).acknowledged = t.target
            /\ Acknowledge(t, m.ack).acknowledgedSequence = t.sequence
            /\ ~Acknowledge(t, m.ack).active
        BY <3>1 DEF Acknowledge, TransmitterType
      <4> QED
        BY <2>4, <3>1, <4>1 DEF AcknowledgedInv, ActiveInv, Known
    <3>2. CASE ~(t.active /\ m.ack = t.sequence) /\ m.ack = 0 /\ (~t.active \/ t.kind = "Delta")
      <4>1. Acknowledge(t, m.ack).acknowledgedSequence = 0 /\ ~Acknowledge(t, m.ack).active
        BY <3>2 DEF Acknowledge, TransmitterType
      <4> QED
        BY <4>1 DEF AcknowledgedInv, ActiveInv
    <3>3. CASE ~(t.active /\ m.ack = t.sequence)
               /\ ~(m.ack = 0 /\ (~t.active \/ t.kind = "Delta"))
      <4>1. Acknowledge(t, m.ack) = t
        BY <3>3 DEF Acknowledge
      <4> QED
        BY <2>4, <4>1
    <3> QED
      BY <3>1, <3>2, <3>3
  <2>5. PICK t : t = tx'
    OBVIOUS
  <2>6. AcknowledgedInv(t) /\ ActiveInv(t)
    BY <2>1, <2>2, <2>3, <2>4, <2>5
  <2>7. AcknowledgedInv(tx)' /\ ActiveInv(tx)'
    BY <2>1, <2>5, <2>6 DEF AcknowledgedInv, ActiveInv, Known, Made
  <2> QED
    BY <1>e, <2>1, <2>7
<1>4. CASE LeaseLapses
  <2>1. /\ tx'.acknowledged = tx.acknowledged /\ ~tx'.active
        /\ tx'.acknowledgedSequence = tx.acknowledgedSequence /\ UNCHANGED <<issued, rx, data>>
    BY <1>0, <1>4 DEF LeaseLapses, TransmitterType, viewer, net
  <2>2. AcknowledgedInv(tx)' /\ ActiveInv(tx)'
    BY <2>1 DEF ContentInv, AcknowledgedInv, ActiveInv
  <2> QED
    BY <1>e, <2>1, <2>2
<1>5. CASE OwnerForgets
  <2>1. ~tx'.active /\ tx'.acknowledgedSequence = 0 /\ UNCHANGED <<issued, rx, data>>
    BY <1>5 DEF OwnerForgets, NoTransmitter, viewer, net
  <2>2. AcknowledgedInv(tx)' /\ ActiveInv(tx)'
    BY <2>1 DEF AcknowledgedInv, ActiveInv
  <2> QED
    BY <1>e, <2>1, <2>2
<1>6. ASSUME NEW p \in data, NEW repeated \in BOOLEAN, OnData(p, repeated)
      PROVE  ContentInv'
  <2>1. data' \subseteq data /\ UNCHANGED <<issued, tx>>
    BY <1>6 DEF OnData, owner
  <2>2. rx' = rx \/ rx' = Accept(rx, p).receiver
    BY <1>6 DEF OnData
  <2>3. PICK r : r = Accept(rx, p).receiver
    OBVIOUS
  <2>4. Partly(r) /\ Shows(r)
    BY <1>0, <2>3, AcceptKeeps DEF ContentInv
  <2>5. ASSUME rx' = r PROVE Partly(rx)' /\ Shows(rx)'
    BY <2>1, <2>4, <2>5 DEF Partly, Shows, Known, Made
  <2> QED
    BY <1>a, <1>b, <1>c, <2>1, <2>2, <2>3, <2>5 DEF ContentInv
<1>7. ASSUME rx' = NoReceiver, UNCHANGED <<owner, net>> PROVE ContentInv'
  <2>1. rx'.pendingSequence = 0 /\ rx'.sequence = 0 /\ rx'.records = {}
    BY <1>7 DEF NoReceiver
  <2>2. Partly(rx)' /\ Shows(rx)'
    BY <2>1 DEF Partly, Shows
  <2> QED
    BY <1>7, <1>a, <1>c, <2>2 DEF ContentInv, owner, net
<1>8. ASSUME rx' = rx, UNCHANGED owner, data' \subseteq data PROVE ContentInv'
  BY <1>8, <1>c, <1>e DEF owner
<1> QED
  BY <1>1, <1>2, <1>3, <1>4, <1>5, <1>6, <1>7, <1>8 DEF Next, vars, owner, viewer, net, Toggle,
                                             SendInterest, Expire, ViewerForgets, Lose

-----------------------------------------------------------------------------
(* The theorems *)

IInv == TypeOK /\ FiniteInv /\ SequenceInv /\ ContentInv

\* Whatever the network does, all that is sent, collected, shown or taken for
\* acknowledged is of a transaction that was issued under that number.
THEOREM InductiveInvariant == Spec => []IInv
<1>1. Init => IInv
  <2> SUFFICES ASSUME Init PROVE IInv
      OBVIOUS
  <2>1. DOMAIN issued = {} /\ sequence = Start /\ data = {}
    BY DEF Init
  <2>2. SequenceInv
    <3>1. Cardinality(DOMAIN issued) = 0
      BY <2>1, FS_EmptySet
    <3> QED
      BY <2>1, <3>1, SequenceAssumption, WindowAssumption DEF SequenceInv, Steps
  <2>3. ContentInv
    <3>1. tx.acknowledgedSequence = 0 /\ ~tx.active
      BY DEF Init, NoTransmitter
    <3>2. rx.pendingSequence = 0 /\ rx.sequence = 0 /\ rx.records = {}
      BY DEF Init, NoReceiver
    <3> QED
      BY <2>1, <3>1, <3>2 DEF ContentInv, AcknowledgedInv, ActiveInv, Partly, Shows
  <2> QED
    BY TypeInit, <2>2, <2>3 DEF IInv
<1>2. IInv /\ [Next]_vars => IInv'
  BY TypeStep, SequenceStep, ContentStep DEF IInv
<1> QED
  BY <1>1, <1>2, PTL DEF Spec

\* The variables keep their types, and 0 is no transaction's number.
THEOREM TypeInvariant == Spec => []TypeOK
BY InductiveInvariant, PTL DEF IInv

\* The viewer sees nothing or a whole snapshot, the one it acknowledges.
THEOREM ShowsSnapshotHolds == Spec => []ShowsSnapshot
<1>1. IInv => ShowsSnapshot
  BY DEF IInv, ContentInv, Shows, ShowsSnapshot
<1> QED
  BY <1>1, InductiveInvariant, PTL

\* A Delta that the viewer would apply is made against what the viewer shows.
THEOREM BasesAgreeHolds == Spec => []BasesAgree
<1>1. IInv => BasesAgree
  <2> SUFFICES ASSUME IInv, tx.active, tx.kind = "Delta", tx.base = rx.sequence
               PROVE  tx.acknowledged = rx.records
      BY DEF BasesAgree
  <2>1. tx.base \in DOMAIN issued /\ issued[tx.base].content = tx.acknowledged
    BY DEF IInv, ContentInv, ActiveInv, Known
  <2>2. rx.sequence # 0
    BY <2>1 DEF IInv, TypeOK, Numbers
  <2> QED
    BY <2>1, <2>2 DEF IInv, ContentInv, Shows
<1> QED
  BY <1>1, InductiveInvariant, PTL

-----------------------------------------------------------------------------
(* The refinement *)

LEMMA SequenceCount ==
    ASSUME FiniteInv PROVE Cardinality(DOMAIN issued) \in Nat
BY FS_CardinalityType DEF FiniteInv

\* Of two numbers issued, the one that counts as newer has the later turn.
LEMMA NewerIsLater ==
    ASSUME TypeOK, FiniteInv, SequenceInv, NEW a \in DOMAIN issued, NEW b \in DOMAIN issued,
           a # b, Newer(a, b)
    PROVE  issued[b].turn < issued[a].turn
<1>0. /\ Modulus \in Nat /\ Modulus > 2 /\ Start \in 0 .. Modulus - 1
      /\ MaxTransactions \in Nat /\ 2 * MaxTransactions < Modulus
  BY SequenceAssumption, WindowAssumption
<1>1. a \in 0 .. Modulus - 1 /\ b \in 0 .. Modulus - 1
  BY DEF TypeOK, Numbers
<1>2. Steps(a) \in 1 .. MaxTransactions + 1 /\ Steps(b) \in 1 .. MaxTransactions + 1
  <2>1. Cardinality(DOMAIN issued) <= MaxTransactions
    BY DEF SequenceInv
  <2>2. Steps(sequence) <= Cardinality(DOMAIN issued) + (IF sequence < Start THEN 1 ELSE 0)
    BY DEF SequenceInv
  <2>3. Steps(a) \in 1 .. Steps(sequence) /\ Steps(b) \in 1 .. Steps(sequence)
    BY DEF SequenceInv
  <2>5. Steps(sequence) \in Int
    BY StepsFacts DEF TypeOK
  <2>6. Steps(sequence) <= MaxTransactions + 1
    BY <1>0, <2>1, <2>2, <2>5, SequenceCount
  <2> QED
    BY <1>0, <2>3, <2>5, <2>6
<1>3. Steps(a) # Steps(b)
  BY <1>1, StepsFacts
<1>4. ~(Steps(a) < Steps(b))
  <2> SUFFICES ASSUME Steps(a) < Steps(b) PROVE FALSE
      OBVIOUS
  <2> DEFINE d == Steps(b) - Steps(a)
  <2>1. d \in 1 .. MaxTransactions
    BY <1>0, <1>2
  <2>2. a - b = Modulus - d \/ a - b = -d
    BY <1>0, <1>1 DEF Steps
  <2> HIDE DEF d
  <2>3. Modulus - d \in 0 .. Modulus - 1
    BY <1>0, <2>1
  <2>4. (a - b) % Modulus = Modulus - d
    <3>1. CASE a - b = Modulus - d
      BY <1>0, <2>1, <3>1
    <3>2. CASE a - b = -d
      BY <1>0, <2>1, <3>2
    <3> QED
      BY <2>2, <3>1, <3>2
  <2>5. Modulus - d < Modulus \div 2
    BY <2>4 DEF Newer
  <2>6. 2 * (Modulus \div 2) <= Modulus
    BY <1>0
  <2> QED
    BY <1>0, <2>1, <2>5, <2>6
<1>5. Steps(b) < Steps(a)
  BY <1>2, <1>3, <1>4
<1> QED
  BY <1>5 DEF SequenceInv

Published == {issued[s] : s \in DOMAIN issued}
ShownTurn == IF rx.sequence = 0 THEN 0 ELSE issued[rx.sequence].turn

\* Every transaction is another snapshot of the register.
LEMMA PublishedCount ==
    ASSUME TypeOK, FiniteInv, SequenceInv
    PROVE  Cardinality(Published) = Cardinality(DOMAIN issued)
<1> DEFINE f == [s \in DOMAIN issued |-> issued[s]]
<1>1. f \in Surjection(DOMAIN issued, Published)
  BY DEF Surjection, Published
<1>2. ASSUME NEW s \in DOMAIN issued, NEW t \in DOMAIN issued, issued[s] = issued[t]
      PROVE  s = t
  <2>1. s \in 0 .. Modulus - 1 /\ t \in 0 .. Modulus - 1
    BY DEF TypeOK, Numbers
  <2>2. Steps(s) \in Int /\ Steps(t) \in Int
    BY <2>1, StepsFacts
  <2>3. issued[s].turn \in Int
    BY SequenceCount DEF SequenceInv
  <2>4. ~(Steps(s) < Steps(t)) /\ ~(Steps(t) < Steps(s))
    <3>1. \A u, v \in DOMAIN issued : Steps(u) < Steps(v) => issued[u].turn < issued[v].turn
      BY DEF SequenceInv
    <3> QED
      BY <1>2, <2>3, <3>1
  <2> QED
    BY <2>1, <2>2, <2>4, StepsFacts
<1>3. f \in Injection(DOMAIN issued, Published)
  BY <1>2 DEF Injection, IsInjective, Published
<1> HIDE DEF f
<1> QED
  BY <1>1, <1>3, FS_Surjection DEF FiniteInv

LEMMA AcceptShows ==
    ASSUME NEW r \in ReceiverType, NEW p \in PacketType
    PROVE  LET s == Accept(r, p).receiver
           IN  \/ s.sequence = r.sequence /\ s.records = r.records
               \/ s.sequence = p.sequence /\ ~Obsolete(r, p)
<1> DEFINE b == Begun(r, p)
           c == Collected(b, p)
<1>1. b \in ReceiverType /\ b.sequence = r.sequence /\ b.records = r.records
  BY BegunType DEF Begun, ReceiverType
<1>2. b.pendingSequence = p.sequence
  BY DEF Begun, ReceiverType
<1>3. CASE Accept(r, p).receiver = [r EXCEPT !.needFull = TRUE]
  BY <1>3 DEF ReceiverType
<1> HIDE DEF b
<1>4. /\ c \in ReceiverType /\ c.sequence = r.sequence /\ c.records = r.records
      /\ c.pendingSequence = p.sequence
  <2>1. c \in ReceiverType
    BY <1>1, CollectedType
  <2> QED
    BY <1>1, <1>2, <2>1 DEF Collected, ReceiverType
<1> HIDE DEF c
<1>5. \/ Committed(c).sequence = c.sequence /\ Committed(c).records = c.records
      \/ Committed(c).sequence = c.pendingSequence
  BY <1>4 DEF Committed, ReceiverType
<1> QED
  BY <1>1, <1>3, <1>4, <1>5, AcceptCases DEF b, c

LEMMA RegisterStep ==
    IInv /\ [Next]_vars => [Register!Next]_<<Published, ShownTurn, rx.records>>
<1> SUFFICES ASSUME IInv, [Next]_vars
             PROVE  Register!Next \/ UNCHANGED <<Published, ShownTurn, rx.records>>
    OBVIOUS
<1> USE DEF IInv
<1>0. rx \in ReceiverType /\ data \subseteq PacketType
  BY DEF TypeOK
<1>a. rx.sequence # 0 => rx.sequence \in DOMAIN issued
  BY DEF ContentInv, Shows
<1>1. ASSUME NEW current \in Queues, Scan(current), ~NothingToSend(tx, current)
      PROVE  Register!Publish(current)
  <2>1. rx' = rx
    BY <1>1 DEF Scan, viewer
  <2>2. ShownTurn' = ShownTurn
    BY <1>a, <2>1, IssuedGrows DEF ShownTurn
  <2>3. Published' = Published \cup
          {[turn |-> Cardinality(Published) + 1, content |-> current]}
    <3>1. /\ DOMAIN issued' = DOMAIN issued \cup {sequence'}
          /\ issued'[sequence'] = [turn |-> Cardinality(DOMAIN issued) + 1, content |-> current]
      BY <1>1, Started
    <3>2. \A s \in DOMAIN issued : issued'[s] = issued[s]
      BY IssuedGrows
    <3>3. Cardinality(DOMAIN issued) = Cardinality(Published)
      BY PublishedCount
    <3>4. Published' = {issued'[s] : s \in DOMAIN issued'}
      BY DEF Published
    <3>5. {issued'[s] : s \in DOMAIN issued'} = {issued'[s] : s \in DOMAIN issued} \cup {issued'[sequence']}
      BY <3>1
    <3>6. {issued'[s] : s \in DOMAIN issued} = Published
      BY <3>2 DEF Published
    <3> QED
      BY <3>1, <3>3, <3>4, <3>5, <3>6
  <2>4. {issued[s] : s \in DOMAIN issued}' = {issued[s] : s \in DOMAIN issued} \cup
          {[turn |-> Cardinality({issued[s] : s \in DOMAIN issued}) + 1, content |-> current]}
    BY <2>3, Zenon DEF Published
  <2>5. UNCHANGED <<IF rx.sequence = 0 THEN 0 ELSE issued[rx.sequence].turn, rx.records>>
    BY <2>1, <2>2 DEF ShownTurn
  <2> QED
    BY <2>4, <2>5, Zenon DEF Register!Publish, Register!Cardinality, Cardinality
<1>2. ASSUME NEW p \in data, NEW repeated \in BOOLEAN, OnData(p, repeated)
      PROVE  Register!Next \/ UNCHANGED <<Published, ShownTurn, rx.records>>
  <2> DEFINE s == Accept(rx, p).receiver
  <2>1. UNCHANGED issued /\ (rx' = rx \/ rx' = s)
    BY <1>2 DEF OnData, owner
  <2>2. CASE rx'.sequence = rx.sequence /\ rx'.records = rx.records
    BY <2>1, <2>2 DEF Published, ShownTurn
  <2>3. CASE rx' = s /\ s.sequence = p.sequence /\ ~Obsolete(rx, p)
    <3>1. p \in PacketType /\ Genuine(p) /\ p.sequence # 0
      BY <1>0 DEF ContentInv, PacketType, Numbers
    <3>2. p.sequence \in DOMAIN issued
      BY <3>1 DEF Genuine, Known
    <3>3. s.records = issued[p.sequence].content
      <4>1. Shows(s)
        BY <3>1, AcceptKeeps DEF ContentInv
      <4> HIDE DEF s
      <4> QED
        BY <2>3, <3>1, <4>1 DEF Shows
    <3> HIDE DEF s
    <3>4. issued[p.sequence].turn \in Nat /\ issued[p.sequence].turn > 0
      BY <3>2, SequenceCount DEF SequenceInv
    <3>5. issued[p.sequence].turn > ShownTurn
      <4>1. CASE rx.sequence = 0
        BY <3>4, <4>1 DEF ShownTurn
      <4>2. CASE rx.sequence # 0
        <5>1. Newer(p.sequence, rx.sequence) /\ p.sequence # rx.sequence
          BY <2>3, <4>2 DEF Obsolete, Newer
        <5>2. issued[rx.sequence].turn < issued[p.sequence].turn
          BY <1>a, <3>2, <4>2, <5>1, NewerIsLater
        <5>3. issued[rx.sequence].turn \in Int
          BY <1>a, <4>2, SequenceCount DEF SequenceInv
        <5> QED
          BY <3>4, <4>2, <5>2, <5>3 DEF ShownTurn
      <4> QED
        BY <4>1, <4>2
    <3>6. ShownTurn' = issued[p.sequence].turn /\ rx'.records = issued[p.sequence].content
      BY <2>1, <2>3, <3>1, <3>3 DEF ShownTurn
    <3>7. Published' = Published /\ issued[p.sequence] \in Published
      BY <2>1, <3>2 DEF Published
    <3>8. Register!Show(issued[p.sequence])
      BY <3>5, <3>6, <3>7 DEF Register!Show, Published, ShownTurn
    <3> QED
      BY <3>7, <3>8 DEF Register!Next, Published, ShownTurn
  <2> QED
    BY <1>0, <2>1, <2>2, <2>3, AcceptShows
<1>3. ASSUME rx' = NoReceiver, UNCHANGED issued PROVE Register!Clear
  <2>1. rx'.sequence = 0 /\ rx'.records = {}
    BY <1>3 DEF NoReceiver
  <2> QED
    BY <1>3, <2>1 DEF Register!Clear
<1>4. ASSUME UNCHANGED <<issued, rx>> PROVE UNCHANGED <<Published, ShownTurn, rx.records>>
  BY <1>4 DEF Published, ShownTurn
<1>5. ASSUME NEW current \in Queues, Scan(current)
      PROVE  Register!Next \/ UNCHANGED <<Published, ShownTurn, rx.records>>
  <2>1. CASE NothingToSend(tx, current)
    BY <1>4, <1>5, <2>1 DEF Scan, viewer
  <2>2. CASE ~NothingToSend(tx, current)
    BY <1>1, <1>5, <2>2 DEF Register!Next
  <2> QED
    BY <2>1, <2>2
<1>6. CASE Expire \/ ViewerForgets
  BY <1>3, <1>6 DEF Expire, ViewerForgets, owner, Register!Next
<1> QED
  BY <1>2, <1>4, <1>5, <1>6 DEF Next, vars, owner, viewer, SendChunk, OnInterest, LeaseLapses,
                                OwnerForgets, Toggle, SendInterest, Lose

\* The overlay is the register: the display is a snapshot the owner took, and
\* moves on to later ones only.
THEOREM ImplementsRegisterHolds == Spec => ImplementsRegister
<1>1. Init => Register!Init
  <2> SUFFICES ASSUME Init PROVE Register!Init
      OBVIOUS
  <2>1. DOMAIN issued = {} /\ rx.sequence = 0 /\ rx.records = {}
    BY DEF Init, NoReceiver
  <2> QED
    BY <2>1 DEF Register!Init
<1>2. IInv /\ [Next]_vars => [Register!Next]_<<Published, ShownTurn, rx.records>>
  BY RegisterStep
<1> QED
  BY <1>1, <1>2, InductiveInvariant, PTL
     DEF Spec, ImplementsRegister, Register!Spec, Published, ShownTurn
=============================================================================
