-------------------------- MODULE PacketCompression -------------------------
(***************************************************************************)
(* The compression of packets by the recorder and the replay server        *)
(* (TPacket.Compress and TPacket.Decompress of packet_old.pas; packet.pas  *)
(* of the server has the same code).  It is the game's own: a packet is    *)
(* sent as groups of a mask and GroupSize chunks, the mask saying of each  *)
(* chunk whether it is a byte or a reference to bytes already sent.        *)
(*                                                                         *)
(* A packet is the sequence of its bytes after the three of its header, so *)
(* positions are three less than the code's.  The widths of the format are *)
(* constants: the code has 8 chunks to a group, 4 bits for the length of a *)
(* reference and compresses nothing past byte 2000.                        *)
(***************************************************************************)
EXTENDS Integers, Sequences, SequencesExt, FiniteSetsExt

CONSTANTS
    Bytes,         \* the bytes
    GroupSize,     \* chunks to a mask
    LengthValues,  \* values of the length field of a reference
    Literal,       \* the bytes at the front that are always sent as they are
    Reach,         \* the last position where a reference is tried
    MaxBytes       \* bound: bytes in a packet

ASSUME CompressionAssumption ==
    /\ GroupSize \in Nat \ {0} /\ LengthValues \in Nat \ {0}
    /\ Literal \in Nat \ {0, 1} /\ Reach \in Nat /\ MaxBytes \in Nat

VARIABLES
    sentPacket,    \* history: the packet before compression
    wire,          \* the packet under way: [code, data]
    wireAt         \* "Plain", "Compressed", "Received"

compressionVars == <<sentPacket, wire, wireAt>>

-----------------------------------------------------------------------------
(* Compress *)

\* What is sent, as tuples as long as they are in bytes: a mask is the set of
\* the chunks of its group that are references.
Byte(b) == <<b>>
Reference(from, count) == <<from, count>>
Mask(chunks) == <<chunks>>
Terminator == Reference(0, 2)
IsReference(chunk) == Len(chunk) = 2
From(ref) == ref[1]
Count(ref) == ref[2]

\* The bytes from a on that repeat at i, the last byte of the packet excepted,
\* and none of them at i or after: the loop of cmatchl.
Matching(d, a, i) ==
    Min({i - a, Len(d) - i} \cup {k \in 0 .. Len(d) - i - 1 : d[a + k] # d[i + k]})

\* The first of the longest matches, or the first longer than a reference can
\* say, which ends the search (break).
LongestMatch(d, i) ==
    LET starts == 1 .. (i - 2)
        long == {a \in starts : Matching(d, a, i) > LengthValues + 1}
        most == Max({Matching(d, a, i) : a \in starts})
        from == IF long # {} THEN Min(long)
                ELSE Min({a \in starts : Matching(d, a, i) = most})
    IN Reference(from, Matching(d, from, i))

\* The repetitions of the byte before i.
Repeated(d, i) ==
    Reference(i - 1, Min({Len(d) - i} \cup {k \in 0 .. Len(d) - i - 1 : d[i + k] # d[i - 1]}))

Best(d, i) ==
    LET match == LongestMatch(d, i)
        run == Repeated(d, i)
    IN IF Count(run) > Count(match) /\ Count(run) > 2 THEN run ELSE match

\* The chunk for position i: a reference of three bytes or more, its length cut
\* to what the field holds (which may leave two), or the byte.
ChunkAt(d, i) ==
    LET best == Best(d, i)
    IN IF i > Literal /\ i <= Reach /\ Count(best) > 2
       THEN Reference(From(best), ((Count(best) - 2) % LengthValues) + 2)
       ELSE Byte(d[i])

\* Faulty variant: by the whole match, not by what the field says of it.
AdvanceWhole(d, i) == IF IsReference(ChunkAt(d, i)) THEN Count(Best(d, i)) ELSE 1

\* How far the position moves on.
Advance(d, i) == IF IsReference(ChunkAt(d, i)) THEN Count(ChunkAt(d, i)) ELSE 1

\* The loop of Compress: where it stands in the packet, and the chunks so far.
Chunks(d) ==
    LET cut[k \in 0 .. Len(d)] ==
            IF k = 0 THEN [at |-> 1, chunks |-> <<>>]
            ELSE LET c == cut[k - 1]
                 IN IF c.at > Len(d) THEN c
                    ELSE [at |-> c.at + Advance(d, c.at), chunks |-> Append(c.chunks, ChunkAt(d, c.at))]
    IN cut[Len(d)].chunks

\* The chunks of group g that are references.  The bits of the last mask that no
\* chunk has claimed are set; when its group is full, that is a mask of ones of
\* its own.  The terminator is the reference this announces.
References(chunks, g) ==
    {k \in 0 .. GroupSize - 1 :
        LET n == g * GroupSize + k + 1
        IN n > Len(chunks) \/ IsReference(chunks[n])}

\* The chunks with a mask before every GroupSize of them.
Grouped(chunks) ==
    LET width == GroupSize + 1
        last == Len(chunks) + Len(chunks) \div GroupSize + 2
    IN [j \in 1 .. last |->
            LET g == (j - 1) \div width
                k == (j - 1) % width
            IN IF j = last THEN Terminator
               ELSE IF k = 0 THEN Mask(References(chunks, g))
               ELSE chunks[g * GroupSize + k]]

Size(data) == FoldLeft(LAMBDA n, c : n + Len(c), 0, data)

Compress(d) ==
    LET data == Grouped(Chunks(d))
    IN IF Size(data) < Len(d) THEN [code |-> 4, data |-> data] ELSE [code |-> 3, data |-> d]

-----------------------------------------------------------------------------
(* Decompress *)

\* The bytes a reference adds, one at a time, so that it may reach into itself.
Copied(out, ref) ==
    LET copied[k \in 0 .. Count(ref)] ==
            IF k = 0 THEN out ELSE Append(copied[k - 1], copied[k - 1][From(ref) + k - 1])
    IN copied[Count(ref)]

\* One chunk or mask read.
Read(acc, c) ==
    IF acc.done THEN acc
    ELSE IF acc.left = 0 THEN [acc EXCEPT !.mask = c[1], !.left = GroupSize]
    ELSE IF GroupSize - acc.left \notin acc.mask
         THEN [acc EXCEPT !.out = Append(@, c[1]), !.left = @ - 1]
    ELSE IF From(c) = 0 THEN [acc EXCEPT !.done = TRUE]
    ELSE [acc EXCEPT !.out = Copied(@, c), !.left = @ - 1]

Decompress(p) ==
    IF p.code # 4 THEN p
    ELSE LET read[j \in 0 .. Len(p.data)] ==
                 IF j = 0 THEN [out |-> <<>>, mask |-> {}, left |-> 0, done |-> FALSE]
                 ELSE Read(read[j - 1], p.data[j])
             end == read[Len(p.data)]
         IN [code |-> IF end.done THEN 3 ELSE 4, data |-> end.out]

-----------------------------------------------------------------------------
CompressionInit ==
    /\ sentPacket \in BoundedSeq(Bytes, MaxBytes)
    /\ wire = [code |-> 3, data |-> sentPacket]
    /\ wireAt = "Plain"

SendCompressed ==
    /\ wireAt = "Plain"
    /\ wire' = Compress(wire.data)
    /\ wireAt' = "Compressed"
    /\ UNCHANGED sentPacket

Receive ==
    /\ wireAt = "Compressed"
    /\ wire' = Decompress(wire)
    /\ wireAt' = "Received"
    /\ UNCHANGED sentPacket

CompressionNext == SendCompressed \/ Receive

CompressionSpec == CompressionInit /\ [][CompressionNext]_compressionVars

-----------------------------------------------------------------------------
(* Properties *)

\* The variables keep their types.
CompressionTypeOK ==
    /\ sentPacket \in Seq(Bytes)
    /\ wire.code \in {3, 4}
    /\ wireAt \in {"Plain", "Compressed", "Received"}

\* A packet comes out of Decompress as it went into Compress, byte for byte and
\* as an uncompressed one, whatever repeats in it and wherever its groups and
\* references end.
RoundTrip == wireAt = "Received" => wire = [code |-> 3, data |-> sentPacket]
=============================================================================
