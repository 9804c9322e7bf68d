---------------------------- MODULE DemoPackets -----------------------------
(***************************************************************************)
(* The packets of one player on their way through a demo file: the         *)
(* recorder leaves out of them what the replay server can put back         *)
(* (TDPlay.SmartPak, Recorder/idplay.pas), the server rebuilds them        *)
(* (TSaveFile.unsmartpak, Server/savefile.pas), and after the watcher has  *)
(* dragged the progress bar it holds back everything but unit states until *)
(* all units have been sent once (TAServer.DoTimer, Server/tasv.pas).      *)
(*                                                                         *)
(* A packet is a sequence of parts: the state of the unit whose turn it is *)
(* ($2c, numbered by a serial that grows by one with each), "idle" when    *)
(* that state is empty, "event" for a part that is replayed as it is and   *)
(* "dropped" for the kind ($14) that is not replayed.  The engine writes   *)
(* them; that serials have no gap and that an idle part is always the same *)
(* is what the recorder relies on.  The recorder's option onlyunits, which *)
(* is never set, and the health table are left out.                        *)
(***************************************************************************)
EXTENDS Integers, Sequences, SequencesExt

CONSTANTS
    Shapes,       \* the packets: sequences of "unit", "idle", "event", "dropped"
    MaxUnits,     \* the units whose states take turns
    MaxPackets    \* bound: packets in a demo

UnitKinds == {"unit", "idle"}
Replayable == UnitKinds \cup {"event"}
Kinds == Replayable \cup {"dropped"}

ASSUME PacketsAssumption ==
    /\ MaxUnits \in Nat \ {0} /\ MaxPackets \in Nat
    /\ Shapes \subseteq Seq(Kinds)

VARIABLES
    engineSerial,   \* the engine's next serial
    original,       \* history: the packets as the player sent them
    recording,      \* the packets as recorded
    upNext,         \* the packet to be replayed next, 0 while recording
    dronePos,       \* lastdronepack, possynccomplete and recentpos of the player
    rebuilt,        \* the parts sent for the packet before upNext
    sinceDrag       \* history: bar dragged, first packet after it without a unit
                    \* state, serials sent since

packetsVars == <<engineSerial, original, recording, upNext, dronePos, rebuilt, sinceDrag>>

IsUnit(kind) == kind \in UnitKinds
Part(kind, n) == [kind |-> kind, serial |-> n]
NoSerial == 0

NotMoved == [moved |-> FALSE, blind |-> FALSE, serials |-> {}]

PacketsInit ==
    /\ engineSerial = 1
    /\ original = <<>>
    /\ recording = <<>>
    /\ upNext = 0
    /\ dronePos = [last |-> 0, complete |-> 0, recent |-> FALSE]
    /\ rebuilt = <<>>
    /\ sinceDrag = NotMoved

-----------------------------------------------------------------------------
(* The recorder *)

\* The states among the first k parts.
UnitsIn(shape, k) == Cardinality({j \in 1 .. k : IsUnit(shape[j])})

\* The parts of a packet, the states numbered from n on.
Numbered(shape, n) ==
    [k \in DOMAIN shape |->
        Part(shape[k], IF IsUnit(shape[k]) THEN n + UnitsIn(shape, k - 1) ELSE NoSerial)]

Stripped(p) == IF IsUnit(p.kind) THEN Part(p.kind, NoSerial) ELSE p

\* SmartPak: states lose their serials ($fd), an idle one is a single byte ($ff),
\* and a part that holds the serial of the first of them precedes it ($fe).
SmartPak(packet) ==
    LET units == {k \in DOMAIN packet : IsUnit(packet[k].kind)}
        saved == [k \in DOMAIN packet |-> Stripped(packet[k])]
    IN IF units = {} THEN saved
       ELSE InsertAt(saved, Min(units), Part("base", packet[Min(units)].serial))

Record(shape) ==
    /\ upNext = 0
    /\ Len(recording) < MaxPackets
    /\ LET packet == Numbered(shape, engineSerial)
       IN /\ original' = Append(original, packet)
          /\ recording' = Append(recording, SmartPak(packet))
          /\ engineSerial' = engineSerial + UnitsIn(shape, Len(shape))
    /\ UNCHANGED <<upNext, dronePos, rebuilt, sinceDrag>>

-----------------------------------------------------------------------------
(* The server *)

\* Faulty variant: an idle part does not count.
PutBackStill(acc, p, others) ==
    IF IsUnit(p.kind) /\ p.serial = NoSerial
    THEN [packnum |-> IF p.kind = "idle" THEN acc.packnum ELSE acc.packnum + 1,
          last |-> acc.packnum + 1,
          out |-> Append(acc.out, Part(p.kind, acc.packnum))]
    ELSE CASE p.kind = "base" -> [acc EXCEPT !.packnum = p.serial, !.last = p.serial]
           [] IsUnit(p.kind) -> [acc EXCEPT !.last = p.serial]
           [] p.kind = "dropped" -> acc
           [] p.kind = "event" -> IF others THEN [acc EXCEPT !.out = Append(@, p)] ELSE acc

\* One part of unsmartpak: packnum counts the serials, last is last2c.  A part
\* that already has its serial (the output of an earlier pass) only sets last.
PutBack(acc, p, others) ==
    CASE p.kind = "base" -> [acc EXCEPT !.packnum = p.serial, !.last = p.serial]
      [] IsUnit(p.kind) /\ p.serial = NoSerial ->
            [packnum |-> acc.packnum + 1,
             last |-> acc.packnum + 1,
             out |-> Append(acc.out, Part(p.kind, acc.packnum))]
      [] IsUnit(p.kind) /\ p.serial # NoSerial -> [acc EXCEPT !.last = p.serial]
      [] p.kind = "dropped" -> acc
      [] p.kind = "event" -> IF others THEN [acc EXCEPT !.out = Append(@, p)] ELSE acc

\* unsmartpak; others is its parameter incnon2c.
UnSmartPak(packet, last, others) ==
    LET read[k \in 0 .. Len(packet)] ==
            IF k = 0 THEN [packnum |-> 0, last |-> last, out |-> <<>>]
            ELSE PutBack(read[k - 1], packet[k], others)
    IN read[Len(packet)]

\* Faulty variant: where the round of the units ends is worked out before the
\* first pass has found where it begins.
ResyncedEarly(packet) ==
    LET once == UnSmartPak(packet, dronePos.last, FALSE)
    IN [packet |-> once.out, last |-> once.last, complete |-> dronePos.last + MaxUnits]

\* What DoTimer does first with the first packet after a drag.  It then goes the
\* way of the others, so that it is unpacked twice and nothing of it is left.
Resynced(packet) ==
    LET once == UnSmartPak(packet, dronePos.last, FALSE)
    IN [packet |-> once.out, last |-> once.last, complete |-> once.last + MaxUnits]

StartReplay ==
    /\ upNext = 0
    /\ upNext' = 1
    /\ UNCHANGED <<engineSerial, original, recording, dronePos, rebuilt, sinceDrag>>

Replay ==
    /\ upNext \in DOMAIN recording
    /\ LET start == IF dronePos.recent THEN Resynced(recording[upNext])
                    ELSE [packet |-> recording[upNext], last |-> dronePos.last, complete |-> dronePos.complete]
           done == UnSmartPak(start.packet, start.last, start.last >= start.complete)
       IN /\ rebuilt' = done.out
          /\ dronePos' = [last |-> done.last, complete |-> start.complete, recent |-> FALSE]
          /\ sinceDrag' = [sinceDrag EXCEPT
                !.serials = @ \cup {p.serial : p \in {q \in ToSet(done.out) : IsUnit(q.kind)}},
                !.blind = @ \/ (dronePos.recent /\ start.packet = <<>>)]
    /\ upNext' = upNext + 1
    /\ UNCHANGED <<engineSerial, original, recording>>

\* SetPos.
DragBar(i) ==
    /\ upNext > 0
    /\ upNext' = i
    /\ dronePos' = [dronePos EXCEPT !.recent = TRUE]
    /\ rebuilt' = <<>>
    /\ sinceDrag' = [NotMoved EXCEPT !.moved = TRUE]
    /\ UNCHANGED <<engineSerial, original, recording>>

PacketsNext ==
    \/ \E shape \in Shapes : Record(shape)
    \/ StartReplay
    \/ Replay
    \/ \E i \in DOMAIN recording : DragBar(i)

PacketsSpec == PacketsInit /\ [][PacketsNext]_packetsVars

-----------------------------------------------------------------------------
(* Properties *)

\* The variables keep their types.
PacketsTypeOK ==
    /\ engineSerial \in Nat \ {0}
    /\ Len(recording) = Len(original) /\ Len(recording) <= MaxPackets
    /\ upNext \in 0 .. MaxPackets + 1
    /\ dronePos \in [last : Nat, complete : Nat, recent : BOOLEAN]
    /\ \A k \in DOMAIN rebuilt : rebuilt[k].kind \in Replayable
    /\ sinceDrag.moved \in BOOLEAN /\ sinceDrag.blind \in BOOLEAN

\* The parts of the kinds given.
Keep(out, p, kinds) == IF p.kind \in kinds THEN Append(out, p) ELSE out

Kept(packet, kinds) ==
    LET kept[k \in 0 .. Len(packet)] ==
            IF k = 0 THEN <<>> ELSE Keep(kept[k - 1], packet[k], kinds)
    IN kept[Len(packet)]

\* A packet comes out of the file as the player sent it, every state under the
\* serial it had and every part in its place, without the parts of kind $14.
\* After a drag of the bar there may be its unit states only, or nothing.
RebuildsPacket ==
    upNext \in 2 .. Len(original) + 1 =>
        LET packet == original[upNext - 1]
        IN \/ rebuilt = Kept(packet, Replayable)
           \/ sinceDrag.moved /\ rebuilt \in {Kept(packet, UnitKinds), <<>>}

\* No event is sent on top of unit states from before a drag of the bar: by then
\* the state of every unit has been sent since the drag.  The exception is a
\* player whose first packet after the drag holds no unit state: lastdronepack is
\* then still the one from before the drag, and when the bar was dragged forward
\* the round counts as complete.
EventsAfterResync ==
    (/\ sinceDrag.moved /\ ~sinceDrag.blind
     /\ \E k \in DOMAIN rebuilt : rebuilt[k].kind = "event")
        => {s % MaxUnits : s \in sinceDrag.serials} = 0 .. MaxUnits - 1
=============================================================================
