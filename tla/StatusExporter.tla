--------------------------- MODULE StatusExporter ---------------------------
(***************************************************************************)
(* The status exporter of tdraw.dll (DDraw/tafstatusexporter.cpp): the     *)
(* table of players is copied into memory shared with other processes,     *)
(* under a sequence lock.  The reader is in another repository; it is what *)
(* tafgamestate.h asks of one ("odd=writing, even=stable, 0=never          *)
(* written").  The game may be started again while the reader runs.        *)
(***************************************************************************)
EXTENDS Integers

CONSTANTS
    Fields,            \* the arrays of TAFGameState
    Values,            \* what one of them may hold
    Zero,              \* all zeroes
    HeartbeatFrames,   \* HEARTBEAT_FRAMES
    MaxSequence        \* bound: sequence numbers of one process

ASSUME ExporterAssumption ==
    Zero \in Values /\ HeartbeatFrames \in Nat \ {0} /\ MaxSequence \in Nat

VARIABLES
    players,       \* what the engine's Players[] says, field by field
    shm,           \* the arrays in shared memory
    shmSequence,   \* shm->sequenceNumber
    prev,          \* m_prev; its magic is 0 while sequence is 0
    sinceWrite,    \* m_framesSinceWrite
    writing,       \* next, and the fields still to be written to shm
    reader,        \* a read under way: the first number, the fields read so far
    restarted,     \* history: the game was started again during that read
    stable         \* history: the contents written by this process, by number

exporterVars ==
    <<players, shm, shmSequence, prev, sinceWrite, writing, reader, restarted, stable>>

Blank == [f \in Fields |-> Zero]
NotWriting == [at |-> "Idle", next |-> Blank, left |-> {}]
NotReading == [at |-> "Idle", sequence |-> 0, copy |-> Blank, left |-> {}]

-----------------------------------------------------------------------------
(* The exporter *)

DataChanged == prev.sequence = 0 \/ prev.fields # players
HeartbeatDue == sinceWrite + 1 >= HeartbeatFrames

\* FrameUpdate until the first barrier.
FrameUpdate ==
    /\ writing.at = "Idle"
    /\ IF DataChanged \/ HeartbeatDue
       THEN /\ prev.sequence < MaxSequence
            /\ shmSequence' = prev.sequence + 1
            /\ writing' = [at |-> "Writing", next |-> players, left |-> Fields]
            /\ UNCHANGED sinceWrite
       ELSE /\ sinceWrite' = sinceWrite + 1
            /\ UNCHANGED <<shmSequence, writing>>
    /\ UNCHANGED <<players, shm, prev, reader, restarted, stable>>

\* One array reaches the memory; between the barriers they may do so in any order.
WriteField(f) ==
    /\ writing.at = "Writing" /\ f \in writing.left
    /\ shm' = [shm EXCEPT ![f] = writing.next[f]]
    /\ writing' = [writing EXCEPT !.left = @ \ {f}]
    /\ UNCHANGED <<players, shmSequence, prev, sinceWrite, reader, restarted, stable>>

\* Faulty variant: the second barrier is missing.
AllWrittenEarly == writing.at = "Writing"

AllWritten == writing.at = "Writing" /\ writing.left = {}

EndWrite ==
    /\ AllWritten
    /\ shmSequence' = prev.sequence + 2
    /\ prev' = [sequence |-> prev.sequence + 2, fields |-> writing.next]
    /\ sinceWrite' = 0
    /\ writing' = NotWriting
    /\ stable' = [s \in DOMAIN stable \cup {prev.sequence + 2} |->
                    IF s = prev.sequence + 2 THEN writing.next ELSE stable[s]]
    /\ UNCHANGED <<players, shm, reader, restarted>>

\* Whatever the game was doing, it is started again: the constructor clears the
\* memory from its start, the sequence number before the arrays.
Restart ==
    /\ shmSequence' = 0
    /\ prev' = [sequence |-> 0, fields |-> Blank]
    /\ sinceWrite' = HeartbeatFrames
    /\ writing' = [at |-> "Clearing", next |-> Blank, left |-> Fields]
    /\ stable' = [s \in {} |-> Blank]
    /\ restarted' = TRUE
    /\ UNCHANGED <<players, shm, reader>>

ClearField(f) ==
    /\ writing.at = "Clearing" /\ f \in writing.left
    /\ shm' = [shm EXCEPT ![f] = Zero]
    /\ writing' = IF writing.left = {f} THEN NotWriting ELSE [writing EXCEPT !.left = @ \ {f}]
    /\ UNCHANGED <<players, shmSequence, prev, sinceWrite, reader, restarted, stable>>

-----------------------------------------------------------------------------
(* The engine and the reader *)

PlayersChange(f, v) ==
    /\ players[f] # v
    /\ players' = [players EXCEPT ![f] = v]
    /\ UNCHANGED <<shm, shmSequence, prev, sinceWrite, writing, reader, restarted, stable>>

\* Faulty variant: an odd number is as good as any other.
StableWritten(s) == s # 0

Stable(s) == s # 0 /\ s % 2 = 0

BeginRead ==
    /\ reader.at = "Idle" /\ Stable(shmSequence)
    /\ reader' = [at |-> "Reading", sequence |-> shmSequence, copy |-> Blank, left |-> Fields]
    /\ restarted' = FALSE
    /\ UNCHANGED <<players, shm, shmSequence, prev, sinceWrite, writing, stable>>

ReadField(f) ==
    /\ reader.at = "Reading" /\ f \in reader.left
    /\ reader' = [reader EXCEPT !.copy[f] = shm[f], !.left = @ \ {f}]
    /\ UNCHANGED <<players, shm, shmSequence, prev, sinceWrite, writing, restarted, stable>>

\* The reader looks at the number again and takes the copy if it is the same.
Accepts ==
    reader.at = "Reading" /\ reader.left = {} /\ shmSequence = reader.sequence

EndRead ==
    /\ reader.at = "Reading" /\ reader.left = {}
    /\ reader' = NotReading
    /\ UNCHANGED <<players, shm, shmSequence, prev, sinceWrite, writing, restarted, stable>>

ExporterInit ==
    /\ players = Blank /\ shm = Blank /\ shmSequence = 0
    /\ prev = [sequence |-> 0, fields |-> Blank]
    /\ sinceWrite = HeartbeatFrames
    /\ writing = NotWriting
    /\ reader = NotReading /\ restarted = FALSE
    /\ stable = [s \in {} |-> Blank]

ExporterNext ==
    \/ FrameUpdate \/ EndWrite \/ Restart
    \/ \E f \in Fields : WriteField(f) \/ ClearField(f) \/ ReadField(f)
    \/ \E f \in Fields, v \in Values : PlayersChange(f, v)
    \/ BeginRead \/ EndRead

ExporterSpec == ExporterInit /\ [][ExporterNext]_exporterVars

-----------------------------------------------------------------------------
(* Properties *)

\* The variables keep their types.
ExporterTypeOK ==
    /\ players \in [Fields -> Values] /\ shm \in [Fields -> Values]
    /\ shmSequence \in Nat
    /\ prev \in [sequence : Nat, fields : [Fields -> Values]]
    /\ sinceWrite \in Nat
    /\ writing \in [at : {"Idle", "Writing", "Clearing"}, next : [Fields -> Values],
                    left : SUBSET Fields]
    /\ reader \in [at : {"Idle", "Reading"}, sequence : Nat, copy : [Fields -> Values],
                   left : SUBSET Fields]
    /\ restarted \in BOOLEAN
    /\ DOMAIN stable \subseteq Nat /\ \A s \in DOMAIN stable : stable[s] \in [Fields -> Values]

\* "Odd=writing, even=stable": what a reader takes is the table as one FrameUpdate
\* found it, however the stores of the writer and the loads of the reader fall
\* together.  A game that is started again during the read counts from 0 again and
\* may come to the same number with another table.
ReadsAreWhole ==
    Accepts /\ ~restarted =>
        reader.sequence \in DOMAIN stable /\ reader.copy = stable[reader.sequence]
=============================================================================
