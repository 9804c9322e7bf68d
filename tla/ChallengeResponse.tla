------------------------- MODULE ChallengeResponse -------------------------
(***************************************************************************)
(* Challenge and response of tdraw.dll (DDraw/ChallengeResponse.cpp): in   *)
(* each game a client asks the others for a hash of their modules and game *)
(* data, computes on a worker thread what they should answer, and reports  *)
(* those whose answer differs.                                             *)
(*                                                                         *)
(* One client, the verifier, and one other, the prover, are followed over  *)
(* several games of the process.  Both run the same program on the same    *)
(* data, so what differs is the program's own doing.  A unit of time is    *)
(* longer than a packet's way.                                             *)
(***************************************************************************)
EXTENDS Integers, Sequences, FiniteSetsExt

CONSTANTS
    Maps,
    RequestAt, ReplyUntil, VerifyUntil,    \* 6 s, 15 s and 120 s of GameTime
    MaxMatch,          \* bound: games
    Preempted          \* whether the worker may run in the midst of VerifyResponses

ASSUME ChallengeAssumption ==
    /\ RequestAt \in Nat /\ ReplyUntil \in Nat /\ VerifyUntil \in Nat /\ MaxMatch \in Nat
    /\ 1 < RequestAt /\ RequestAt < ReplyUntil /\ ReplyUntil < VerifyUntil
    /\ Preempted \in BOOLEAN

VARIABLES
    gameTime, match, map,      \* the game: its time, its number, its map
    snapshot,      \* m_featureMapSnapshot of both: a map, or NoMap
    record,        \* the verifier's m_responses entry for the prover
    worker,        \* how far the verifier's worker is with the record
    replies,       \* the prover's m_challengeResponseReplyQueue
    requests,      \* packets on the way to the prover
    answers,       \* packets on the way to the verifier
    compared,      \* VerifyResponses between the comparisons and the flags, or NotVerifying
    verdicts       \* history: what the verifier reported

challengeVars ==
    <<gameTime, match, map, snapshot, record, worker, replies, requests, answers, compared, verdicts>>

NoMap == "no map"

ASSUME MapsAssumption == NoMap \notin Maps

NotVerifying == [verifying |-> FALSE, modules |-> FALSE, data |-> FALSE, racing |-> FALSE]
NoHash == <<>>
ModulesHash(nonse) == <<nonse>>
DataHash(nonse, m) == <<nonse, m>>

NoRecord ==
    [nonse |-> 0, modules |-> NoHash, data |-> NoHash, hasModules |-> FALSE, hasData |-> FALSE,
     ourModules |-> NoHash, ourData |-> NoHash, computed |-> FALSE]

-----------------------------------------------------------------------------
(* The records *)

\* Faulty variant: the flags of the last game stay.
InitKeepsFlags(r, nonse) ==
    [r EXCEPT !.nonse = nonse, !.modules = NoHash, !.data = NoHash, !.computed = FALSE]

\* InitPlayerResponse; our own hashes of the last game stay until the worker writes them.
InitPlayerResponse(r, nonse) ==
    [r EXCEPT !.nonse = nonse, !.modules = NoHash, !.data = NoHash, !.computed = FALSE,
              !.hasModules = FALSE, !.hasData = FALSE]

\* Faulty variant: the data is stored and not noted.
SetUnnoted(r, m) ==
    IF m.kind = "Modules" THEN [r EXCEPT !.modules = m.hash, !.hasModules = TRUE]
    ELSE [r EXCEPT !.data = m.hash]

\* SetPlayerModulesResponse, SetPlayerGameDataResponse.
SetResponse(r, m) ==
    IF m.kind = "Modules" THEN [r EXCEPT !.modules = m.hash, !.hasModules = TRUE]
    ELSE [r EXCEPT !.data = m.hash, !.hasData = TRUE]

\* The report on a record, given the comparisons made before.
Says(r, c) ==
    IF ~r.computed THEN "not computed yet"
    ELSE IF ~r.hasModules \/ ~r.hasData THEN "has not replied"
    ELSE IF ~c.modules THEN "fails dll/exe verification"
    ELSE IF ~c.data THEN "fails game data verification"
    ELSE "passes"

-----------------------------------------------------------------------------
(* One tick at both clients: ChallengeResponseUpdateProc *)

\* The first tick that finds no snapshot takes one, and does nothing else.
TakesSnapshot(who) == snapshot[who] = NoMap

IsReady(reply) == reply.ready /\ ~reply.sent

Sendable(now) ==
    IF TakesSnapshot("prover") \/ now = RequestAt \/ now >= ReplyUntil THEN {}
    ELSE {i \in DOMAIN replies : IsReady(replies[i])}

Answer(reply) ==
    << [kind |-> "Modules", hash |-> ModulesHash(reply.nonse)],
       [kind |-> "Data", hash |-> DataHash(reply.nonse, reply.map)] >>

\* Of several replies sent in one tick the last is the one whose hashes stay at
\* the verifier, which overwrites the others before its next tick.
Update ==
    /\ gameTime < VerifyUntil - 1 /\ match > 0
    /\ requests = <<>> /\ answers = <<>> /\ ~compared.verifying
    /\ LET now   == gameTime + 1
           asks  == ~TakesSnapshot("verifier") /\ now = RequestAt
           sends == Sendable(now)
       IN  /\ gameTime' = now
           /\ snapshot' = [w \in DOMAIN snapshot |-> IF TakesSnapshot(w) THEN map ELSE snapshot[w]]
           /\ record' = IF asks THEN InitPlayerResponse(record, match) ELSE record
           /\ worker' = IF asks THEN "queued" ELSE worker
           /\ requests' = IF asks THEN <<match>> ELSE <<>>
           /\ answers' = IF sends = {} THEN <<>> ELSE Answer(replies[Max(sends)])
           /\ replies' = [i \in DOMAIN replies |->
                            IF i \in sends THEN [replies[i] EXCEPT !.sent = TRUE] ELSE replies[i]]
           /\ compared' = IF ~TakesSnapshot("verifier") /\ now >= ReplyUntil
                          THEN [verifying |-> TRUE, racing |-> ~record.computed,
                                modules |-> record.modules = record.ourModules,
                                data |-> record.data = record.ourData]
                          ELSE NotVerifying
    /\ UNCHANGED <<match, map, verdicts>>

\* The rest of VerifyResponses, which looks at the flags after the comparisons.
Judge ==
    /\ compared.verifying
    /\ verdicts' = verdicts \cup {[match |-> match, says |-> Says(record, compared),
                                   racing |-> compared.racing,
                                   stale |-> snapshot["verifier"] # map \/ snapshot["prover"] # map]}
    /\ compared' = NotVerifying
    /\ UNCHANGED <<gameTime, match, map, snapshot, record, worker, replies, requests, answers>>

-----------------------------------------------------------------------------
(* Packets and worker threads *)

\* HandleChallengeResponsePacket at the prover.
OnRequest ==
    /\ requests # <<>>
    /\ replies' = Append(replies, [nonse |-> Head(requests), map |-> NoMap,
                                   ready |-> FALSE, sent |-> FALSE])
    /\ requests' = Tail(requests)
    /\ UNCHANGED <<gameTime, match, map, snapshot, record, worker, answers, compared, verdicts>>

\* HandleChallengeResponsePacket at the verifier.
OnAnswer ==
    /\ answers # <<>> /\ ~compared.verifying
    /\ record' = SetResponse(record, Head(answers))
    /\ answers' = Tail(answers)
    /\ UNCHANGED <<gameTime, match, map, snapshot, worker, replies, requests, compared, verdicts>>

\* The prover's worker: the oldest job of its queue.
ProverHashes ==
    \E i \in DOMAIN replies :
        /\ ~replies[i].ready /\ \A j \in 1 .. i - 1 : replies[j].ready
        /\ replies' = [replies EXCEPT ![i].ready = TRUE, ![i].map = snapshot["prover"]]
        /\ UNCHANGED <<gameTime, match, map, snapshot, record, worker, requests, answers,
                       compared, verdicts>>

\* The verifier's worker: ComputeChallengeResponse, store by store.
VerifierHashes ==
    /\ compared.verifying => Preempted
    /\ \/ /\ worker = "queued" /\ worker' = "modules"
          /\ record' = [record EXCEPT !.ourModules = ModulesHash(record.nonse)]
       \/ /\ worker = "modules" /\ worker' = "data"
          /\ record' = [record EXCEPT !.ourData = DataHash(record.nonse, snapshot["verifier"])]
       \/ /\ worker = "data" /\ worker' = "idle"
          /\ record' = [record EXCEPT !.computed = TRUE]
    /\ UNCHANGED <<gameTime, match, map, snapshot, replies, requests, answers, compared, verdicts>>

\* The next game.  A worker is done with a game before the next begins; a client may
\* have restarted the program in between.
NextMatch ==
    /\ match < MaxMatch
    /\ worker = "idle" /\ ~compared.verifying /\ requests = <<>> /\ answers = <<>>
    /\ \A i \in DOMAIN replies : replies[i].ready
    /\ match' = match + 1 /\ gameTime' = 0 /\ map' \in Maps
    /\ \E restarted \in SUBSET {"verifier", "prover"} :
          /\ snapshot' = [w \in DOMAIN snapshot |-> IF w \in restarted THEN NoMap ELSE snapshot[w]]
          /\ record' = IF "verifier" \in restarted THEN NoRecord ELSE record
          /\ replies' = IF "prover" \in restarted THEN <<>> ELSE replies
    /\ UNCHANGED <<worker, requests, answers, compared, verdicts>>

ChallengeInit ==
    /\ gameTime = 0 /\ match = 0 /\ map \in Maps
    /\ snapshot = [w \in {"verifier", "prover"} |-> NoMap]
    /\ record = NoRecord /\ worker = "idle" /\ replies = <<>>
    /\ requests = <<>> /\ answers = <<>>
    /\ compared = NotVerifying /\ verdicts = {}

ChallengeNext ==
    \/ Update \/ Judge \/ OnRequest \/ OnAnswer \/ ProverHashes \/ VerifierHashes \/ NextMatch

ChallengeSpec == ChallengeInit /\ [][ChallengeNext]_challengeVars

-----------------------------------------------------------------------------
(* Properties *)

\* The variables keep their types.
ChallengeTypeOK ==
    /\ gameTime \in 0 .. VerifyUntil /\ match \in 0 .. MaxMatch /\ map \in Maps
    /\ snapshot \in [{"verifier", "prover"} -> Maps \cup {NoMap}]
    /\ record.nonse \in 0 .. MaxMatch
    /\ record.hasModules \in BOOLEAN /\ record.hasData \in BOOLEAN /\ record.computed \in BOOLEAN
    /\ worker \in {"idle", "queued", "modules", "data"}
    /\ requests \in Seq(1 .. MaxMatch)
    /\ \A i \in DOMAIN answers : answers[i].kind \in {"Modules", "Data"}
    /\ compared \in [verifying : BOOLEAN, modules : BOOLEAN, data : BOOLEAN, racing : BOOLEAN]
    /\ \A v \in verdicts : v.match \in 1 .. MaxMatch

Fails(v) == v.says \in {"fails dll/exe verification", "fails game data verification"}

\* "~10% of production games hit this branch via false-positive mismatch": a client
\* that runs the same program on the same data is reported as failing in two cases
\* only.  The worker stored the last of our hashes after VerifyResponses compared them
\* and before it looked whether they are there; or one of the two still has the
\* snapshot of another game's map.  No answer of an earlier game, nor its flags, nor a
\* half-written record does it.
NoFalseFailure ==
    \A v \in verdicts : Fails(v) => v.racing \/ v.stale

\* A client is reported as silent only when its answer was not ready in time.
SilentOnlyIfLate ==
    \A v \in verdicts : v.says = "has not replied" /\ v.match = match =>
        \E i \in DOMAIN replies : replies[i].nonse = match /\ ~replies[i].sent

-----------------------------------------------------------------------------
(* What the comments say and the code does not do *)

\* "Make a big song and dance about anyone who failed": not about the others.
HonestPasses == \A v \in verdicts : ~Fails(v)
=============================================================================
