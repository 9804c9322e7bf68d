# A TLA+ model of TADR

TADR is a set of extensions for the 1997 game *Total Annihilation*. `tdraw.dll`
(`src/src/DDraw`, C++) sits between the engine and DirectDraw, adds the HUD, commands and
peer-to-peer protocols; `dplayx.dll` (`src/src/Recorder`, Delphi) sits between the engine and
DirectPlay, records games and rewrites packets; the replay server (`src/src/Server`, Delphi) plays
recorded games back. There is no server during a game: every protocol runs on every client, over
links that may be silent, and each client decides alone. A mistake destroys a player's base,
accuses an honest player, or leaves the players with different games.

The components named below with a module are modelled and model-checked, and about every one of
these modules there are machine-checked proofs. Paths below are relative to `src/src/DDraw` unless they start otherwise.

## Inventory

| component | state and operations | what is hard, and what makes it correct | module |
| --- | --- | --- | --- |
| Reject ballots (`VoteReject.*`) | one `VoteState` per target, deferred checks, cooldowns, `.take` windows; propose, vote, receive, `Tick` | copies that differ, proposals that cross, deadlines racing a resumed player or a take. Nobody is rejected without the clicks the rule asks for, or against the will of every connected ally; nobody who is back is rejected by the timer; every ballot ends | `VoteReject` |
| Take election (`TakeClaim.cpp`) | per target the claims, window, grace tick, watch on the walk, tick to reject at; `.take`, packets, chat, the game tick | claims in different orders on skewed clocks, a winner that vanishes, a walk with gaps. One ally takes, all wait for the same one, the reject follows the end of the walk, every election ends | `TakeClaim` |
| Walk of dplayx (`../Recorder/Misc_Commands.inc`) | `OnTake`, `TakeStatus`, one give per frame | declines without an answer | in `TakeClaim` |
| Packet and chat routing (`PacketChatRouter.*`) | dispatch of received packets and chat | a removed player's client still dispatches | in `VoteReject`, `TakeClaim` |
| Allied build-queue overlay (`AlliedBuildQueueProtocol.h`, `AlliedBuildQueueSync.cpp`) | transmitter, receiver, leases, per ally | lost, repeated, reordered and interleaved transactions, wrap-around of the numbers. A viewer shows nothing, or a whole snapshot, and never goes back | `AlliedBuildQueue` |
| Share guard (`ShareGuard.cpp`) | window of past shares, blocks held, the engine's unit slots | slots recycled while a block is held, clocks that go back. Never more than the allowance at once; a held share arrives; nothing else is handed over | `ShareGuard` |
| Lag-switch guard (`LagSwitchGuard.cpp`) | per player the last traffic seen, frozen or not | every client frozen, waiting for the others. Freeze only on silence of all, thaw when the network is back | `LagSwitchGuard` |
| Challenge and response (`ChallengeResponse.cpp`) | records per player, a worker thread, a queue of replies | the worker writes what the game loop resets, compares and reads; state left from the last game. An honest client is not accused | `ChallengeResponse` |
| Status exporter (`tafstatusexporter.cpp`) | a block of shared memory, a sequence number | a reader in another process, a restart in the midst. A read that is accepted is whole | `StatusExporter` |
| Unit-identity audit (`UnitIdentity.cpp`) | ring of views, streaks | clocks that drift, digests lost, late or of the last game. A reported desync rests on the last audits compared, each once, and each a true disagreement | `IdentityAudit` |
| Split of the surplus (`ShareSplit.cpp`) | none of its own; a plan per pulse | boundaries: storage full, small pool, too many receivers. The split is the fairest there is | `ShareSplit` |
| Demo files: pages (`../Server/savefile.pas`, `tasv.pas`) | marks of the scan, the page in memory, the index | pages that join, bar dragged anywhere. No read past a page, no move twice | `DemoReplay` |
| Demo files: packets (`../Recorder/idplay.pas`, `../Server/savefile.pas`) | serials left out when recorded, put back when replayed | bar dragged to where the last serial is unknown. A packet comes out as it went in | `DemoPackets` |
| Compression (`../packet_old.pas`, `../Server/packet.pas`) | a packet | references at the limits of their fields. Decompress undoes Compress | `PacketCompression` |
| Other simulation fixes and limits | patches in the engine's code | the behaviour is that of a binary that is not here | - |
| Sharing and alliance commands, game tick and HUD services | engine records changed at once, callback lists | sequential | - |
| Drawing, megamap, whiteboard, GUI | pixels | no protocol state | - |
| Launcher, installers, tools, third-party code, debug pipe | stand-alone programs; test builds only | - | - |

### Interactions

```
 menu, chat, dialog --> VoteReject <--- vote packets      ---> VoteReject of the others
                          ^  ^
          NoteTakeInProgress  ExecuteRejectAfterTake
                          |  |
 .take command ------> TakeClaim <--- Claim, Complete packets ----> TakeClaim of the others
                          |   ^
              '.take' chat|   | accept line, the target's unit count
                          v   |
                        dplayx (OnTake, walk)

 engine's packets --> dplayx: SmartPak, Compress --> demo file --> scan, pages --> unsmartpak --> watcher
 engine's Players[] --> StatusExporter --> shared memory --> readers in other processes
```

The remaining components talk to their own kind on other clients and to the engine, and to nothing
else: the overlay by data and Interest packets, the audit by digests, challenge and response by
requests and replies; the share guard, the lag-switch guard and the split act on the engine only.

`PROJECT.json` lists each hazard with its line and the properties that would catch it.

## Modules

| module | what it is |
| --- | --- |
| `VoteReject` | the ballots of every client followed in detail (`Local`), packets among them, arbitrary packets from the others |
| `BallotLifecycle` | abstract specification: what one client promises about the ballots it holds. `VoteReject` implements it (`ImplementsLifecycle`) |
| `TakeClaim` | one take election among the allies of one target, with the walk |
| `AlliedBuildQueue` | the overlay from one owner to one viewer, over a network that loses, repeats and reorders |
| `SnapshotRegister` | abstract specification: what the overlay promises a viewer. `AlliedBuildQueue` implements it (`ImplementsRegister`) |
| `ShareGuard`, `LagSwitchGuard`, `ChallengeResponse`, `StatusExporter`, `IdentityAudit`, `ShareSplit` | the components of the same names |
| `DemoReplay`, `DemoPackets`, `PacketCompression` | the demo file, its packets, the compression |
| `MCVoteReject` | the alliances of the small games TLC plays |
| `MCServices` | nine components side by side; they share no variable, so a behaviour runs one of them |
| `VoteRejectProofs`, `TakeClaimProofs`, `AlliedBuildQueueProofs` | the theorems about the modules they are named for |
| `SharingProofs` | the theorems about `ShareGuard` and `ShareSplit` |
| `IntegrityProofs` | the theorems about `IdentityAudit` and `ChallengeResponse` |
| `DemoProofs` | the theorems about `DemoReplay`, `DemoPackets` and `PacketCompression` |
| `ServicesProofs` | the theorems about `LagSwitchGuard` and `StatusExporter`, and about the nine components side by side |
| `DataLemmas` | facts about sets of numbers that these share: least and greatest elements, counting up to a bound |

Definitions named "Faulty variant" in a comment are not used by any specification; they are
plausible mistakes, kept beside the operator they replace to show that the properties notice them.
Every property of a passing run has one.

### VoteReject

State: `votes[c][t]` is `m_votes` of client `c` (`None` when absent), with the fields of
`VoteState`; `pending`, `cooldown` and `window` are the other three containers. `silent[c]` are
the peers `c` has not heard for the dropout timeout (the age of `LastMsgTimeStamp`), `gone[c]`
the players removed from its table. `net` holds packets in order, per link. `said` is history:
who has ever clicked YES on whom, in this ballot or an earlier one on the same target. `rejects` is history: the reject packets sent, with the reason.

Actions: `ProposeManual`, `ProposeDropout`, `CastLocalYesVote`, `CastLocalNoVote` each do all
that the function does, the broadcast and the check at its end (`CheckAndExecuteReject`)
included. `Deliver` handles a packet with `OnReceive`, whose check is queued in `pending`; `Tick`
runs the queued checks, the cancellations, the deadlines and, once per second, the check of every
ballot, in the order of the code. `NoteTakeInProgress` and `ExecuteRejectAfterTake` are the calls
of the take election, `PeerHeard`, `PeerSilent`, `PlayerRemoved` the engine.

A client outside `Local` sends any vote packet at any time, but none on itself, so a client in
`Local` is checked against more than the program's own behaviour. `OnReceive` would count a vote of
the target on itself; `GetActiveVotes` (`VoteReject.cpp:1076`) offers nobody such a vote, so no such packet is sent.

Abstractions:

- Durations are choices: at each `Tick` any set `late` of ballots may have reached its
  90 s, any set `lapsed` of windows its end. This allows more than the code does.
- A target's slot is a boolean: a later compaction of the player table is not seen.
- `MaxQueue` bounds the packets in flight on a link; a full queue disables the sender. `Lossy`
  lets packets vanish.

### TakeClaim

State: `election[c]` is `g_elections[target]` at `c`, with the fields of `Election`; `now[c]` its
`SimTick()`. `net` holds Claim and Complete packets, and `take`, which stands both for the chat
line of the `.take` and for dplayx's accept line, since both do the same at the receiver and the
accept line follows at once. `units`, `walking`, `walked` are dplayx's walk. `takers`, `completers`,
`noted`, `rejected` are histories of what each client has done.

Actions: `BeginClaim`, `OnClaim`, `OnComplete`, `OnTakeSeen`, and `GameTick`, which is all of
`ResolveElections`: the watch on the walk (`AfterDrain`), the reject (`AfterFinish`), the
retirement and the decision (`Decision`, `Decided`), one after the other within one step as in the code.
`Walk`, `Crash` and `LoseEligibility` are the surroundings.

Abstractions and assumptions:

- One target: elections on different targets share nothing but dplayx's `TakeStatus`; that one
  walk may make dplayx decline another is covered by `CanDecline`.
- Ticks are few, but keep the relations of the source (`SourceAssumption`): the skew tolerance
  is two windows, the backstop is as long as an entry is kept.
- `SettleAssumption`: the window is longer than a packet's way and than the lead of one clock over
  another. The code relies on it in its comments on `kSettleTicks` and enforces it nowhere: the
  lockstep of the engine does. `GraceAssumption` and `QuietAssumption` are the like for
  `kGraceTicks` and for the gap between two gives.
- A client that drops out loses, on each link, a suffix of what it had sent: links are ordered.
  The others know at once that it is gone (`ClaimantIsGone`).
- The reject that dplayx itself injects at the end of its walk is not in `rejected`.
- No code sends a Withdraw, so its branch in `OnClaimPacket` has no action.
- The branch of `Decision` for an executed entry whose window closes is kept though the
  model, like the code, never gets there.

### AlliedBuildQueue

State: at the owner `queue` (`g_current`), `sequence` (`g_sequence`) and the `Transmitter` `tx`; at
the viewer the `Receiver` `rx` and whether SHIFT is held; `data` and `control` are the packets in
flight, from which a packet may vanish, or be handled and stay (`repeated`). `issued` is history: the
snapshot each number stands for.

Actions: `Scan` is the collection of the queue with what `Update` makes of it (a Full, a Delta, or
nothing), `SendChunk` one packet, `OnInterest` the request with its acknowledgement, `OnData` all of
`Accept` and `Apply`; `LeaseLapses`, `Expire`, `OwnerForgets`, `ViewerForgets` are the timers and the
end of an alliance.

Abstractions: both directions between two allies are alike and independent, one is
modelled; a queue is a set, since `Canonicalize` sorts and removes duplicates; timers are choices;
the packet budget and the turns of the peers are left out. The numbers wrap at `Modulus`
(2^32 in the code, 16 in the runs, which start two below it). `WindowAssumption`: no
packet outlives half the numbers.

### ShareGuard

State: `windowLog` and `held` (`g_windowLog`, `g_delayedBlocks`), the engine's table `unitAt`, in
which `id` tells apart the units that have used a slot, the clock and the connected allies.
Actions: a share of any set of buildings to any ally, at once or held as a block; the game tick,
which hands over what is due; units built, captured and lost, slots recycled; an ally leaving; a new
game in the same process, in which `PruneWindow` finds that the clock went back. `RefusesTake` and
the hooks are left out.

### LagSwitchGuard

Every client runs `Frame`, once per unit of time: it dispatches what has arrived unless it is paused
or frozen without a leak due, and then runs `Tick` (detection, freeze, resume, leak). `Clock` moves
on when every client has rendered. `LinkFails`, `LinkReturns`, `PauseKey` and `PlayerLeaves` are
the surroundings. A client whose link is down hears nobody and is heard by nobody. `quiet` and
`still` are histories.

### ChallengeResponse

One verifier and one prover that run the same program on the same data, over several games of a
process. `Update` is the game tick of both (snapshot of the map, request, replies,
`VerifyResponses` up to its comparisons), `Judge` the rest of `VerifyResponses`, `OnRequest` and
`OnAnswer` the packets, `ProverHashes` and `VerifierHashes` the worker threads, the latter store by
store. With `Preempted` the worker may run between the comparisons and the look at the flags; without
it a passing of the worker cannot explain what is found. Hashes are values; a reply has one to its
modules and one to its data. A worker is done with a game before the next begins, and a unit
of time is longer than a packet's way.

### StatusExporter

The writer marks the sequence number odd, copies the arrays in any order and marks it even; the
heartbeat writes after `HeartbeatFrames` without a change; `Restart` is the constructor in a process
started anew, which finds the block of the last one. The reader is not in this repository: it is
what `tafgamestate.h` asks of one (wait for an even number, copy, compare). It loads the fields in
any order, at any time.

### IdentityAudit

One owner and one observer. `OwnerTick` and `ObserverTick` are `OnGameTick` at either, with
`RunAudit` and `BroadcastOwnDigest`; `OnDigest` is `HandleIdentityDigest`. The clocks run
independently, either may be ahead by any number of ticks, and either may be in the next game of the process
while the other is still in the last one. At an audit the owner's units are any of
`UnitBlocks`, and so is what the observer takes them for, which covers every way in which units change, are late
or stay wrong. `digests` is a set: they arrive in any order, one that is never taken is
lost, and those of the last game are still there in the next. No packet and no view says
which game it is of; the field `game` is history, as are `audits` (what each found) and `matched`
(the digests for which the observer had a view).

Assumed: a digest arrives once at most (`HAPI_BroadcastMessage`, on DirectPlay); digests differ when the units do;
the owner keeps its player slot and id over the games; and both name its slot alike (see Deviations).

### ShareSplit

A pulse for one resource: `SenderMayGive`, `Pool`, the receivers, `WaterFill` and the check
`PlanHolds` of the plan before the transfers. Amounts are whole numbers of a small part; what is
divided is rounded down, as the code does when it goes back to floats. The tests of a receiver other
than its room (in the game, alive, no spectator, allied both ways) are one set `ready`. Metal
and energy differ in `Divisor`. The code is compiled in by `SHARE_SPLIT_ENABLE`, which is 0 in the
default build.

### DemoReplay, DemoPackets, PacketCompression

- `DemoReplay`: a file is the sequence of its moves' lengths. `ScanMove` and `ScanEnd` are the loop
  of `TSaveFile.Create` with the marks it leaves, `SendMove` and `NoMove` a round of `DoTimer` with
  `GetMove` and the page it may load, `SetPos` the progress bar. Joining watchers and the pace are
  left out.
- `DemoPackets`: the packets of one player, from `SmartPak` through the file to `unsmartpak`, and
  what is held back after the bar was dragged. A packet is a sequence of parts, of which
  only what `SmartPak` looks at is told apart. That unit states are numbered without
  a gap is what the recorder relies on and what the engine is assumed to do.
- `PacketCompression`: `Compress` and `Decompress` byte for byte, the widths of the format
  being constants, on every packet up to `MaxBytes` bytes.

## Runs

The `.cfg` files give the constants. `FairSpec` adds fairness where liveness is checked.

| run | configuration | shows | bounds |
| --- | --- | --- | --- |
| `ballot` | `VoteRejectBallot` | `TypeOK`, `OneVoteEach`, `CooldownExcludesBallot`, `QuorumOfClicks`, `LiveAllyMustConsent`, `ExpiryOnlyIfGone`, `ImplementsLifecycle`, `SilentCarry`, `EveryBallotEnds` hold | one client, an arbitrary peer, a target that may vote on anyone but itself, an alliance between client and target; 87,168 states |
| `peers` | `VoteRejectPeers` | `NoPhantomYes`, `NoSelfTimeoutReject` hold with packets in flight and lost | two clients in detail, one the target, an arbitrary third; one packet per link; 411,060 states |
| `election` | `TakeClaimElection` | `OneTaker`, `SameWinner` hold | three claimants, one may drop out; claims at two ticks; clocks one tick apart; about 1.3 million states |
| `hand_over` | `TakeClaimHandOver` | `TypeOK`, `RejectFollowsComplete`, `NoPrematureComplete`, `ElectionsEnd` hold | two claimants, three units and one left over, gaps of two ticks, one dropping out, one losing eligibility; 213,764 states |
| `overlay` | `AlliedQueueOverlay` | `TypeOK`, `ShowsSnapshot`, `BasesAgree`, `ImplementsRegister` hold | three transactions, two data packets and one request in flight; 1,549,056 states |
| `recovers` | `AlliedQueueRecovers` | `Recovers` holds | three transactions, one data packet and one request in flight; 344,578 states |
| `services` | `MCServices`, `Services` | the properties of nine components hold | see below; 746,834 states |
| `crossing` | `VoteRejectCrossing` | `ProposalCarriesYes` fails | two clients |
| `waiting` | `TakeClaimWaiting` | `NoMutualWaiting` fails | two claimants, one losing eligibility |
| `declined` | `TakeClaimDeclined` | `NoPrematureComplete` fails | dplayx declines |
| `accusation` | `ChallengeAccusation` | `HonestPasses` fails | two games, two maps, no preemption |
| `skipped_move` | `DemoReplaySkipped` | `IndexIsGlobal` fails | six moves, pages of two units |

In `services`:

| component | properties | what they say |
| --- | --- | --- |
| all | `ServicesTypeOK` | the conjunction of the type invariants |
| share guard | `FreeAllowance`, `HeldSharesArrive`, `NoForeignGive`, `NoCarryOver` | in no window does more than the allowance go through undelayed; what is held arrives when due; no dead, foreign or recycled unit is handed over; nothing crosses from one game to the next |
| lag-switch guard | `FreezeNeedsSilence`, `FrozenStandsStill`, `Thaw` | freeze only on the silence of all; a frozen client runs a tick per interval at most; all thaw when the network is back |
| challenge | `NoFalseFailure`, `SilentOnlyIfLate` | an honest client is accused in two named cases only; "has not replied" only if the answer was late |
| exporter | `ReadsAreWhole` | a read that the lock accepts is one state of the table |
| audit | `DesyncIsReal` | while a desync is reported, the last audits that could be compared, as many as the alarm asks for, are different ones, compared with views of this game, and true disagreements (but for digests of another game) |
| demo | `ReadsWithinPage`, `LosesAtMostOne`, `RebuildsPacket`, `EventsAfterResync` | no read past page or file; in order, none twice, one move missing at most; packets come back as they were; no event before every unit's state after a drag |
| compression | `RoundTrip` | what is received is what was sent |
| split | `FairSplit` | the plan is the fairest: the least full receive, all the same, up to their room |

Why the bounds are enough for what the runs ask:

- *Ballots.* With three humans the quorum of a manual ballot is two of two eligible and one of
  one; a peer falling silent moves between them, so both branches of `VotesNeeded`, both roundings
  and the consent of an ally occur. A ballot on one target never touches another one's, so one
  target does. One packet per link is enough for proposals to cross and for a vote to arrive after
  the ballot's end.
- *Election.* Three claimants are the fewest among whom a winner can drop out and leave two who
  must still agree. Two ticks at which claims are made, a skew and a delay of one give every
  order of arrival, ties included. `MaxTick` lies beyond the latest end of the grace time.
- *Hand-over.* The largest gap is one less than `QuietTicks`; the walk, with its gaps, can be
  shorter and longer than the backstop. The clocks stop at `MaxTick`, hence
  `CHECK_DEADLOCK FALSE`; the last claim is early enough that every election can end before.
- *Overlay.* Three transactions are enough for a Delta on a Delta on a Full; the queue of three
  records needs two packets, so chunks of two transactions interleave; starting two below
  the modulus, the second transaction wraps and must skip 0.
- *Share guard.* Two slots and three units, so that a slot is used again; two games; a window of two
  ticks and an allowance of one, so that it is reached, passed and left.
- *Lag switch.* Two clients are the fewest who can wait for each other; a pause, a failing link
  and a leaving player meet a threshold of two.
- *Challenge.* Two games on two maps, with a restart of either client between.
- *Exporter.* Two fields and two values tell a torn read; the sequence goes far enough for a heartbeat and
  two writes within one read, and for a restart that begins again at 0.
- *Audit.* Audits every two ticks, a ring of two views, an alarm after two: the owner makes three audits
  in the first game and one in the second, the observer three and two. A view is overwritten, an alarm is
  raised, kept and ended, and a digest of the first game meets a view of the second.
- *Demo.* Six moves of length one or two on pages of two units give up to six pages and every way a
  boundary falls. Four packets of five shapes and two units go through more than one
  round of the units. Packets of up to twelve bytes are longer than two groups of chunks, the
  longest reference and the reach.
- *Split.* Three receivers, as many as `MaxReceivers`, and five holdings: nothing, little, some
  room, plenty, and a full pool.

All but the ballots and the overlay come to rest at a bound (a clock, a number of games or
packets), hence `CHECK_DEADLOCK FALSE` there.

## Fairness

- `FairSpec` of `VoteReject`: weak fairness of the once-per-second pass of `Tick` at every client.
  `Tick` is called from the render loop, which runs as long as the game. `DeadlinesPass`, the
  premise of `EveryBallotEnds`, says that a deadline, once set, passes: it is the clock.
- `FairSpec` of `TakeClaim`: weak fairness of `Progress`: the game loop, the delivery of packets
  (bounded by `MaxDelay`) and the walk. Nobody has to claim, drop out or become ineligible.
- `FairSpec` of `AlliedBuildQueue`: weak fairness of the owner's scan and chunk and of the viewer's
  request, all called from the game loop on a timer; strong fairness of deliveries: a network may
  lose a packet any number of times, but not for ever what is sent again and again. Nobody has to hold
  SHIFT: `Recovers` has that, and quiet timers, as its premise (`Settles`).
- `LagFairSpec`, taken over by `MCSpec`: weak fairness of the clock and of every client's frame.

`ElectionsEnd` has a premise: takers stay and nobody loses eligibility. Without the second it is
the run `waiting`; without the first, a taker that vanishes after its `.take` leaves executed
entries without a Complete, which the comment at `TakeClaim.cpp:457-458` accepts.

## Proofs

`VoteRejectProofs`, for any sets of clients, bots and targets, any alliances, lossy links or
not, any bound on the queues:

- `TypeInvariant`: `TypeOK` is inductive as it stands.
- `OneVoteEachHolds`, `NoPhantomYesHolds`, `NoSelfTimeoutRejectHolds`, from `IInv`, the conjunction of
  `TypeOK`; `OneVoteEach`; `NoPhantomYes`; `InFlightSaid` (every packet in flight that stands for a
  YES was sent by somebody who clicked: without it a delivery could add a phantom);
  `NoSelfTimeoutBallot` (no client holds a timeout ballot on itself, so there is none to carry or
  expire); and `SlotKnown` (a ballot without a slot has a target that is gone).
- `QuorumOfClicksHolds`, `LiveAllyMustConsentHolds`, `ExpiryOnlyIfGoneHolds`: action properties. The
  lemma `StepRejects` says of each step which rejects it adds and what ballot they come from; the
  invariant turns counted votes into clicks; `NeededIsEnough` does the arithmetic of the quorum.
- `CooldownExcludesBallotHolds`: by `StepCools`, only a step that removes the ballot starts a cooldown.
- `ImplementsLifecycleHolds`: the seat of any client at any target, mapped to the state of
  `BallotLifecycle`, only makes moves of it. The invariant is `LifeInv` = `IInv`;
  `CooldownExcludesBallot`; `ClosedIsTimeout` (voting is closed on timeout ballots only). By the
  lemma `LifeSteps` each step moves every seat by one abstract action or not at all. A tick that
  finds a ballot lost ends it as `Fail`; that it does not do so to a ballot just opened is
  `FreshVerdict`: the proposer itself is still there to vote.

`TakeClaimProofs`, for any number of clients, delays, clocks, drop-outs and declines:

- `TypeInvariant`: `TypeOK` is inductive. The step that needs an argument is the one that excludes a
  winner: that it is a client at all rests on `SomeClaimBeats`, that of any set of claims one comes
  before all others, which is the well-ordering of the naturals used twice, on ticks and on dpids.
- `RejectFollowsCompleteHolds`. The invariant says that as long as no Complete was announced
  none is in flight and no entry of any client has a tick to reject at; the property alone is not
  inductive, since the reject comes from such a tick, set earlier.

The same module, for any number of clients and any claims, delays, clock skews and refusals
that the assumptions allow, as long as nobody drops out (`alive = Client`) and the claims are made
before an entry can be erased (`OneRound`):

- `OneTakerHolds`, `SameWinnerHolds`, from `RoundInv`, the conjunction of: `ClocksInv` and
  `PacketsInv` (clocks differ by at most `MaxSkew`; a packet is heard before its receiver's clock has
  passed its stamp by a window); `WindowInv` (a window closes `SettleTicks` after a claim that is
  recorded); `SpreadInv` (every claim somebody knows is known to each client, is on its way to
  it, or cannot matter to it: the client has stood down, or holds a better claim and has closed its window);
  `ElectedInv` (who has closed a window knows a claim that comes before all others, made or yet to be
  made); `ExcludedInv` (a client passes on nobody but itself, and only when it may no longer take);
  `TakersInv` (a taker's claim is the elected one, and has spread). The step that matters is
  `ClosingElects`: whoever closes its window has heard of every claim stamped up to the winner's.
- `NoPrematureCompleteHolds`, if dplayx accepts every '.take' as well. By `DrainInv` the taker's last count is
  no lower than what is left, and equal only if nothing was handed over since; the taker goes on walking, since the only
  '.take' that could abort it is that of another taker.

With drop-outs, for any number of clients dropping out at any time, each with the last packets it sent on each
link, as long as the claims of the round are made before any window can close and no clock is ahead of another by more
than the grace time (`Prompt`, which the run `election` satisfies):

- `OneTakerDespiteDropOuts`, `SameWinnerDespiteDropOuts`, from `DropInv`, the conjunction of `ClocksInv` and `PacketsInv`;
  `OriginInv` (a client makes one claim, and has recorded it itself); `ReachInv` (the claim of somebody still in
  the game is with each of the others, on its way there, or too late to matter; of the claims of those who dropped out
  nothing of the kind can be said); `OpenInv` (no window closes before a recorded claim's is over, and nobody is
  passed on before the grace time is over too); `PassInv` (of those still in the game a client passes on nobody
  but itself, when its claim comes first); `TakeInv` (a taker's claim comes before those of all others in the game,
  and reaches them). `SpreadInv` above is not invariant here: a claim may have reached one ally and been lost to the other.
  The step that matters is `WinningIsForemost`: a claim that a winner has not heard of is stamped later
  than its own, or would have had to be made after the last.
- `NoPrematureCompleteDespiteADropOut`, if dplayx accepts every '.take', one client at most may drop out, and claims are
  made in time for a '.take' to arrive before the grace time is over (`OneMayDrop`; the run `hand_over` satisfies all
  of it). The invariant is `HandInv`: `DropInv`; `CloseInv` (a window closes at the first tick it may); `NewsInv` (a
  '.take' does not overtake the claim it follows from); `Unrivalled` (no '.take' of another is on its way to a taker); `DrainInv`.
  By `NoLateTake` the '.take' of a taker that dropped out has arrived before somebody else takes.

The conditions are needed. With claims made later, two clients that wait for one that dropped out pass on it within
the delay of a claim, and both take; with two drop-outs, the '.take' of the second arrives at the third after it has
begun to take and aborts its walk (see Deviations for both).

`OneRound` is needed. Once an entry is erased, another election may begin while the taker of the first has not
announced its Complete; with clocks more than half a window apart its window closes before that
Complete arrives, and there are two takers (see Deviations).

`AlliedBuildQueueProofs`, for any queues, packet size, even modulus and number of transactions
below its half, any number of packets in flight:

- `TypeInvariant`, `ShowsSnapshotHolds`, `BasesAgreeHolds`, from `IInv` = `TypeOK`; `FiniteInv`
  (the transaction under way and the history are finite sets); `SequenceInv` (the numbers issued lie within `Steps` of
  `Start`, the skipped 0 counted, and of two of them the one farther away has the later turn); `ContentInv` (what a packet,
  a pending transaction, a base or an acknowledgement says of a number agrees with what was issued
  under it). None of the properties is inductive alone: what a viewer shows after a Delta
  depends on the packets that were in flight when the base was acknowledged.
- `ImplementsRegisterHolds`: every step is a `Publish`, a `Show`, a `Clear` or a stutter of
  `SnapshotRegister`. That a `Show` never goes back rests on `NewerIsLater`: within half the
  numbers, the comparison of 32-bit numbers orders transactions as they were issued, across the wrap.

`SharingProofs`, of the share guard, for any slots, players, window and allowance, over any number of games:
`ShareTypeInvariant`; `FreeAllowanceHolds` from `ClockInv` (from the first tick of a game on, the guard knows
its time and holds blocks of this game only; before it, what is left of the last game is dropped)
and `WindowInv` (whatever went through at once within the window is in the log); `NoForeignGiveHolds`,
`NoCarryOverHolds`, `HeldSharesArriveHolds`, which need `DelayInv` (blocks are held in the order in which they
are due, no longer than a window).

`ServicesProofs`, of the lag-switch guard, for any set of clients and times: `LagTypeInvariant`; `FreezeNeedsSilenceHolds`
from `SilenceIsTracked` (a client tracks of nobody a longer silence than there has been) and
`FrozenInSilence`; `FrozenStandsStillHolds` from `LeakIsRemembered` (a frozen client knows when its last
tick ran; one that is not has heard somebody since, so that the next freeze is an interval away).

Of the status exporter, for any number of fields and values, stored and loaded in any order, and
any number of writes: `ExporterTypeInvariant`; `ReadsAreWholeHolds` from `WriterInv` (the number in memory is odd
during a write, and the fields stored are those of the write under way), `StableInv` (an even
number says what is in memory) and `ReaderInv` (while the number that a reader began with
stands, what it has read is what was written under it). The read that a restart overlaps is excepted:
the numbers of the new process begin again.

`DemoProofs`, of the pages, for a file of any length, any lengths of moves and any size of a page:
`DemoTypeInvariant`; `ReadsWithinPageHolds` and `LosesAtMostOneHolds` from `ScanInv` and `MarksInv` (the
marks increase, each but the first is one record behind its offset, and the last is the last record), `PageInv` (the
page in memory is what lies between two marks) and `PlayedInv` (what was sent comes before what the
index will serve next). The lemmas `LeastNumber`, `LoadedFacts`, `PageOfFacts` and
`Covered` say which page serves an index and which record it finds there.

Of the packets, for packets of any shape and number and any number of units: `PacketsTypeInvariant`;
`RebuildsPacketHolds` and `EventsAfterResyncHolds` from `PacketsInv`: `ReplayInv`, and that there are
serials `from` (the one the recorder was at before each packet) by which each recorded packet is the
original with its serials left out (`RecordedBy`), and after a drag of the bar the player's next
serial is known, or the first serial that is found puts it right (`SyncedBy`). Both properties are
about what was sent; that it is right rests on the serials the recorder had, of which nothing
in the state is left, hence the quantifier.

Of the compression, for packets of any length and every width of its format:
`CompressionTypeInvariant`, `RoundTripHolds`. Each round of `Compress` writes one item, and the items
cover the bytes one after the other; the items are put in groups of eight (`GroupedAt`); a reference
names bytes that lie before it, as many as were found equal, and no more than its
fields can hold; so each round of `Decompress` appends the bytes of one item (`CompressedAndBack`).

`SharingProofs`, of the split, for any number of receivers with any storage, stock and needs:
`SplitTypeInvariant` (no storage is filled beyond its size, nobody gives what it has not);
`FairSplitHolds`, for every split there is, not only for those with a pool of this size. A finite
function adds up to the same in any order (`TotalUnfold`, `AnyOrder`), which the code relies on when
it goes over the receivers from the least full on (`LeastFullFacts`). A round of `WaterFill` either caps
those whose room is below an equal share, and then the share of the rest is no lower (`Pouring`), or
caps nobody and is the last (`Settled`). A give is dust exactly if the pool is too small for
so many receivers, which says that the loop that drops the fullest one stops at the right number.

`IntegrityProofs`, of the audit, for any period, history of views and streak, any clocks of the two, any
order and loss of digests and any number of games: `AuditTypeInvariant`; `DesyncIsRealHolds` from `AuditInv`:
`FreshInv` and `ViewsInv` (a clock that has seen less than two ticks has made no audit, so what
`TimeWentBack` misses at the start of a game is nothing, and from the first tick on the views are of this game), `OwnInv` and
`DigestsInv` (a digest that is not of a game gone by says what the owner found, and there is one of an
audit), `MatchedInv` (none is matched twice) and `StreakInv` (the digests last matched, as many
as the streak counts, were compared with views of this game and are true disagreements). The alarm's own property is
not inductive: it says nothing of the streak below the alarm, nor of what is on the way.

Of challenge and response, for any maps, delays, games and restarts: `ChallengeTypeInvariant`;
`NoFalseFailureHolds` and `SilentOnlyIfLateHolds` from `ChallengeInv`: `GameInv` (from the question on the record is of
this game), `RepliesInv` and `AnswersInv` (so are the replies queued and under way, although those of earlier
games are still in the queue), `WorkerInv` (the worker has stored what it says it has), `ComparedInv` (what was
compared is the record as it is, unless the worker was at it then), `DeliveryInv` (the
question has arrived, and what was answered arrives) and `VerdictsInv` (no verdict before the time for replies is over).

`ServicesProofs`, of the run `services`: `SideBySide`, that a behaviour of `MCSpec` is one of each of
the nine specifications, so that each theorem above holds in it, and with it `ServicesTypeInvariant`.
It needs `ServicesAssumption` (the variants that the run starts from are not none).

The proofs use the named assumptions of the modules, which TLC evaluates in the runs. They are
about the same definitions that TLC checks. The library's induction theorems take an operator as a
parameter and are not used. What a loop of the code computes, a recursive function in the model, is shown
from `LeastNumber` instead: were there a round that the claim fails for, there would be a first one,
and its predecessor keeps the claim (`UpTo` in `DataLemmas`). That such a function exists is shown in the same way.

Every safety property of a passing run is a theorem. Only model-checked is liveness, which is out of the prover's reach:
`SilentCarry`, `EveryBallotEnds`, `ElectionsEnd`, `Recovers`, `Thaw`.

## Findings

Each is a run that states what a comment of the source says, and fails:

1. `crossing`: of two manual proposals that cross, each client drops the other's, and with it the
   YES it implies (`VoteReject.cpp:361`, against `:414`).
2. `waiting`: a winner that may no longer take passes on at its own client only; two claimants
   wait for each other (`TakeClaim.cpp:580`, against the comment there).
3. `declined`: a `.take` that dplayx declines looks like a walk that is over; everybody rejects a
   player with its whole base (`TakeClaim.cpp:564`, against `:45-46`).
4. `accusation`: the snapshot of the map is taken once per process; in its second game a client
   reports one that was started again in between (`ChallengeResponse.cpp:188`, against `:180`). This
   is one explanation of the false positives that the comment at `:733-734` speaks of.
5. `skipped_move`: from the second page of a demo on, every index serves the next record, and
   the one at the first boundary is never sent (`../Server/savefile.pas:468`, against `:69`).

## Deviations

Statements of the source that its code does not keep, without a run of their own. Each is defined
at the end of its module; to see it fail, put it in a copy of the configuration named here.

| statement | module, configuration | what happens |
| --- | --- | --- |
| `FailsOnlyIfHopeless` (`INVARIANT`) | `VoteReject`, `VoteRejectCrossing` with `Local = {ally}` and `Droppable = {peer}` | the NO of a voter who dropped out counts against the smaller number of those who can vote now, and fails a ballot that could be won (`VoteReject.cpp:642`, against `:644`) |
| `HeldForTheTaker` (`PROPERTY`) | `VoteReject`, `VoteRejectBallot` | a ballot whose take is in progress is still executed by its threshold or its deadline (`VoteReject.cpp:633`, `:804`, against `TakeClaim.cpp:869-871`) |
| `CompleteRejectsHere` (`INVARIANT`) | `TakeClaim`, `TakeClaimHandOver` | a walk that runs into the backstop erases the taker's entry before the tick at which it rejects the target (`TakeClaim.cpp:533`, against `:519-521`) |
| `OneTaker` (`INVARIANT`) beyond one round | `TakeClaim`, `TakeClaimHandOver` with `CanCrash` and `CanRefuse` empty, `Units = 1`, `SettleTicks = GraceTicks = 3`, `TickSkewTolerance = 6`, `MaxDelay = MaxSkew = 2`, `ElectionKeepTicks = CompleteBackstop = 4`, `QuietTicks = 9`, `MaxGap = 8`, `MaxClaims = 2`, `LastClaim = 9`, `MaxTick = 14` | an entry lives as long as the taker's backstop (`TakeClaim.cpp:43`, `:56`): a client whose clock is behind erases its own before the taker's Complete reaches it, and wins a second election. With the windows of the code (45 ticks) it takes clocks 23 ticks apart, and a claim made just after the erasure |
| `OneTaker` (`INVARIANT`) with late claims and a drop-out | `TakeClaim`, `TakeClaimElection` with `SettleTicks = 2`, `TickSkewTolerance = 4`, `ElectionKeepTicks = CompleteBackstop = 8`, `LastClaim = 5`, `MaxTick = 7` | the winner drops out before its `.take`; two allies who wait for it claim within a packet's delay of each other, just before the grace time ends. Each passes on the winner with a window that is over at once (`e.closeTick = now`, `TakeClaim.cpp:600`), has heard of its own claim only, and takes (against `TakeClaim.h:22-23`: "an election over broadcast claims, resolved by a rule every client evaluates identically") |
| `NoPrematureComplete` (`PROPERTY`) with two drop-outs | `TakeClaim`, `TakeClaimElection` with `CanCrash = {1, 2}`, `SettleTicks = 2`, `TickSkewTolerance = 4`, `QuietTicks = 2`, `MaxGap = 1`, `Units = 1`, `MaxTick = 10` (some minutes) | one ally claims and drops out, and its claim reaches a second ally only. That one passes on it when the grace time is over, takes, and drops out too; a third, whose own grace time for the second ends at that moment, passes on it and takes. The second's `.take` arrives then and aborts the third's walk, which looks like one that is over (`TakeClaim.cpp:597`, against `:45-46`) |
| `SurvivesAudits` (`INVARIANT`), in `IdentityAudit` | `MCServices`, `Services` | a digest is lost, or comes too late, of an audit at which the two agreed: the streak goes on across it, and the audits that the alarm counts are not consecutive (`UnitIdentity.cpp:576-585`, which looks at no audit time, against `:122-125`, `:167` and the log text at `:603`) |
| `OneGameOnly` (`INVARIANT`), in `IdentityAudit` | `MCServices`, `Services` | a digest of the last game arrives when the observer has made the audit of the same time in the next one: it is compared with that view and counts towards an alarm of the new game (`UnitIdentity.cpp:564`: the packet names no game; against the reset for a "new game in the same process" at `:659-666`) |
| `ShiftShowsQueue` (`PROPERTY`) | `AlliedBuildQueue`, `AlliedQueueRecovers` | the lease lapses, or SHIFT is let go, while a transaction is on its way: the owner drops it, the viewer completes it, and its acknowledgement is ignored. When SHIFT is held again and the queue is what was acknowledged before, the owner believes its viewer current and sends nothing until the queue changes (`AlliedBuildQueueSync.cpp:179`, `:222`, against `tdraw.txt:1040-1041`, `:1057-1058`). `Overtaken` names that state, and `Recovers` says it is the only way. The overlay is disabled in every build for now (`tdraw.txt:153`) |

A comment that was overtaken: `UnitIdentity.cpp:119` speaks of "4 x 900 ticks", about two minutes of tolerance
for delay and drift. With `kAuditPeriodTicks` at 150 (`:110`) four views reach back 600 ticks, 20 seconds; a
digest that is later finds no view and is ignored.

Four passing properties carry an exception that the code makes necessary:
`EventsAfterResync` (a player whose first packet after a drag of the bar holds no unit state is not
resynchronised), `FrozenStandsStill` (a client whose thaw was followed at once by a departure
leaks a second tick), `NoFalseFailure` (the worker's last store comes between the
comparisons of `VerifyResponses` and its look at the flags), and `DesyncIsReal` (`SurvivesAudits` and `OneGameOnly`
above: an audit that could not be compared is skipped, and a digest of another game is taken for one
of this game). `IdentityAudit` assumes that the clients name the owner's slot
alike; `UnitIdentity.cpp:557` indexes by the slot of the sender, and `tafgamestate.h:8-9` says that the order of
`Players[]` differs from client to client.

## Not modelled, and why

- The text of messages, dialogs, HUD lines, logging.
- `VoteReject`: the debug pipe's entry points (`InjectReceive`, `ResetAllVotes`, `ExpireVote`), the
  durations, the compaction of player slots. `CancelTimeoutVote` has no caller.
- `TakeClaim`: parsing of commands and names, `.give` grants and the commander flag.
- `AlliedBuildQueue`: format checks, the packet budget, the turns of the peers. `ShareGuard`: the refusal
  of some uses of `.take`. `ShareSplit`: self-test and installation of the patch.
- The recorder's DirectPlay interface, its rewriting of packets in play, start votes and plugins; the
  replay server's joining of watchers and pace.
- The engine and DirectPlay: only what the modelled components see of them. This is why most of the
  source has no model: `oddraw.h`, `TABugFix.cpp`, `unitrotate.cpp`, `tahook.cpp`, `tamem.h`,
  `hook/etc.cpp`, `EngineLimits.cpp` and the like hold layouts of engine structures, addresses, and patches of a few
  instructions inside a binary that is not in the repository. What such a patch does is what the
  engine around it does; a model of it would be a model of unknown code.
- `UnitMinimap.cpp`, `ddraw.cpp`, `MinimapHandler.cpp`, `whiteboard.cpp`, `UnicodeSupport.cpp`,
  `GuiExpand.cpp`: drawing and input, in one thread, without protocol state.
- The launcher, the installers, the analysis and patch tools: stand-alone programs of forms and
  buttons. Third-party code.

## What is left

1. `Rejection`: `VoteReject` and `TakeClaim` composed over the two calls that join them. Each
   module already allows any behaviour of the other at that interface.
2. The commands of one client on the engine's records (`GiveCommands.cpp`, `AutoTeam.cpp`,
   `SharePercent.cpp`), start votes of the recorder (`../Recorder/Voting.pas`).

No module declares a `RECURSIVE` operator: a loop is a recursive function over the number of its
rounds. Functions over sequences come from the community modules.
