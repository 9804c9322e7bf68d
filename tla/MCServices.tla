----------------------------- MODULE MCServices -----------------------------
(***************************************************************************)
(* The components that share no state with each other, checked side by     *)
(* side: each behaviour runs one of them and leaves the others as they     *)
(* start.                                                                  *)
(***************************************************************************)
EXTENDS ShareGuard, LagSwitchGuard, ChallengeResponse, StatusExporter, IdentityAudit,
        DemoReplay, DemoPackets, PacketCompression, ShareSplit

VARIABLE component       \* the one that runs

vars == <<component, shareVars, lagVars, challengeVars, exporterVars, auditVars,
          demoVars, packetsVars, compressionVars, splitVars>>

\* A packet of one unit, of none, of several, with and without other parts.
MCShapes ==
    { <<"unit">>, <<"event">>, <<"event", "unit">>, <<"dropped", "unit">>,
      <<"idle", "event", "unit">> }

\* What a player may have: nothing, little, some room left, or plenty.
MCHoldings ==
    { [stock |-> 0, max |-> 0], [stock |-> 2, max |-> 6], [stock |-> 4, max |-> 7],
      [stock |-> 1, max |-> 12], [stock |-> 17, max |-> 20] }

\* All may go, what is above 5, all whatever the stock.
MCThresholds == {0, 5, -100}

\* Three audits in the first game, and fewer in the next: how many ticks each plays.
MCAuditTicks ==
    [owner    |-> [g \in 0 .. MaxAuditGame |-> IF g = 0 THEN 7 ELSE 3],
     observer |-> [g \in 0 .. MaxAuditGame |-> IF g = 0 THEN 6 ELSE 4]]

\* A player has something, and a setting.
ASSUME ServicesAssumption == Holdings # {} /\ Thresholds # {}

Components ==
    {"share", "lag", "challenge", "exporter", "audit", "replay", "packets", "compression",
     "split"}

MCInit ==
    /\ component \in Components
    /\ ShareInit /\ LagInit /\ ExporterInit /\ AuditInit /\ PacketsInit
    /\ ChallengeInit /\ (component = "challenge" \/ map = CHOOSE m \in Maps : TRUE)
    /\ DemoInit /\ (component = "replay" \/ demo = <<>>)
    /\ CompressionInit /\ (component = "compression" \/ sentPacket = <<>>)
    /\ IF component = "split" THEN SplitInit
       ELSE SplitInitWith([i \in SplitSlots |-> CHOOSE h \in Holdings : TRUE],
                          CHOOSE t \in Thresholds : TRUE, {})

ShareStep ==
    /\ component = "share" /\ ShareNext
    /\ UNCHANGED <<component, lagVars, challengeVars, exporterVars, auditVars, demoVars,
                   packetsVars, compressionVars, splitVars>>

BesidesLag ==
    <<component, shareVars, challengeVars, exporterVars, auditVars, demoVars, packetsVars,
      compressionVars, splitVars>>

LagStep == component = "lag" /\ LagNext /\ UNCHANGED BesidesLag

ChallengeStep ==
    /\ component = "challenge" /\ ChallengeNext
    /\ UNCHANGED <<component, shareVars, lagVars, exporterVars, auditVars, demoVars,
                   packetsVars, compressionVars, splitVars>>

ExporterStep ==
    /\ component = "exporter" /\ ExporterNext
    /\ UNCHANGED <<component, shareVars, lagVars, challengeVars, auditVars, demoVars,
                   packetsVars, compressionVars, splitVars>>

AuditStep ==
    /\ component = "audit" /\ AuditNext
    /\ UNCHANGED <<component, shareVars, lagVars, challengeVars, exporterVars, demoVars,
                   packetsVars, compressionVars, splitVars>>

DemoStep ==
    /\ component = "replay" /\ DemoNext
    /\ UNCHANGED <<component, shareVars, lagVars, challengeVars, exporterVars, auditVars,
                   packetsVars, compressionVars, splitVars>>

PacketsStep ==
    /\ component = "packets" /\ PacketsNext
    /\ UNCHANGED <<component, shareVars, lagVars, challengeVars, exporterVars, auditVars,
                   demoVars, compressionVars, splitVars>>

CompressionStep ==
    /\ component = "compression" /\ CompressionNext
    /\ UNCHANGED <<component, shareVars, lagVars, challengeVars, exporterVars, auditVars,
                   demoVars, packetsVars, splitVars>>

SplitStep ==
    /\ component = "split" /\ SplitNext
    /\ UNCHANGED <<component, shareVars, lagVars, challengeVars, exporterVars, auditVars,
                   demoVars, packetsVars, compressionVars>>

MCNext ==
    \/ ShareStep \/ LagStep \/ ChallengeStep \/ ExporterStep \/ AuditStep
    \/ DemoStep \/ PacketsStep \/ CompressionStep \/ SplitStep

\* The fairness of LagFairSpec.
MCSpec ==
    /\ MCInit /\ [][MCNext]_vars
    /\ WF_vars(component = "lag" /\ Clock /\ UNCHANGED BesidesLag)
    /\ \A c \in Clients : WF_vars(component = "lag" /\ Frame(c) /\ UNCHANGED BesidesLag)

-----------------------------------------------------------------------------
\* Every component's variables keep their types.
ServicesTypeOK ==
    /\ ShareTypeOK /\ LagTypeOK /\ ChallengeTypeOK /\ ExporterTypeOK /\ AuditTypeOK
    /\ DemoTypeOK /\ PacketsTypeOK /\ CompressionTypeOK /\ SplitTypeOK
=============================================================================
