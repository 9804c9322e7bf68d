---------------------------- MODULE MCVoteReject ----------------------------
\* Small games for TLC: ally is allied with the victim wherever anybody is.
EXTENDS VoteReject

CONSTANTS ally, peer, victim

MCAllies == [p \in Player |-> CASE p = ally -> {victim} [] p = victim -> {ally} [] OTHER -> {}]
MCNoAllies == [p \in Player |-> {}]
=============================================================================
