CONSTANTS
    ally = ally
    peer = peer
    victim = victim
    None = None
    Client = {ally, peer, victim}
    Local = {ally}
    Bot = {}
    Droppable = {peer, victim}
    Target = {victim}
    Lossy = FALSE
    Allies <- MCAllies
    MaxQueue = 1
SPECIFICATION FairSpec
INVARIANT TypeOK
INVARIANT OneVoteEach
INVARIANT CooldownExcludesBallot
PROPERTY QuorumOfClicks
PROPERTY LiveAllyMustConsent
PROPERTY ExpiryOnlyIfGone
PROPERTY ImplementsLifecycle
PROPERTY SilentCarry
PROPERTY EveryBallotEnds
