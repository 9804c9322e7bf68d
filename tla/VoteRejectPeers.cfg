CONSTANTS
    ally = ally
    peer = peer
    victim = victim
    None = None
    Client = {ally, peer, victim}
    Local = {ally, victim}
    Bot = {}
    Droppable = {}
    Target = {victim}
    Lossy = TRUE
    Allies <- MCNoAllies
    MaxQueue = 1
SPECIFICATION Spec
INVARIANT NoPhantomYes
INVARIANT NoSelfTimeoutReject
