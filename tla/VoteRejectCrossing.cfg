CONSTANTS
    ally = ally
    peer = peer
    victim = victim
    None = None
    Client = {ally, peer, victim}
    Local = {ally, peer}
    Bot = {}
    Droppable = {}
    Target = {victim}
    Lossy = FALSE
    Allies <- MCNoAllies
    MaxQueue = 1
SPECIFICATION Spec
INVARIANT ProposalCarriesYes
