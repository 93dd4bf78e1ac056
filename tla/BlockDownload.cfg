SPECIFICATION Spec
CONSTANTS
    N = 2
    Blocks <- MCBlocks
    Genesis = 0
    Parent <- MCParent
    Height <- MCHeight
    Bad = {4}
    TipOf <- MCTipOf
    Slow = {1}
    Outbound = {1, 2}
    WhitelistedRange = {1}
    Recent = {1, 2, 3, 4}
    Today = {2, 3, 4}
    BLOCK_DOWNLOAD_WINDOW = 2
    MAX_BLOCKS_IN_TRANSIT_PER_PEER = 2
    MAX_HEADERS_RESULTS = 2
    MaxAnnouncements = 1
    NoPeer = NoPeer
    NoBlock = NoBlock
INVARIANTS InFlightExact TimersExact OnlySendersPunished
PROPERTIES CatchesUp
