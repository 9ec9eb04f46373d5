CONSTANTS
    Unroll = 2
    Tile = 2
    Panel = 3
    AmxTile = 2
    MtRows = 4
    MtFlops = 30
    AmxFlops = 40
    FewTiles = 2
    SomeTiles = 3
    ManyTiles = 4
    JobsWanted = 2
    Sizes <- MCSizes
    Depths = {1, 3, 4, 6}
    Threads = {1, 3}
    Layers = 2
    MaxSeq = 3
    Vocab = 2
    MaxEpochs = 2
    Lanes = 2
    Bits = 3
    MaxText = 5
    TrieRoom = 16
    Letters = {"a", "b", "_"}
    RankedVocabs <- MCVocabs
    RankedPieces <- MCPieces
    Unranked = 1000
    ScoredPieces <- MCScores
    ScoredTexts <- MCTexts
    NormRoom = 6
    SymbolRoom = 5
    PairRoom = 12
    ResultRoom = 4
    IdRooms = {2, 9}
SPECIFICATION InferenceSpec
INVARIANTS
    ProductRight
    KernelsRight
    TokensHaveTheirPast
    TextKept
    TokensRight
PROPERTIES
    MergesByRank
    MergesInOrder
CHECK_DEADLOCK FALSE
