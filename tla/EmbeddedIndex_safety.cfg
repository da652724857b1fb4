CONSTANTS
    Files = {f1, f2}
    Embedders = {small, swap, large}
    small = small
    swap = swap
    large = large
    DimOf <- MCDimOf
    Legacy = small
    NoRow = NoRow
    Zero = Zero
    NoMeta = NoMeta
    NoStats = NoStats
    MayInterrupt = TRUE
    MaxTotal = 3
    RowUids = {"u1", "u2"}
    Bodies = {"b1", "b2"}
    GivenKinds = {"Method", "Attachment"}
    Embeddings = {"x", "y"}
    Users = {"ann", "bob"}
    TeamUids = {"t1", "t2"}
    Threshold = 2
    MaxRows = 2
SPECIFICATION IndexSpec
INVARIANTS OneVectorSpace EmbeddingRunFits FullRunHeals StrictIsSound
INVARIANTS CallsFindTheirFunction DslFollowsWalks
INVARIANTS RowsSurvive QueryIsRead QueriesAgree
PROPERTIES IncrementalKeepsOthers
