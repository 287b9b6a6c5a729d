SPECIFICATION FairSpec
CONSTANTS
    w1 = w1
    w2 = w2
    NoWorker = NoWorker
    Workers = {w1, w2}
    NFibers = 9
    NTags = 6
    Tags <- JoinedTags
    Covers <- PairCovered
    PageSize = 4
    PostingLimit = 2
    Num = 1
    Den = 3
    MinSize = 2
    MaxDepth = 3
    NSynapses = 1
    i1 = i1
    i2 = i2
    i3 = i3
    i4 = i4
    SnapshotIds = {i1, i2, i3, i4}
    Touched = {4}
    MaxChanges = 1
    MaxFailures = 1
    MaxFaults = 1
INVARIANTS
    TypeOK
    PlanRowsAgree
    GroupsAreComponents
    SummaryOnce
    NoPartialSummary
    DueGroupsOnly
PROPERTIES
    EndsUnlessHindered
