SPECIFICATION StoreListSpec
CONSTANTS
    c1 = c1
    Tree <- MCTree
    ChildrenOf <- MCChildren
    NoNode = NoNode
    Target = NoNode
    Texts = {x}
    NoText = NoText
    Sorts = {Default}
    Default = Default
    Count <- MCCount
    PageSize = 1
    MaxAsks = 3
    MaxLosses = 0
INVARIANT MoreIsReachable
CHECK_DEADLOCK FALSE
