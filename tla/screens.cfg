SPECIFICATION ScreensSpec
CONSTANTS
    bun = bun
    rye = rye
    milk = milk
    bakery = bakery
    dairy = dairy
    order1 = order1
    order2 = order2
    c1 = c1
    c2 = c2
    Products = {bun, milk}
    StoreOf <- MCStoreOf
    OptionsOf <- MCOptionsOf
    Plain = Plain
    Amount <- MCAmount
    Past <- MCPast
    MaxQty = 2
    MaxOrders = 2
    MaxFaults = 1
    NoProduct = NoProduct
    Users = {u1, u2}
    Nobody = Nobody
    Goods = {g1}
    MaxAsked = 2
    MaxMishaps = 1
    Mine = {order1, order2}
    Begin = {"ASSEMBLING"}
    Pages = {{order1, order2}}
    Pushed = {order1}
    OthersWrite = {"ASSEMBLED", "CANCELLED"}
    MaxRows = 3
    MaxMoves = 2
    MaxTrouble = 1
    Nothing = Nothing
    Tree <- MCTree
    ChildrenOf <- MCChildren
    NoNode = NoNode
    Target = rye
    Texts = {x}
    NoText = NoText
    Sorts = {Default}
    Default = Default
    Count <- MCCount
    PageSize = 1
    MaxAsks = 3
    MaxLosses = 1
    Ours = {r1, r2}
    Theirs = {r3}
    Admin = TRUE
    MaxGlitches = 1
    Stores = {c1, c2}
    TypeOf <- MCTypeOf
    Goals = {rye}
    Words = {w1, w2}
    Showcases = {k1, k2}
    Recipes = {d1}
    None = None
    MaxFlights = 2
    MaxFlops = 1
    Crowded = {"banners"}
    MaxUpsets = 1
    Readers = {q1, q2}
    Writers = {z1, z2}
    MaxListVersion = 2
    NoCopy = NoCopy
    Calls = {a1, a2}
    MaxCodes = 2
    MaxTries = 2
    MaxBreaks = 1
INVARIANTS
    ScreensTypeOK
    OneStore
    ExactCart
    ActsAsShown
    FavoritesAreMine
    CancelWorks
    NoFalseCancel
    RightOrderShown
    ExactList
    ReviewsExact
    OneStoreAtATime
    OpensAsAsked
    ResultsMatch
    ListsCatchUp
    OneRowPerForm
    NothingForStrangers
    CachedIsCurrent
    SignUpSucceeds
CHECK_DEADLOCK FALSE
