SPECIFICATION MyOrdersSpec
CONSTANTS
    Mine = {order1}
    Begin = {"NEW"}
    Pages = {{order1}}
    Pushed = {order1}
    OthersWrite = {"CANCELLED"}
    MaxRows = 2
    MaxMoves = 1
    MaxTrouble = 1
    Nothing = Nothing
INVARIANT PushOpensTheOrder
CHECK_DEADLOCK FALSE
