SPECIFICATION Spec
CONSTANTS
    o1 = o1
    line = line
    extra = extra
    other = other
    Orders = {o1}
    Items = {line, extra, other}
    Ordered <- MCOrdered
    Worth <- MCWorth
    FeePercent = 15
    DeliveryFee = 200
    ExpressFee = 100
    Express = {o1}
    Requests = {r1, r2}
    NoOrder = NoOrder
    NoItem = NoItem
INVARIANTS
    TypeOK
    BilledWhatWasThere
    TotalsBelongTogether
    ExactUnlessOvertaken
