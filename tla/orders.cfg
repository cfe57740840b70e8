SPECIFICATION Spec
CONSTANTS
    o1 = o1
    here = here
    Orders = {o1}
    Guests = {}
    Pickers = {p, q}
    Stores = {here, there}
    StoreOf <- MCStoreOf
    Requests = {r1, r2}
    AdminTargets = {"NEW"}
    Customer = Customer
    NoPicker = NoPicker
    NoOrder = NoOrder
    Absent = Absent
    Unhired = Unhired
    Deleted = Deleted
INVARIANTS
    TypeOK
    ClaimsExclusive
    NoDanglingPicker
    NoStageSkipped
    WorkIsClaimed
    ClaimsFromOwnStore
PROPERTY KeepsContract
SYMMETRY Interchangeable
CHECK_DEADLOCK FALSE
