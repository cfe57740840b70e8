SPECIFICATION Spec
CONSTANTS
    o1 = o1
    here = here
    Orders = {o1}
    Guests = {}
    Pickers = {p, q}
    Stores = {here, there}
    StoreOf <- MCStoreOf
    Requests = {r1, r2}
    AdminTargets = {"NEW"}
    Customer = Customer
    NoPicker = NoPicker
    NoOrder = NoOrder
    Absent = Absent
    Unhired = Unhired
    Deleted = Deleted
INVARIANT FinalIsFinal
SYMMETRY Interchangeable
CHECK_DEADLOCK FALSE
