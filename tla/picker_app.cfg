SPECIFICATION PickerFairSpec
CONSTANTS
    o1 = o1
    here = here
    there = there
    me = me
    stranger = stranger
    colleague = colleague
    NoPicker = NoPicker
    Orders = {o1}
    StoreOf <- MCStoreOf
    MaxLogins = 2
    StoreAt <- MCStoreAt
    Pickers = {me, stranger, colleague}
    PickerAt <- MCPickerAt
    First <- MCFirst
    OthersWrite = {"ACCEPTED_BY_PICKER", "CANCELLED"}
    MaxVersions = 2
    MaxFaults = 1
    NoData = NoData
    NoOrder = NoOrder
INVARIANTS
    PickerTypeOK
    SuccessIsShown
    FreshButtonsWork
PROPERTIES
    NoOldTokenReturns
    ScreenCatchesUp
CHECK_DEADLOCK FALSE
