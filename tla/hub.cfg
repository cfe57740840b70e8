SPECIFICATION FairSpec
CONSTANTS
    store = store
    user = user
    picker = picker
    colleague = colleague
    p1 = p1
    p2 = p2
    q1 = q1
    u1 = u1
    m1 = m1
    m2 = m2
    m3 = m3
    Topics = {store, user}
    Subs = {picker, colleague, user}
    Streams = {p1, p2, q1}
    Msgs = {m1, m2, m3}
    Cap = 1
    NoStream = NoStream
    KeyOf <- MCKeyOf
    TopicOf <- MCTopicOf
INVARIANTS
    TypeOK
    RegistryHoldsOpen
    OpenIsRegistered
    OnTopicOnce
    NothingLeftBehind
PROPERTY SupersededStreamsEnd
CHECK_DEADLOCK FALSE
