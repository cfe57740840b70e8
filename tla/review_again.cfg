SPECIFICATION ReviewsSpec
CONSTANTS
    Ours = {r1, r2}
    Theirs = {r3}
    Admin = FALSE
    MaxGlitches = 0
INVARIANT OneReviewEach
CHECK_DEADLOCK FALSE
