\* Two tabs of a browser and a phone, two calls at once, one change of password.
SPECIFICATION Spec
CONSTANTS
    Sids = {s1, s2}
    Tabs = {tab1, tab2}
    Phones = {phone}
    Browser = browser
    Calls = {r1, r2}
    MaxTokens = 3
    MaxPasswords = 1
    None = None
SYMMETRY AnyOne
CONSTRAINT FewFaults
INVARIANTS
    TypeOK
    SessionsFollowPassword
    StoredTokenIsCurrent
PROPERTIES
    EndedStaysEnded
CHECK_DEADLOCK FALSE
