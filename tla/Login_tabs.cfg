SPECIFICATION FairSpec
CONSTANTS
    t1 = t1
    t2 = t2
    b1 = b1
    b2 = b2
    Tab = {t1, t2}
    Browser = {b1, b2}
    Homes <- TogetherOrApart
    NoTab = NoTab
    None = None
    Keep = Keep
    StateLimit = 3
    SessionLimit = 2
VIEW Held
CHECK_DEADLOCK FALSE
INVARIANTS
    TypeOK
    OwnLogin
    StateSpent
PROPERTY
    ImplementsSignIn
    LoneLoginCompletes
