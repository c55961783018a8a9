SPECIFICATION FairSpec
CONSTANTS
    b1 = b1  b2 = b2  a1 = a1
    q1 = q1  q2 = q2
    c1 = c1
    f1 = f1  f2 = f2  f3 = f3
    Browsers = {b1, b2}
    Addresses = {a1}
    AddressOf <- OneAddress
    Chain <- OtpChain
    Kinds = {"view", "submit", "fetch", "form"}
    Slots = {q1, q2}
    Codes = {c1}
    Rows = {f1, f2, f3}
    MaxFailures = 1
    Lockout = 2
    Expiry = 0
    Wrong = Wrong
    None = None
INVARIANTS
    TypeOK
    FailureBound
    CodeForOne
    AuthEarned
PROPERTIES
    LockoutEnds
CHECK_DEADLOCK FALSE
