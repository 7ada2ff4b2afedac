SPECIFICATION Spec
CONSTANTS
    s1 = s1
    s2 = s2
    t1 = t1
    v1 = v1
    v2 = v2
    None = None
    Sends = {s1, s2}
    TopUps = {t1}
    Legacy = {s1, t1}
    InTokens = {t1}
    Accounts = {v1, v2}
    MaxFailed = 2
SYMMETRY Symmetry
INVARIANTS NeverThrows PairedWithOwn ToldOnce ViewedIsOneSend
CHECK_DEADLOCK FALSE
