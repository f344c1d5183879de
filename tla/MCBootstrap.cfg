SPECIFICATION FairSpec
INVARIANTS
    TypeOK
    OnePerSpelling
    OnlyFailedWaitsLeak
    AppliedOnce
PROPERTIES
    NoLockout
CONSTANTS
    c1 = c1  c2 = c2  c3 = c3  t1 = t1  t2 = t2  p = p  q = q
    Call = {c1, c2, c3}
    Thread = {t1, t2}
    Process = {p, q}
    Spelling = {"Apps", "apps"}
    thread_of <- MCThreadOf
    process_of <- MCProcessOf
    Latest = 1
    MaxLeaks = 1
    Nobody = Nobody
