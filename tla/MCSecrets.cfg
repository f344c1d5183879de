SPECIFICATION Spec
CONSTANTS
    Profile = {p1}
    Account = {a1, a2}
    Factor = {f1}
    Code = {c1, c2}
    Page = {g1}
    NoRow = NoRow
    MaxCounter = 1
    MaxBatch = 2
    MaxPosition = 2
SYMMETRY Symmetry
CONSTRAINT FewReferences
INVARIANTS TypeOK StoresAgree NewPositionsAreFree
PROPERTIES RefDroppedOnlyAfterPurge HotpNeverRepeats
