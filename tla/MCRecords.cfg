SPECIFICATION Spec
CONSTANTS
    Profile = {p1, p2}
    Account = {a1, a2}
    Factor = {f1}
    Code = {c1, c2}
    Page = {g1}
    Name = {n1, n2}
    Label = {l1}
    Note = {x1, x2}
    Kind = {"hotp", "external"}
    Version = {v1}
    Preset = {github}
    Custom = custom
    CustomName = l0
    Time = {t1, t2}
    MaxI64 = 1
    Position = {0, 1}
    None = None
    MaxRows = 3
SYMMETRY Symmetry
INVARIANTS
    TypeOK
    StoreIsWhole
PROPERTIES
    EditsKeepPasswords
    ImplementsBook
