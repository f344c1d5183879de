SPECIFICATION Spec
CONSTANTS
    Password = {p1, p2}
    Payload = {empty, full}
    EmptyPayload = empty
    Header = {h1, h2, h3, h4, h5}
SYMMETRY Symmetry
INVARIANT TypeOK
INVARIANT FileStaysOpenable
PROPERTY BackedUpBeforeReplaced
PROPERTY ImplementsAtomicVault
