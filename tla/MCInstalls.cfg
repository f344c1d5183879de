SPECIFICATION Spec
CONSTANTS
    Version = {v1, v2}
    Installer = {i1, i2}
    Profile = {p1}
    Main = Main
    None = None
    MaxInstalls = 2
SYMMETRY Symmetry
INVARIANTS TypeOK CurrentIsInstalled VersionInUseIsKept
PROPERTIES InstalledIsUntouched VersionAppearsWhole
