SPECIFICATION FairSpec
CONSTANTS
    Version = {v1, v2}
    Installer = {i1}
    Profile = {}
    Main = Main
    None = None
    MaxInstalls = 2
PROPERTY DeletionEnds
