SPECIFICATION Spec
CONSTANT Profile = {p1, p2}
SYMMETRY Symmetry
INVARIANTS TypeOK SlotsAreAccounted LockedWhileItRuns
PROPERTY OneTreePerProfile
