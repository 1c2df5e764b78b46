CONSTANTS
    Boxes = {s1, s2, b1, b2, b3, b4, b5, b6, b7}
    SysBoxes = {s1, s2}
    NoBox = NoBox
    SysEnd = 4
    WrapTo = 2
    MaxNormal = 8
    MaxMail = 1
SPECIFICATION IdSpec
SYMMETRY Alike
INVARIANTS RegistrySound EarlyKept
CHECK_DEADLOCK FALSE
