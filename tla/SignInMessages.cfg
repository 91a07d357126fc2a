\* Two tabs and a hidden frame ask for five logins, with room for two.
SPECIFICATION Spec
CONSTANTS
    Tabs = {t1, t2, f}
    Frames = {f}
    None = None
    Threshold = 2
    MaxMessages = 5
SYMMETRY SymmetricTabs
CHECK_DEADLOCK FALSE
INVARIANTS
    TypeOK
    JarBounded
    OwnLogin
    RefusedWithReason
PROPERTIES
    KeepsPending
