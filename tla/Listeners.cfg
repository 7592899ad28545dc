CONSTANTS
    Listener = {a, b, t}
    Tcp = {t}
    Inodes = {i1, i2, i3}
    MaxMeddling = 2
SPECIFICATION ListenSpec
INVARIANTS
    LeftoverHasACause
PROPERTY OnlyOwnSocketRemoved
SYMMETRY Symmetry
CHECK_DEADLOCK FALSE
