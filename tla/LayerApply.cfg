CONSTANTS
    a = a  b = b  a_b = a_b
    Names = {a, b, a_b}
    Slashed <- MCSlashed
    Up = Up
    Empty = Empty
    Contents = {c1, c2}
    Links = {l1, l2}
    MaxDepth = 2
    MaxEntries = 4
    Absent = Absent
    Dir = Dir
SPECIFICATION Spec
SYMMETRY MCSymmetry
INVARIANTS
    TypeOK
    SymlinksAreRecorded
    TreeIsClosed
    ImageIsOCI
