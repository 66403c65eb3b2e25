SPECIFICATION Spec
CONSTANTS
    SnRange = 16
    Windows = {2, 3}
    Pool = {n1, n2, n3, n4, n5, n6, n7}
    Buf = buf
    Que = que
    Null = null
    MaxAge = 4
    MaxNumber = 20
SYMMETRY Alike
INVARIANTS
    WellLinked
    BufSorted
PROPERTIES
    InOrder
