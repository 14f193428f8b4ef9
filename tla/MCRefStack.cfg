CONSTANTS
    Node = {n1, n2, n3}
    Handle = {h1, h2}
    Iter = {i1}
    Key = {k1}
    Value = {v1, v2}
    Zero = zero
    Null = null
    Empty = empty
    MaxLost = 0
    AliasRoots = FALSE
SPECIFICATION Spec
SYMMETRY Symmetry
INVARIANTS TypeOK RefCountExact NoDangling Reclaimed
PROPERTIES ImplementsStore
