CONSTANTS
    Node = {n1, n2, n3}
    Handle = {h1, h2}
    Iter = {}
    Key = {k1}
    Value = {v1}
    Zero = zero
    Null = null
    Empty = empty
    MaxLost = 1
    AliasRoots = FALSE
SPECIFICATION Spec
SYMMETRY Symmetry
INVARIANTS NoDangling Reclaimed
PROPERTIES ImplementsStore
