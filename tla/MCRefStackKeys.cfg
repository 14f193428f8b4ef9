CONSTANTS
    Node = {n1, n2}
    Handle = {h1, h2}
    Iter = {}
    Key = {k1, k2}
    Value = {v1}
    Zero = zero
    Null = null
    Empty = empty
    MaxLost = 0
    AliasRoots = FALSE
SPECIFICATION FairSpec
INVARIANTS RefCountExact Reclaimed
PROPERTIES ImplementsStore CallsReturn
