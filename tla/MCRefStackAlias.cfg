CONSTANTS
    Node = {n1, n2}
    Handle = {h1, h2}
    Iter = {i1}
    Key = {k1}
    Value = {v1}
    Zero = zero
    Null = null
    Empty = empty
    MaxLost = 0
    AliasRoots = TRUE
SPECIFICATION Spec
PROPERTIES IteratorKeepsNode
