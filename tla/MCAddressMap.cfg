CONSTANTS
    Word = 2
    Address = {a1, a2, a3}
    None = none
SPECIFICATION Spec
SYMMETRY Symmetry
INVARIANTS TypeOK BackwardSound ForwardSound
