CONSTANTS
    Word = 4
    Tables <- MCTables
    Right <- MCRight
    Callers <- MCCallers
    Tops <- MCTops
    Hosts <- MCHosts
    Global = {g1, g2}
    MaxDepth = 2
    None = none
SPECIFICATION Spec
SYMMETRY Symmetry
INVARIANTS TypeOK SavedRestores StackOfOneCall TypedByOneTable PrintersInBounds SlotsCounted StepsToNeighbour
PROPERTIES PcReplacedWhole TypingKeepsImage
