CONSTANTS
    Position = {p1, p2}
    None = none
    MaxLength = 4
    Throws = TRUE
SPECIFICATION FairSpec
INVARIANTS TypeOK
PROPERTIES ImplementsFifo ConfirmTruthful ConfirmReturns
