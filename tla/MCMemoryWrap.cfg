CONSTANTS
    Zero = zero
    None = none
    Value = {zero, a}
    ChunksPerPage = 2
    MaxPages = 2
    SizeLimit = 4
    V1 = 101
    V2 = 102
SPECIFICATION Spec
PROPERTY RestoreComplete
