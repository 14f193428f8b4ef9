CONSTANTS
    Id = {id1}
    Single = {}
    Object = {o1, o2, o3}
    Null = null
    MaxBirths = 2
    Careful = FALSE
SPECIFICATION Spec
INVARIANTS Unregistered
