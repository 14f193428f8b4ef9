CONSTANTS
    Id = {id1, id2}
    Single = {"addressMap", "forbiddenList"}
    Object = {o1, o2, o3}
    Null = null
    MaxBirths = 2
    Careful = TRUE
    Key = {k1, k2}
    Pair = {p1, p2}
    Addr = {a1, a2}
SPECIFICATION MetadataSpec
SYMMETRY Symmetry
INVARIANTS TypeOK MetadataTypeOK LoadIsSaved MetadataIsSaved ForbiddenRespected
