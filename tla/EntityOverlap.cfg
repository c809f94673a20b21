SPECIFICATION Spec
CONSTANTS
    r1 = r1
    r2 = r2
    r3 = r3
    x = x
    y = y
    Tables = {"users", "roles", "categories", "records"}
    Procs = {r1, r2}
    Data = {x, y}
    Keep = Keep
    NotDeleted = NotDeleted
    Unlocked = Unlocked
SYMMETRY Symmetric
INVARIANTS TypeOK StatusFlagAgrees
PROPERTIES RevertsOnlyBetweenSelects
