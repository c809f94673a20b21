SPECIFICATION Spec
CONSTANTS
    i1 = i1
    i2 = i2
    i3 = i3
    admin = admin
    food = food
    r1 = r1
    r2 = r2
    Tables = {"users", "roles", "categories"}
    Ids = {i1, i2, i3}
    MaxRows <- RowLimits
    Words = {Blank, admin, food}
    Blank = Blank
    Builtin = {admin}
    Asked <- AskedNames
    Procs = {r1, r2}
    NoName = NoName
    NoId = NoId
SYMMETRY Symmetric
INVARIANTS TypeOK SharedNamesNeedRace FoldedNamesUnique
PROPERTIES IndexRefusesNeedsCause BuiltinKept
