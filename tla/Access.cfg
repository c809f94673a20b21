CONSTANTS
    viewer = viewer
    custom = custom
    read = read
    update = update
    c1 = c1
    c2 = c2
    m1 = m1
    m2 = m2
    t1 = t1
    u1 = u1
    Roles = {viewer, custom}
    Perms = {read, update}
    Managers = {m1, m2}
    NoRole = NoRole
    NoPerm = NoPerm
    System = {viewer}
    Seed <- RunSeed
    Users = {u1}
    Tokens = {t1}
    Callers = {c1, c2}
    NoUser = NoUser
    NoToken = NoToken
    Lifetime = 1
    Parts = 2
    Viewer = viewer
    ReadOthers = read
    Settings <- RunSettings
SPECIFICATION FairSpec
INVARIANTS
    TypeOK
    AuditMatchesTable
PROPERTIES
    LoggedOutStaysOut
    FreshTokens
    OthersNeedActiveRole
    DisabledWithinLifetime
    ManagersEnd
CHECK_DEADLOCK FALSE
