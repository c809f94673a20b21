SPECIFICATION FairSpec
CONSTANTS
    alice = alice
    bob = bob
    r1 = r1
    r2 = r2
    Users = {alice, bob}
    ReadAll = {bob}
    Editors = {bob}
    Global = Global
    Nobody = Nobody
    Kinds = {"summary", "categories", "trends"}
    NoKey = NoKey
    NoEntry = NoEntry
    Procs = {r1, r2}
    Settings <- RunSettings
INVARIANTS
    TypeOK
    EntriesFollowWrites
    OnlyOverlapLeavesStale
    NoWriteMissed
PROPERTIES
    EventuallyFresh
    ImplementsScopedCache
