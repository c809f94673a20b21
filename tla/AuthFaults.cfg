SPECIFICATION Spec
CONSTANTS
    alice = alice
    bob = bob
    t1 = t1
    t2 = t2
    t3 = t3
    t4 = t4
    r1 = r1
    r2 = r2
    Users = {bob}
    Tokens = {t1, t2}
    Procs = {r1, r2}
    NoUser = NoUser
    NoToken = NoToken
    Faults = {"abort", "redis"}
SYMMETRY Symmetric
CHECK_DEADLOCK FALSE
INVARIANTS TypeOK HandedAreAudited LogoutEndsBoth
PROPERTIES ImplementsLedger RevokedMintsNothing DisabledUsersMintNothing
