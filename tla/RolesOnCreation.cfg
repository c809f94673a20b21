SPECIFICATION Spec
CONSTANTS
    u1 = u1
    u2 = u2
    viewer = viewer
    ra = ra
    rb = rb
    r1 = r1
    r2 = r2
    r3 = r3
    Users = {u1}
    Roles = {viewer, ra}
    System = {viewer}
    Viewer = viewer
    Procs = {r1}
    None = None
SYMMETRY Symmetric
INVARIANTS CreatedWithRoles
