--------------------------- MODULE MCAccessRights ---------------------------
(* Instances of AccessRights for TLC.  A viewer reads records; a custom     *)
(* role may change them too.                                                *)
EXTENDS AccessRights, TLC

CONSTANTS viewer, custom, read, update, c1, c2, m1, m2, u1, t1

RunSeed == (viewer :> {read}) @@ (custom :> {read, update})

(* The clock runs while users log in and out.                               *)
Timed == [callers |-> {c1, c2}, managers |-> {}, users |-> {u1}, tokens |-> {t1},
          changes |-> 0, horizon |-> 2]

(* The clock runs on after a user was disabled.                             *)
Disabled == [callers |-> {c1}, managers |-> {}, users |-> {u1}, tokens |-> {t1},
             changes |-> 1, horizon |-> 3]

(* Rights change while a token is issued and used.                          *)
Changing == [callers |-> {c1}, managers |-> {}, users |-> {u1}, tokens |-> {t1},
             changes |-> 3, horizon |-> 0]

(* So do the permissions of a role.                                         *)
Granting == [callers |-> {c1}, managers |-> {m1}, users |-> {u1}, tokens |-> {t1},
             changes |-> 1, horizon |-> 0]

(* Two administrators manage the same roles.                                *)
Managing == [callers |-> {}, managers |-> {m1, m2}, users |-> {}, tokens |-> {},
             changes |-> 3, horizon |-> 0]

RunSettings == {Timed, Disabled, Changing, Granting, Managing}
ViewerSettings == {[callers |-> {c1}, managers |-> {}, users |-> {u1}, tokens |-> {t1},
                    changes |-> 0, horizon |-> 0]}
=============================================================================
