-------------------------- MODULE MCDashboardCache --------------------------
(* Instances of DashboardCache for TLC.                                    *)
EXTENDS DashboardCache, TLC

CONSTANTS alice, bob, r1, r2

Overlapping == [faults |-> {}, atOnce |-> 2, kinds |-> {"summary"}, writes |-> 2,
                renames |-> 0]
Renamed     == [faults |-> {}, atOnce |-> 2, kinds |-> {"categories"}, writes |-> 0,
                renames |-> 2]
Faulty      == [faults |-> {"redis", "crash"}, atOnce |-> 2, kinds |-> {"trends"},
                writes |-> 1, renames |-> 0]
OneAtATime  == [faults |-> {"crash"}, atOnce |-> 1, kinds |-> {"summary", "categories"},
                writes |-> 2, renames |-> 1]

RunSettings == {Overlapping, Renamed, Faulty, OneAtATime}
=============================================================================
