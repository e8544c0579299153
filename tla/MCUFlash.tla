------------------------------ MODULE MCUFlash ------------------------------
(* UFlash on a small clock: every wait at least one clock, all different   *)
(* enough that a wait taken for another shows.                             *)
EXTENDS UFlash

MCLane == 0 .. 2
MCClks ==
  [ERASE2 |-> 2, ERASE3 |-> 5, ERASE4 |-> 2, ERASE5 |-> 3,
   WRITE2 |-> 2, WRITE3 |-> 3, WRITE4 |-> 4, WRITE6 |-> 2, WRITE7 |-> 3]

=============================================================================
