----------------------------- MODULE MCAdmission -----------------------------
(* Three processes: one that holds the device, one that sleeps and one that *)
(* arrives in between.                                                      *)
EXTENDS Admission

CONSTANTS p1, p2, p3

MCProcs == {p1, p2, p3}
MCIoctlArgs == {-1, 0, 1, 2}
=============================================================================
