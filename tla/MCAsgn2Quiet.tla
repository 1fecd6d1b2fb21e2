---------------------------- MODULE MCAsgn2Quiet ----------------------------
(* The instance of asgn2_quiet is one that the theorems about the quiet    *)
(* driver speak of.                                                        *)
EXTENDS MCAsgn2

ASSUME QuietAssumption == QuietDriver
=============================================================================
