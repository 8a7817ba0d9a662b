---------------------------- MODULE MCThemeSync ----------------------------
(* Instances of ThemeSync for TLC.                                         *)
EXTENDS ThemeSync

CONSTANTS p1, p2, p3
=============================================================================
