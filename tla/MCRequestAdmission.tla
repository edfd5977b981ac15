------------------------- MODULE MCRequestAdmission -------------------------
(* A small instance of RequestAdmission for TLC.                           *)
EXTENDS RequestAdmission, TLC

CONSTANTS h1, h2, h3

Symmetry == Permutations({h1, h2, h3})
=============================================================================
