------------------------------ MODULE MCUILoop ------------------------------
(***************************************************************************)
(* Model values and symmetry for checking UILoop.                           *)
(***************************************************************************)
EXTENDS UILoop, TLC

Symmetry == Permutations(Apps)

=============================================================================
