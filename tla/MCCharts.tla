------------------------------ MODULE MCCharts ------------------------------
(* Charts for TLC. Colours, uids and measurements are never compared with     *)
(* anything but themselves; FreshFor may choose any injection into the uids   *)
(* that are free, all of which are images of one another under Symmetry.      *)
EXTENDS Charts, TLC
Symmetry == Permutations(Colors) \cup Permutations(Ids) \cup Permutations(Measurements)
=============================================================================
