-------------------------- MODULE MCTemplateStore --------------------------
(* The browsers and the requests are interchangeable.                        *)
EXTENDS TemplateStore, TLC

Symmetry == Permutations(Editors) \cup Permutations(Slots)
=============================================================================
