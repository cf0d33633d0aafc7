------------------------------ MODULE MCWsBridge ------------------------------
(* Model values and symmetry for the runs of WsBridge.                     *)
EXTENDS WsBridge, TLC

CONSTANTS plain, cb, noUri   \* configurations: local broker, CloudBridge, empty

\* Users, sessions and connections are interchangeable in the safety runs.
Symmetry == Permutations(Conns) \cup Permutations(Sessions)
===============================================================================
