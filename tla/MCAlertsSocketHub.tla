--------------------------- MODULE MCAlertsSocketHub ---------------------------
(* AlertsSocketHub for TLC: chains are interchangeable, and handles are. *)
EXTENDS AlertsSocketHub, TLC

Symmetry == Permutations(Chains) \cup Permutations(Handles)

================================================================================
