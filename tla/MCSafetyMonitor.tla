---------------------------- MODULE MCSafetyMonitor ----------------------------
(* SafetyMonitor for TLC: persons are interchangeable. *)
EXTENDS SafetyMonitor, TLC

AnyPerson == Permutations(Persons)
================================================================================
