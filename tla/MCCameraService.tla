--------------------------- MODULE MCCameraService ---------------------------
(* One worker fewer than cameras may run; two requests in flight, so that any *)
(* two of the operations overlap; one process object more than may live.      *)
EXTENDS CameraService, TLC

Symmetry == Permutations(Cameras) \cup Permutations(Pids) \cup Permutations(Requests)
================================================================================
