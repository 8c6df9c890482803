---------------------------- MODULE MCCameraWorker ----------------------------
(* One person over a long stretch of time: short cooldowns that differ, and a *)
(* clock that outruns each of them at least once.  (CameraWorkerProofs proves *)
(* the safety properties for every set of persons.)                           *)
EXTENDS CameraWorker

\* The clock at process start: past every red cooldown.
LateBoot == {RedCooldown}
================================================================================
