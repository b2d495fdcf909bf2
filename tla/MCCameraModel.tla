---------------------------- MODULE MCCameraModel ----------------------------
(* CameraModel on small instances. *)
EXTENDS CameraModel, TLC

CONSTANTS m1, m2, m3, r1, r2
=============================================================================
