---- MODULE MCCaptureRun ----
(* Instance of CaptureRun for TLC. *)
EXTENDS CaptureRun, TLC

CONSTANTS worker, runner, live
=====
