---------------------------- MODULE MCAutoTuner ----------------------------
(* AutoTuner with three configurations on two workers: enough for a worker  *)
(* to start after another has finished, and for any completion order.        *)
EXTENDS AutoTuner
============================================================================
