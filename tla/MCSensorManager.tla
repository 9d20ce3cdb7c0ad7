--------------------------- MODULE MCSensorManager ---------------------------
(***************************************************************************)
(* Instances of SensorManager for TLC.  Two goroutines let a policy be     *)
(* added again while another goroutine deletes the old one or still loads  *)
(* it; two collections let it be added over a failed one, or next to a     *)
(* sensor; two sensors let loading fail half way; four requests let a      *)
(* policy that was disabled be enabled while it is deleted.  Both keys are *)
(* cluster-wide: the policy may be treated as a sensor.                    *)
(***************************************************************************)
EXTENDS SensorManager
=============================================================================
