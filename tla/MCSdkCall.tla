------------------------------ MODULE MCSdkCall ------------------------------
(* Instances of SdkCall for TLC.  A call that has exited has no next step,   *)
(* so the runs do not check deadlock.                                        *)
EXTENDS SdkCall

=============================================================================
