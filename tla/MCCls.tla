-------------------------------- MODULE MCCls --------------------------------
(* Three logs in a topic whose logs become searchable within two ticks.      *)
EXTENDS ClsSource

CONSTANTS l1, l2, l3
MCLogs == {l1, l2, l3}
=============================================================================
