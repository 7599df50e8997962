-------------------------------- MODULE MCCos --------------------------------
(* Three keys, listed two at a time: max_objects is reached inside the first *)
(* page (1), at its end (2), or not at all (9).                              *)
EXTENDS CosSource

MCKeys == 1..4
=============================================================================
