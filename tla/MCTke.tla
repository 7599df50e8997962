-------------------------------- MODULE MCTke --------------------------------
(* Two clusters that run or are abnormal, with one node or two.             *)
EXTENDS TkeSource

CONSTANTS c1, c2, running, abnormal
MCClusters == {c1, c2}
MCSignatures == {running, abnormal}
=============================================================================
