-------------------------------- MODULE MCCmq --------------------------------
(* Two messages, with and without acknowledge, and a rulebook that takes one *)
(* event at a time.                                                          *)
EXTENDS CmqSource

CONSTANTS m1, m2
MCMessages == {m1, m2}
=============================================================================
