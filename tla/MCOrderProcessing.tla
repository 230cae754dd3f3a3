-------------------------- MODULE MCOrderProcessing --------------------------
(***************************************************************************)
(* A small heap for TLC: two lists of three places and one device more     *)
(* than a list holds, so that lists fill up and drop their last device.    *)
(***************************************************************************)
EXTENDS OrderProcessing

MCItems == 0..3
=============================================================================
