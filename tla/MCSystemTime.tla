---------------------------- MODULE MCSystemTime ----------------------------
(***************************************************************************)
(* Two slots, a counter of five ticks, so that some deadlines wrap, and a  *)
(* time of two ticks: the interrupt overtakes timerRun when the main loop  *)
(* is held up while it stores the deadline.                                *)
(***************************************************************************)
EXTENDS SystemTime
=============================================================================
