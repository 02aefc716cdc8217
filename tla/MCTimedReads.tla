---------------------------- MODULE MCTimedReads ----------------------------
(***************************************************************************)
(* TimedReads for TLC: a counter of eight ticks, which wraps during the    *)
(* calls, a buffer of two bytes, which overflows, and three calls, so that *)
(* a read follows a flush that follows a read that timed out.              *)
(***************************************************************************)
EXTENDS TimedReads
=============================================================================
