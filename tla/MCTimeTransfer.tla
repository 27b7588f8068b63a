-------------------------- MODULE MCTimeTransfer ----------------------------
(***************************************************************************)
(* A day of 12 seconds with two CGGTTS tracks of 6, sampled every 2 or     *)
(* fitted in batches of 3; GPS time is 2 seconds ahead.  Only tracks that  *)
(* start up to second 6 are asked for.                                     *)
(***************************************************************************)
EXTENDS TimeTransfer

const_Shifts == {-2, -1, 0, 2}
=============================================================================
