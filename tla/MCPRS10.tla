------------------------------ MODULE MCPRS10 ------------------------------
(***************************************************************************)
(* Three magnetic offsets; the changes lead from one to the next, out of   *)
(* the range, and to the root of a negative number.                        *)
(***************************************************************************)
EXTENDS PRS10

const_SF == -1 .. 1
const_Steers == {-20, -7, 7}
=============================================================================
