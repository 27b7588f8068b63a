--------------------------- MODULE MCXEMRegisters ---------------------------
(* Two of the six channels; one of the PPS sources.  One channel    *)
(* takes two readings, so that a reading can be torn, the other one.       *)
EXTENDS XEMRegisters

OneSource == {3}
Measurements == <<2, 1>>
=============================================================================
