----------------------------- MODULE MCOKDevice -----------------------------
(* okcounterd and okbfloader with one board.                                *)
EXTENDS OKDevice
=============================================================================
