---------------------------- MODULE MCLCDMonitor ----------------------------
(***************************************************************************)
(* A configuration file as people write them: the section in two pieces, a *)
(* token twice, the same token in another section, and one token missing.  *)
(***************************************************************************)
EXTENDS LCDMonitor

I == Token("lcd intensity", 2)
T == Token("lcd timeout", 1)

const_Files == { << Section("ui"), T, Other, Section("network"), I, Section("ui"), I, I >> }
=============================================================================
