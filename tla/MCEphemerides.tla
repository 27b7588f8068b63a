--------------------------- MODULE MCEphemerides ----------------------------
(***************************************************************************)
(* The ephemerides of a Saturday (hours 162 to 168 of week 0, 168 standing *)
(* for its last seconds, which in GPS time are in the next week) and of a  *)
(* Sunday (hours 168 to 170).                                              *)
(***************************************************************************)
EXTENDS Navigation

CONSTANTS g1, g2, e1

const_Issues ==
    [LNAV  |-> << [toe |-> 164, toc |-> 164, sent |-> 162 .. 163, accurate |-> TRUE],
                  [toe |-> 166, toc |-> 168, sent |-> 164 .. 165, accurate |-> TRUE],
                  [toe |-> 168, toc |-> 168, sent |-> 166 .. 168, accurate |-> TRUE],
                  [toe |-> 170, toc |-> 170, sent |-> 168 .. 169, accurate |-> TRUE] >>,
     INAV  |-> << [toe |-> 166, toc |-> 166, sent |-> 165 .. 166, accurate |-> TRUE],
                  [toe |-> 167, toc |-> 167, sent |-> 167 .. 168, accurate |-> TRUE],
                  [toe |-> 168, toc |-> 168, sent |-> 168 .. 170, accurate |-> TRUE] >>,
     whole |-> << [toe |-> 166, toc |-> 166, sent |-> 164 .. 165, accurate |-> FALSE],
                  [toe |-> 166, toc |-> 168, sent |-> {165}, accurate |-> TRUE],
                  [toe |-> 167, toc |-> 167, sent |-> {166}, accurate |-> TRUE],
                  [toe |-> 168, toc |-> 168, sent |-> 166 .. 168, accurate |-> TRUE],
                  [toe |-> 170, toc |-> 170, sent |-> 168 .. 169, accurate |-> TRUE] >>]

const_Sats == [LNAV |-> {g1}, INAV |-> {e1}, whole |-> {g1, g2}]
const_OtherDates == {<< >>, <<166>>, <<165, 168>>}
const_Days == [sat |-> {163, 165, 167, 168}, sun |-> {168, 169}]
=============================================================================
