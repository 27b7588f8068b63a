----------------------------- MODULE Navigation -----------------------------
(***************************************************************************)
(* RINEX navigation files.  When the log has been read, mktimetx may put a *)
(* navigation file that the user supplies in the place of what the         *)
(* receiver gave (Application::run, for a GPS CGGTTS file), and writes a   *)
(* navigation file of its own, which a later run may be given.  A record   *)
(* of a file has the satellite, the date (the day, from t0cAbs, and the    *)
(* hour, from t_0c), t_0e and the week number.                             *)
(***************************************************************************)
EXTENDS Ephemerides

CONSTANTS
    Versions,      \* RINEX versions, of 2 and 3
    OtherDates     \* what the other constellation may have, as lists of t0cAbs in order

\* A constellation has satellites, and a list is in order
ASSUME FilesAssumption ==
    /\ Versions \subseteq {2, 3}
    /\ \A s \in Sources : Sats[s] # {}
    /\ \A other \in OtherDates : other \in Seq(Nat)
                                /\ \A i, j \in DOMAIN other : i <= j => other[i] <= other[j]

VARIABLES
    \* phase goes on from "done" to "replaced", "written", "reread" or "exit"
    file,          \* the navigation file written or read last
    replaced       \* the GPS ephemerides are those of the user's file

navvars == <<file, replaced>>

NoFile == [ver |-> 0, system |-> "none", header |-> FALSE, records |-> << >>]

NavInit == Init /\ file = NoFile /\ replaced = FALSE

----------------------------------------------------------------------------
(* Writing.  A record also has the ephemeris it was made from (of), for the *)
(* properties.                                                              *)

Record(ed, abs) ==
    [sv |-> ed.sv, day |-> abs \div 24, hour |-> ed.t0c % 24, t0e |-> ed.t0e,
     week |-> abs \div HoursOfWeek, accurate |-> ed.accurate, of |-> ed]

ThisSystem == IF src = "INAV" THEN "E" ELSE "G"

\* writeGPSNavigationFile(), writeGALNavigationFile()
OneSystemFile(ver) ==
    [ver |-> ver, system |-> ThisSystem, header |-> TRUE,
     records |-> [i \in DOMAIN t0cAbs |-> Record(tab.ephemeris[i], t0cAbs[i])]]

\* (Mutant) Galileo goes first for as long as it has any
InTimeOrderGalileoFirst(gal, gps) ==
    [n \in 1 .. Len(gal) + Len(gps) |->
        IF n <= Len(gal) THEN [sys |-> "E", abs |-> gal[n]]
        ELSE [sys |-> "G", abs |-> gps[n - Len(gal)]]]

\* Two lists, each in the order of time, into one; GPS first when the times are
\* equal.  Of the first n, galileo[n] are of Galileo
FromGalileo(gal, gps, n, taken) ==
    taken < Len(gal) /\ (n - taken > Len(gps) \/ gal[taken + 1] < gps[n - taken])

InTimeOrder(gal, gps) ==
    LET galileo[n \in 0 .. Len(gal) + Len(gps)] ==
            IF n = 0 THEN 0
            ELSE IF FromGalileo(gal, gps, n, galileo[n - 1]) THEN galileo[n - 1] + 1 ELSE galileo[n - 1]
    IN  [n \in 1 .. Len(gal) + Len(gps) |->
            IF galileo[n] = galileo[n - 1] THEN [sys |-> "G", abs |-> gps[n - galileo[n]]]
            ELSE [sys |-> "E", abs |-> gal[galileo[n]]]]

\* writeMixedNavigationFile(): one short line for each ephemeris
MixedFile(other) ==
    [ver |-> 3, system |-> "M", header |-> TRUE,
     records |-> IF src = "INAV" THEN InTimeOrder(t0cAbs, other) ELSE InTimeOrder(other, t0cAbs)]

\* Version 2 is for GPS alone
WriteNavigationFile ==
    /\ phase \in {"done", "replaced"}
    /\ phase' = "written"
    /\ \/ \E ver \in Versions :
             (ver = 2 => ThisSystem = "G") /\ file' = OneSystemFile(ver)
       \/ 3 \in Versions /\ \E other \in OtherDates : file' = MixedFile(other)
    /\ UNCHANGED <<src, day, now, timed, sending, buf, tab, t0cAbs, replaced>>

----------------------------------------------------------------------------
(* Reading, for GPS.                                                        *)

\* (Mutant) the day of the week is that of the hour alone
EphemerisOfHour(r) ==
    [sv |-> r.sv, t0e |-> r.t0e, t0c |-> r.hour,
     week |-> r.week % 1024, accurate |-> r.accurate,
     toe |-> r.of.toe, toc |-> r.of.toc, made |-> r.of.made]

(***************************************************************************)
(* getGPSEphemeris(): the date gives the day of the week.  (Of version 3   *)
(* the year has four digits and the century is added to it again: 2000     *)
(* years later, which is the same day of the week.)                        *)
(***************************************************************************)
EphemerisOf(r) ==
    [sv |-> r.sv, t0e |-> r.t0e, t0c |-> (r.day % 7) * 24 + r.hour,
     week |-> r.week % 1024, accurate |-> r.accurate,
     toe |-> r.of.toe, toc |-> r.of.toc, made |-> r.of.made]

(***************************************************************************)
(* After the last record one more is read: the end of the file is not seen *)
(* until fgets() fails, which leaves line as it was.  In it may be the     *)
(* first line of the last record, and then the rest is read as nothing.    *)
(***************************************************************************)
PastTheEnd(r) == [EphemerisOf(r) EXCEPT !.t0e = 0, !.week = 0, !.toe = -1]

\* Records of other systems, and the short lines of a mixed file, are passed over
GPSRecords(f) == IF f.system = "G" THEN f.records ELSE << >>

\* What records may add to an empty table
Readings(records) ==
    LET n == Len(records)
        read[i \in 0 .. n] ==
            IF i = 0 THEN EmptyTable(Sats[src]) ELSE addEphemeris(read[i - 1], EphemerisOf(records[i]))
    IN  {read[n]} \cup (IF n = 0 THEN {} ELSE {addEphemeris(read[n], PastTheEnd(records[n]))})

\* In version 2 the header names no system and the records have no letter
readV2NavigationFile(f) == Readings(f.records)

readV3NavigationFile(f) == Readings(GPSRecords(f))

\* A file without the end of its header adds nothing, and readNavigationFile() is content
readNavigationFile(f) ==
    IF ~f.header THEN {EmptyTable(Sats[src])}
    ELSE IF f.ver < 3 THEN readV2NavigationFile(f) ELSE readV3NavigationFile(f)

----------------------------------------------------------------------------
\* A good file for this day: the issues that were sent on it, in the order of time
SentToday ==
    LET sent[i \in 0 .. Len(Issues[src])] ==
            IF i = 0 THEN << >>
            ELSE IF Issues[src][i].sent \cap Days[day] = {} THEN sent[i - 1] ELSE Append(sent[i - 1], i)
    IN  sent[Len(Issues[src])]

UserFile(ver) ==
    LET sat == CHOOSE s \in Sats[src] : TRUE
        sent == SentToday
        eph(i) == Ephemeris(sat, i, i, WeekOf(Issues[src][i].toe), {i})
    IN  [ver |-> ver, system |-> "G", header |-> TRUE,
         records |-> [n \in DOMAIN sent |-> Record(eph(sent[n]), Issues[src][sent[n]].toc)]]

(***************************************************************************)
(* The ephemerides of the receiver are deleted and the file is read: it is *)
(* neither mended by fixWeekRollovers() nor dated by setAbsT0c(), so that  *)
(* t0cAbs is what the memory holds: nothing, or what a deleted ephemeris   *)
(* left in it.                                                             *)
(***************************************************************************)
UserSupplied ==
    /\ phase = "done" /\ ThisSystem = "G"
    /\ phase' = "replaced" /\ replaced' = TRUE
    /\ \E ver \in Versions, whl \in BOOLEAN : file' = [UserFile(ver) EXCEPT !.header = whl]
    /\ tab' \in readNavigationFile(file')
    /\ t0cAbs' \in [DOMAIN tab'.ephemeris ->
                       {0} \cup (IF t0cAbs = << >> THEN {} ELSE {t0cAbs[Len(t0cAbs)]})]
    /\ UNCHANGED <<src, day, now, timed, sending, buf>>

\* The user's file is not there, or is a directory
UserFileMissing ==
    /\ phase = "done" /\ ThisSystem = "G"
    /\ phase' = "exit"
    /\ UNCHANGED <<src, day, now, timed, sending, buf, tab, t0cAbs, navvars>>

\* A later run is given the file that this run wrote
LaterRunReads ==
    /\ phase = "written"
    /\ phase' = "reread"
    /\ tab' \in readNavigationFile(file)
    /\ t0cAbs' = [i \in DOMAIN tab'.ephemeris |-> 0]
    /\ UNCHANGED <<src, day, now, timed, sending, buf, file, replaced>>

NavNext ==
    \/ Next /\ UNCHANGED navvars
    \/ UserSupplied \/ UserFileMissing \/ WriteNavigationFile \/ LaterRunReads

NavSpec == NavInit /\ [][NavNext]_<<vars, navvars>>

----------------------------------------------------------------------------
(***************************************************************************)
(* A mixed file holds what both constellations have, in the order of time. *)
(***************************************************************************)
InOrder(q) == \A i, j \in DOMAIN q : i <= j => q[i] <= q[j]

Mine(n) == {i \in 1 .. n : file.records[i].sys = ThisSystem}

MixedInOrder ==
    phase = "written" /\ file.system = "M" /\ InOrder(t0cAbs) =>
        /\ InOrder([i \in DOMAIN file.records |-> file.records[i].abs])
        /\ Cardinality(Mine(Len(file.records))) = Len(t0cAbs)
        /\ \A i \in Mine(Len(file.records)) :
              file.records[i].abs = t0cAbs[Cardinality(Mine(i))]

(***************************************************************************)
(* A navigation file written by one run and read by another gives the same *)
(* ephemerides: for every record of a GPS file the table has one of that   *)
(* satellite with its t_0e, and all that is in the table is in the file,   *)
(* with its time of the week, also when the file has its date wrong by a   *)
(* week.  The exceptions: what is read past the end of the file, and the   *)
(* dates of ephemerides that the user supplied.                            *)
(***************************************************************************)
ReadBack ==
    phase \in {"replaced", "reread"} =>
        /\ file.header =>
              \A i \in DOMAIN GPSRecords(file) :
                 \E e \in Entries : e.sv = file.records[i].sv /\ e.t0e = file.records[i].t0e
        /\ \A e \in Entries : e.toe # -1 =>
              /\ e.t0e = e.toe % HoursOfWeek
              /\ (phase = "reread" /\ replaced) \/ e.t0c = e.toc % HoursOfWeek
=============================================================================
