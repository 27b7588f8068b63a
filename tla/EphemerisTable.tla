--------------------------- MODULE EphemerisTable ---------------------------
(***************************************************************************)
(* The broadcast ephemerides of one constellation (GNSSSystem, GPS and     *)
(* Galileo of mktimetx): a list in the order of the time of clock t_0c,    *)
(* and a list of each satellite.  Times are hours.  A satellite gives t_0e *)
(* and t_0c as times of the week, so that the order in the lists is that   *)
(* of the week, and is mended when the log has been read.                  *)
(*                                                                         *)
(* An ephemeris is a record with its satellite, t0e and t0c in hours of    *)
(* the week, its week number, whether its accuracy is good enough, and     *)
(* the true times (hours since the start of week 0) of t0e and t0c, which  *)
(* the code does not have and the properties compare with.                 *)
(***************************************************************************)
EXTENDS Integers, Sequences, FiniteSets, SequencesExt

HoursOfWeek == 168

EmptyTable(svs) == [ephemeris |-> << >>, sorted |-> [s \in svs |-> << >>]]

\* The list with ed before the first entry that has a later t_0c
InsertByT0c(list, ed) ==
    LET before == {i \in DOMAIN list : \A j \in 1 .. i : list[j].t0c <= ed.t0c}
    IN  InsertAt(list, Cardinality(before) + 1, ed)

\* An ephemeris of this satellite with this t_0e is in the table
Duplicate(tab, ed) == \E i \in DOMAIN tab.sorted[ed.sv] : tab.sorted[ed.sv][i].t0e = ed.t0e

addEphemeris(tab, ed) ==
    IF Duplicate(tab, ed) THEN tab
    ELSE [ephemeris |-> InsertByT0c(tab.ephemeris, ed),
          sorted    |-> [s \in DOMAIN tab.sorted |->
                       IF s = ed.sv THEN InsertByT0c(tab.sorted[s], ed) ELSE tab.sorted[s]]]

\* The first entries up to a break of more than five days go to the end
fixWeekRollovers(list) ==
    LET first == {i \in DOMAIN list : \A j \in 2 .. i : list[j].t0c - list[j - 1].t0c <= 5 * 24}
        n == Cardinality(first)
    IN  SubSeq(list, n + 1, Len(list)) \o SubSeq(list, 1, n)

\* (Mutant) the week is never advanced
RollOverNever(acc, week, ed) == 0

(***************************************************************************)
(* setAbsT0c(): the absolute t_0c, from the week numbers and the order of  *)
(* the list.  -1 stands for "no entry yet"; the multiple of 1024 weeks     *)
(* that the date gives is the same for all of them.                        *)
(***************************************************************************)
RollOver(acc, week, ed) ==
    LET lastWeek == IF acc.week = -1 THEN week ELSE acc.week
        lastToc  == IF acc.toc = -1 THEN ed.t0c ELSE acc.toc
    IN  CASE week = lastWeek /\ ed.t0c - lastToc < -48 -> 1
          [] week = lastWeek + 1                       -> 0
          [] OTHER                                     -> acc.roll

\* GPS: every entry has its week number
GPSsetAbsT0c(list) ==
    LET acc[i \in 0 .. Len(list)] ==
            IF i = 0 THEN [week |-> -1, toc |-> -1, roll |-> 0]
            ELSE [week |-> list[i].week, toc |-> list[i].t0c,
                  roll |-> RollOver(acc[i - 1], list[i].week, list[i])]
    IN  [i \in 1 .. Len(list) |-> (list[i].week + acc[i].roll) * HoursOfWeek + list[i].t0c]

\* Galileo: the week of the day, carried from entry to entry
GALsetAbsT0c(list, weekOfDay) ==
    LET acc[i \in 0 .. Len(list)] ==
            IF i = 0 THEN [week |-> -1, toc |-> -1, roll |-> 0, gal |-> weekOfDay]
            ELSE LET last == acc[i - 1]
                     roll == RollOver(last, last.gal, list[i])
                 IN  [week |-> last.gal, toc |-> list[i].t0c, roll |-> roll, gal |-> last.gal + roll]
    IN  [i \in 1 .. Len(list) |-> acc[i].gal * HoursOfWeek + list[i].t0c]

\* (Mutant) the week rollover is not handled
AheadInWeek(ed, tow) == ed.t0e - tow

(***************************************************************************)
(* nearestEphemeris(): the first with the smallest time from tow to t_0e,  *)
(* among those that are not before tow, less than 0.1 day (2.4 hours)      *)
(* after it, and accurate enough; 0 when there is none.                    *)
(***************************************************************************)
Ahead(ed, tow) == LET dt == ed.t0e - tow IN IF dt < -5 * 24 THEN dt + HoursOfWeek ELSE dt

Nearer(list, tow, i, best) ==
    /\ Ahead(list[i], tow) >= 0 /\ Ahead(list[i], tow) <= 2 /\ list[i].accurate
    /\ best = 0 \/ Ahead(list[i], tow) < Ahead(list[best], tow)

nearestEphemeris(list, tow) ==
    LET best[i \in 0 .. Len(list)] ==
            IF i = 0 THEN 0 ELSE IF Nearer(list, tow, i, best[i - 1]) THEN i ELSE best[i - 1]
    IN  best[Len(list)]
=============================================================================
