---------------------------- MODULE Ephemerides -----------------------------
(***************************************************************************)
(* How mktimetx collects the broadcast ephemerides of one log, for one of  *)
(* three sources: GPS subframes (LNAV) and Galileo words (INAV), which a   *)
(* u-blox receiver gives one by one and readGPSEphemerisLNAVSubframe() and *)
(* readGALEphemerisINAVSubframe() put together, and the messages that hold *)
(* a whole ephemeris.  A satellite repeats its issue of data frame by      *)
(* frame, and goes over to the next issue between two frames; the receiver *)
(* gives the parts of a frame that it could read, in any order.            *)
(***************************************************************************)
EXTENDS EphemerisTable

CONSTANTS
    Sources,    \* of "LNAV", "INAV" and "whole"
    Issues,     \* Issues[src]: the issues of data of a satellite, in order
    Sats,       \* Sats[src]: the satellites
    Days,       \* Days[d]: the hours of GPS time that the log of day d covers
    MaxTable    \* ephemerides in the table

VARIABLES
    src,        \* the source
    day,        \* the day of the log
    now,        \* the hour of GPS time
    timed,      \* a raw measurement has given the time of week (measTOW >= 0)
    issue,      \* the issue a satellite is sending
    frame,      \* the parts of its frame that are still to come
    clean,      \* every part of this frame came through, so far
    whole,      \* whole frames of the issue received one after the other
    buf,        \* the ephemeris being put together (gpsEph, galEph)
    tab,        \* the table
    phase,      \* "reading" or "done"
    t0cAbs      \* what setAbsT0c() made of t_0c, in the order of the table

sending == <<issue, frame, clean, whole>>
vars == <<src, day, now, timed, sending, buf, tab, phase, t0cAbs>>

----------------------------------------------------------------------------
Parts == CASE src = "LNAV" -> 1 .. 3 [] src = "INAV" -> 1 .. 5 [] OTHER -> {}

WeekOf(t) == t \div HoursOfWeek

ASSUME IssuesAssumption ==
    /\ Sources \subseteq {"LNAV", "INAV", "whole"}
    /\ \A s \in Sources :
          Issues[s] \in Seq([toe : Nat, toc : Nat, sent : SUBSET Nat, accurate : BOOLEAN])
    /\ \A d \in DOMAIN Days : /\ Days[d] \subseteq Nat
                              /\ \E t \in Days[d] : \A u \in Days[d] : t <= u

\* A log is of one day: it is in two weeks at most, and t_0e of its issues tells them apart
ASSUME OneDayAssumption ==
    /\ \A d \in DOMAIN Days : \A t, u \in Days[d] : WeekOf(t) <= WeekOf(u) + 1
    /\ \A s \in Sources : \A i, j \in DOMAIN Issues[s] :
          Issues[s][i].toe % HoursOfWeek = Issues[s][j].toe % HoursOfWeek
              => Issues[s][i].toe = Issues[s][j].toe

\* and what they send is of the days around it: of less than a week, less the two hours
\* looked ahead, before or after, so that its time of the week tells the time
ASSUME NearAssumption ==
    \A d \in DOMAIN Days, s \in Sources : \A t \in Days[d], i \in DOMAIN Issues[s] :
        Issues[s][i].toe - t \in -165 .. 165

FirstHour(d) == CHOOSE t \in Days[d] : \A u \in Days[d] : t <= u

Sendable(t) == {i \in DOMAIN Issues[src] : t \in Issues[src][i].sent}

EmptyBuffer == [have |-> {}, part |-> [p \in 1 .. 5 |-> 0], iod |-> 0, week |-> 0]

\* The ephemeris of satellite s with the orbit of issue o, the clock of issue
\* c, and week number w; made are the issues it was put together from
Ephemeris(s, o, c, w, made) ==
    LET orbit == Issues[src][o]
        clock == Issues[src][c]
    IN  [sv |-> s, t0e |-> orbit.toe % HoursOfWeek, t0c |-> clock.toc % HoursOfWeek,
         week |-> w, accurate |-> clock.accurate,
         toe |-> orbit.toe, toc |-> clock.toc, made |-> made]

Init ==
    /\ src \in Sources
    /\ day \in DOMAIN Days
    /\ now = FirstHour(day)
    /\ timed = FALSE
    /\ issue \in [Sats[src] -> Sendable(now)]
    /\ frame = [s \in Sats[src] |-> Parts]
    /\ clean = [s \in Sats[src] |-> TRUE]
    /\ whole = [s \in Sats[src] |-> 0]
    /\ buf = [s \in Sats[src] |-> EmptyBuffer]
    /\ tab = EmptyTable(Sats[src])
    /\ phase = "reading"
    /\ t0cAbs = << >>

----------------------------------------------------------------------------
\* The last step of both assemblers: a complete ephemeris ed goes into the table;
\* if it is a duplicate the buffer is used again
Process(s, b, ed) ==
    /\ tab' = addEphemeris(tab, ed)
    /\ buf' = [buf EXCEPT ![s] = IF Duplicate(tab, ed) THEN [b EXCEPT !.have = {}] ELSE EmptyBuffer]

Keep(s, b) == buf' = [buf EXCEPT ![s] = b] /\ UNCHANGED tab

\* (Mutant) the IODC of subframe 1 is not compared
ConsistentIODE(b) == b.part[2] = b.part[3]

(***************************************************************************)
(* GPS.  A subframe is taken whatever the buffer holds.  With all three,   *)
(* IODE and IODC must agree, and the week number, which is that of the     *)
(* transmission, must be that of now or next to it; it is corrected to be  *)
(* that of t_0e.  Each refusal empties the buffer.                         *)
(***************************************************************************)
Consistent(b) == b.part[1] = b.part[2] /\ b.part[2] = b.part[3]

\* The week of t_0e, from the week number given and the time of transmission
WeekOfT0e(week, t0e) ==
    LET ttoe == t0e + week * HoursOfWeek
    IN  CASE now - ttoe > 84 -> week + 1
          [] ttoe - now > 84 -> week - 1
          [] OTHER           -> week

LNAVComplete(s, b) ==
    IF ~Consistent(b) \/ b.week - WeekOf(now) \notin -1 .. 1
    THEN Keep(s, [b EXCEPT !.have = {}])
    ELSE Process(s, b, Ephemeris(s, b.part[2], b.part[1],
                                 WeekOfT0e(b.week, Issues[src][b.part[2]].toe % HoursOfWeek),
                                 {b.part[p] : p \in 1 .. 3}))

\* Subframe p of satellite s, with week number w
LNAVSubframe(s, p, w) ==
    LET b == [buf[s] EXCEPT !.have = @ \cup {p}, !.part[p] = issue[s],
                            !.week = IF p = 1 THEN w ELSE @]
    IN  IF ~timed THEN UNCHANGED <<buf, tab>>
        ELSE IF b.have = 1 .. 3 THEN LNAVComplete(s, b) ELSE Keep(s, b)

(***************************************************************************)
(* Galileo.  Words 1 to 4 carry IODnav: a word of another issue empties    *)
(* the buffer and is itself lost.  Word 5 has none, and is taken at any    *)
(* time; a word 4 with another satellite's number empties the buffer.      *)
(***************************************************************************)
checkGalIODNav(b, iod) == b.have \cap (1 .. 4) = {} \/ b.iod = iod

INAVTaken(b, p, iod) ==
    [b EXCEPT !.have = @ \cup {p}, !.part[p] = iod,
              !.iod = IF p \in 1 .. 4 /\ b.have \cap (1 .. 4) = {} THEN iod ELSE @]

INAVComplete(s, b) ==
    Process(s, b, Ephemeris(s, b.part[1], b.part[4], 0, {b.part[p] : p \in 1 .. 4}))

\* (Mutant) a word of another issue is only ignored
INAVWordIgnored(s, p, ours) ==
    LET b == INAVTaken(buf[s], p, issue[s])
    IN  CASE p \in 1 .. 4 /\ ~checkGalIODNav(buf[s], issue[s]) -> UNCHANGED <<buf, tab>>
          [] p = 4 /\ ~ours /\ checkGalIODNav(buf[s], issue[s]) ->
                Keep(s, [buf[s] EXCEPT !.have = {}, !.iod = b.iod])
          [] OTHER -> IF b.have = 1 .. 5 THEN INAVComplete(s, b) ELSE Keep(s, b)

\* Word p of satellite s; ours: word 4 has its number
INAVWord(s, p, ours) ==
    LET b == INAVTaken(buf[s], p, issue[s])
    IN  CASE p \in 1 .. 4 /\ ~checkGalIODNav(buf[s], issue[s]) -> Keep(s, [buf[s] EXCEPT !.have = {}])
          [] p = 4 /\ ~ours /\ checkGalIODNav(buf[s], issue[s]) ->
                Keep(s, [buf[s] EXCEPT !.have = {}, !.iod = b.iod])
          [] OTHER -> IF b.have = 1 .. 5 THEN INAVComplete(s, b) ELSE Keep(s, b)

----------------------------------------------------------------------------
\* Part p of the frame of satellite s comes through (ok), or is damaged, or is lost
Came(s, p, ok) ==
    /\ phase = "reading"
    /\ p \in frame[s]
    /\ Len(tab.ephemeris) < MaxTable
    /\ frame' = [frame EXCEPT ![s] = @ \ {p}]
    /\ clean' = [clean EXCEPT ![s] = @ /\ ok]
    /\ UNCHANGED <<src, day, now, timed, issue, whole, phase, t0cAbs>>

\* "the occasional ephemeris with bad WN"
Subframe ==
    /\ src = "LNAV"
    /\ \E s \in Sats[src], p \in Parts, bad \in {0, 3} :
          /\ bad # 0 => p = 1
          /\ Came(s, p, timed /\ bad = 0)
          /\ LNAVSubframe(s, p, WeekOf(now) + bad)

Word ==
    /\ src = "INAV"
    /\ \E s \in Sats[src], p \in Parts, ours \in BOOLEAN :
          /\ ~ours => p = 4
          /\ Came(s, p, ours)
          /\ INAVWord(s, p, ours)

LosePart == \E s \in Sats[src], p \in Parts : Came(s, p, FALSE) /\ UNCHANGED <<buf, tab>>

\* 0b31, GE, F7 and 58 02 06: the ephemeris of an issue that was received now or before
WholeEphemeris ==
    /\ phase = "reading" /\ src = "whole" /\ Len(tab.ephemeris) < MaxTable
    /\ \E s \in Sats[src], i \in DOMAIN Issues[src] : \E t \in Issues[src][i].sent :
          /\ t <= now
          /\ tab' = addEphemeris(tab, Ephemeris(s, i, i, WeekOf(t), {i}))
    /\ tab' # tab
    /\ UNCHANGED <<src, day, now, timed, sending, buf, phase, t0cAbs>>

\* The first raw measurement of the log
RawMeasurement ==
    /\ phase = "reading" /\ src = "LNAV" /\ ~timed
    /\ timed' = TRUE
    /\ UNCHANGED <<src, day, now, sending, buf, tab, phase, t0cAbs>>

\* The next frame of satellite s, of the same issue or of the next one
NextFrame ==
    /\ phase = "reading" /\ src # "whole"
    /\ \E s \in Sats[src] : \E i \in {issue[s], issue[s] + 1} \cap Sendable(now) :
          /\ frame[s] = {} \/ (frame[s] = Parts /\ i # issue[s])
          /\ issue' = [issue EXCEPT ![s] = i]
          /\ whole' = [whole EXCEPT ![s] =
                          IF i # issue[s] \/ ~clean[s] THEN 0 ELSE IF @ < 2 THEN @ + 1 ELSE 2]
          /\ frame' = [frame EXCEPT ![s] = Parts]
          /\ clean' = [clean EXCEPT ![s] = TRUE]
    /\ UNCHANGED <<src, day, now, timed, buf, tab, phase, t0cAbs>>

\* Time passes between two frames; a satellite may have been out of sight
Tick ==
    /\ phase = "reading"
    /\ \A s \in Sats[src] : frame[s] = Parts
    /\ now' \in {t \in Days[day] : t > now}
    /\ issue' \in [Sats[src] -> Sendable(now')]
    /\ \A s \in Sats[src] : issue'[s] >= issue[s]
    /\ whole' = [s \in Sats[src] |-> IF issue'[s] = issue[s] THEN whole[s] ELSE 0]
    /\ UNCHANGED <<src, day, timed, frame, clean, buf, tab, phase, t0cAbs>>

\* The end of readLog().  How the satellites and the buffers stand is of no
\* consequence from here on, and forgotten.
EndOfLog ==
    /\ phase = "reading"
    /\ phase' = "done"
    /\ LET list == fixWeekRollovers(tab.ephemeris)
       IN  /\ tab' = [tab EXCEPT !.ephemeris = list]
           /\ t0cAbs' = IF src = "INAV" THEN GALsetAbsT0c(list, WeekOf(FirstHour(day)))
                        ELSE GPSsetAbsT0c(list)
    /\ now' = FirstHour(day) /\ timed' = FALSE
    /\ issue' = [s \in Sats[src] |-> 1] /\ frame' = [s \in Sats[src] |-> Parts]
    /\ clean' = [s \in Sats[src] |-> TRUE] /\ whole' = [s \in Sats[src] |-> 0]
    /\ buf' = [s \in Sats[src] |-> EmptyBuffer]
    /\ UNCHANGED <<src, day>>

Next == Subframe \/ Word \/ LosePart \/ WholeEphemeris \/ RawMeasurement \/ NextFrame \/ Tick \/ EndOfLog

Spec == Init /\ [][Next]_vars

----------------------------------------------------------------------------
Entries == {tab.ephemeris[i] : i \in DOMAIN tab.ephemeris}

(***************************************************************************)
(* The state, and the two views of the table: the list and the lists of    *)
(* the satellites hold the same ephemerides.                               *)
(***************************************************************************)
TypeOK ==
    /\ src \in Sources /\ day \in DOMAIN Days /\ now \in Days[day] /\ timed \in BOOLEAN
    /\ issue \in [Sats[src] -> DOMAIN Issues[src]]
    /\ frame \in [Sats[src] -> SUBSET Parts] /\ clean \in [Sats[src] -> BOOLEAN]
    /\ whole \in [Sats[src] -> 0 .. 2]
    /\ \A s \in Sats[src] : buf[s].have \subseteq Parts /\ (src # "whole" => buf[s].have # Parts)
    /\ Entries = UNION {{tab.sorted[s][i] : i \in DOMAIN tab.sorted[s]} : s \in Sats[src]}
    /\ Len(tab.ephemeris) = Cardinality(Entries)

(***************************************************************************)
(* Cutover: an ephemeris in the table was put together from parts of one   *)
(* issue, whatever parts were lost and in whatever order they came.  (Word *)
(* 5 of Galileo, which is health and ionosphere, may be of another.)       *)
(***************************************************************************)
OneIssue == \A e \in Entries : Cardinality(e.made) = 1

(***************************************************************************)
(* What an assembler throws away does not keep it from learning an issue:  *)
(* after two whole frames of the issue its t_0e is in the table.           *)
(***************************************************************************)
Learnt ==
    \A s \in Sats[src] :
        src # "whole" /\ whole[s] = 2 =>
            \E e \in Entries : e.sv = s /\ e.toe = Issues[src][issue[s]].toe

(***************************************************************************)
(* The date given to a clock reference is the true one.  The exceptions:   *)
(* Galileo, when the first entry on a Sunday is of the Saturday before,    *)
(* everything is a week late; and an entry whose week number is not that   *)
(* of its t_0c may be a week early.                                        *)
(***************************************************************************)
Dated(i) == t0cAbs[i] = tab.ephemeris[i].toc

SaturdayFirst ==
    /\ src = "INAV" /\ tab.ephemeris # << >>
    /\ WeekOf(tab.ephemeris[1].toc) < WeekOf(FirstHour(day))

DatedRight ==
    phase = "done" =>
        \A i \in DOMAIN tab.ephemeris :
            LET e == tab.ephemeris[i]
            IN  CASE SaturdayFirst -> t0cAbs[i] = e.toc + HoursOfWeek
                  [] src # "INAV" /\ e.week # WeekOf(e.toc) ->
                        Dated(i) \/ t0cAbs[i] = e.toc - HoursOfWeek
                  [] OTHER -> Dated(i)

\* setAbsT0c() "sets ephemeris t0c, corrected for week rollovers"
GalileoDated == phase = "done" /\ src = "INAV" => \A i \in DOMAIN tab.ephemeris : Dated(i)

(***************************************************************************)
(* nearestEphemeris() finds the first accurate ephemeris whose t_0e is in  *)
(* the next two hours, also across the end of the week; and none when      *)
(* there is none.                                                          *)
(***************************************************************************)
NearestIsNext ==
    \A s \in Sats[src], t \in Days[day] :
        LET list == tab.sorted[s]
            next == {i \in DOMAIN list : list[i].accurate /\ list[i].toe - t \in 0 .. 2}
            i == nearestEphemeris(list, t % HoursOfWeek)
        IN  IF \E e \in Entries : e.toe = -1 THEN TRUE
            ELSE IF next = {} THEN i = 0
            ELSE i \in next /\ \A j \in next : list[i].toe <= list[j].toe
=============================================================================
