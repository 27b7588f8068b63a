---------------------------- MODULE TimeTransfer ----------------------------
(***************************************************************************)
(* A run of mktimetx over one UTC day: Application::run() reads the part   *)
(* of the logs it needs, matches them, and writes a RINEX observation file *)
(* and the CGGTTS tracks of one satellite (RINEX::writeObservationFile,    *)
(* CGGTTS::writeObservationFile).  The loops are recursive functions.      *)
(***************************************************************************)
EXTENDS Pairs, Sequences, Functions

CONSTANTS
    Leap,           \* GPS time minus UTC
    Interval,       \* between two epochs of the RINEX file
    TrackStarts,    \* the CGGTTS schedule of the day, in seconds
    NTRACKPOINTS,   \* seconds in a track
    Sampling,       \* V2E: a point every Sampling seconds
    QuadPoints,     \* V1: quadratic fits to so many seconds
    MinTrackLength,
    StartTime, StopTime,    \* what to process
    Early, Late             \* more of the logs is read on either side

ASSUME WindowAssumption == {StartTime, StopTime, Early, Late} \subseteq Nat /\ StartTime <= StopTime

\* The schedule is of one day, and so much more of the logs is read that a track fits in
ASSUME TrackAssumption ==
    /\ TrackStarts \subseteq Seconds
    /\ {Interval, Sampling, QuadPoints, NTRACKPOINTS} \subseteq Nat \ {0}
    /\ NTRACKPOINTS - 1 <= Late
ASSUME LeapAssumption == Leap \in Seconds

VARIABLES
    rinex,          \* the epochs written: the receiver measurements
    tracks          \* the CGGTTS tracks written

vars == <<logVars, phase, mpairs, rinex, tracks>>

GPSDay(t) == (t + Leap) \div Day
GPSTimeOfDay(t) == (t + Leap) % Day

\* A sequence of numbers is this set in increasing order
Lists(q, S) == Range(q) = S /\ \A i, j \in DOMAIN q : i < j => q[i] < q[j]

\* The next multiple of step, counted from obs, that is not before t
Advance(obs, t, step) == IF t <= obs THEN obs ELSE obs + step * ((t - obs + step - 1) \div step)

----------------------------------------------------------------------------
SloppyStart == IF StartTime - Early < 0 THEN 0 ELSE StartTime - Early
SloppyStop  == IF StopTime + Late > Day - 1 THEN Day - 1 ELSE StopTime + Late

\* (Mutant) no more of the logs is read than is processed
MatchStrict ==
    /\ phase = "logging"
    /\ now = Day
    /\ phase' = "matched"
    /\ mpairs' = matchMeasurements(Read(counterFile, StartTime, StopTime),
                                   Read(receiverFile, StartTime, StopTime))
    /\ UNCHANGED <<logVars, rinex, tracks>>

Match ==
    /\ phase = "logging"
    /\ now = Day
    /\ phase' = "matched"
    /\ mpairs' = matchMeasurements(Read(counterFile, StartTime, SloppyStop),
                                   Read(receiverFile, SloppyStart, SloppyStop))
    /\ UNCHANGED <<logVars, rinex, tracks>>

----------------------------------------------------------------------------
(* CGGTTS *)

TrackStop(a) == IF a + NTRACKPOINTS - 1 >= Day THEN Day - 1 ELSE a + NTRACKPOINTS - 1

\* (Mutant) a measurement later than the point looked for is passed over
SampleOnce(l, s) ==
    IF s \notin Paired THEN l
    ELSE LET t == mpairs[s].rm.t
         IN  IF t = l.tsearch THEN [tsearch |-> t + Sampling, points |-> Append(l.points, t)]
             ELSE IF t > l.tsearch THEN [l EXCEPT !.tsearch = @ + Sampling] ELSE l

\* V2E: the measurements of the track at every Sampling seconds from its start
Sample(l, s) ==
    IF s \notin Paired THEN l
    ELSE LET t == mpairs[s].rm.t
             g == Advance(l.tsearch, t, Sampling)
         IN  IF t = g THEN [tsearch |-> g + Sampling, points |-> Append(l.points, t)]
             ELSE [l EXCEPT !.tsearch = g]

Samples(a) ==
    LET l[s \in a - 1 .. TrackStop(a)] ==
            IF s < a THEN [tsearch |-> a, points |-> << >>] ELSE Sample(l[s - 1], s)
    IN  l[TrackStop(a)].points

\* V1: batches of QuadPoints seconds; those with more than half of them are fitted
NBatches(a) == (TrackStop(a) - a + 1) \div QuadPoints

InBatch(b) == {s \in Paired : s \in b .. b + QuadPoints - 1}

\* (Mutant) half of the points and one less
EnoughLess(b) == Cardinality(InBatch(b)) > QuadPoints \div 2 - 1

Enough(b) == Cardinality(InBatch(b)) > QuadPoints \div 2

\* The GPS time the corrections are computed for: the day is that of the last
\* measurement and goes up by one more when the time of day says so
FitTow(tc, last) ==
    LET next == IF tc + Leap >= Day THEN 1 ELSE 0
    IN  tc + Leap + Day * (GPSDay(last) + next)

Fit(b) ==
    LET tc == b + QuadPoints - 1 - QuadPoints \div 2
        last == CHOOSE s \in InBatch(b) : \A u \in InBatch(b) : u <= s
    IN  [tc |-> tc, times |-> {mpairs[s].rm.t : s \in InBatch(b)}, tow |-> FitTow(tc, mpairs[last].rm.t)]

\* A fit of the batch that starts at b, if it is worth one
WithFit(q, b) == IF Enough(b) THEN Append(q, Fit(b)) ELSE q

Fits(a) ==
    LET q[n \in 0 .. NBatches(a)] ==
            IF n = 0 THEN << >> ELSE WithFit(q[n - 1], a + (n - 1) * QuadPoints)
    IN  q[NBatches(a)]

Points(ver, a) == IF ver = "V1" THEN Fits(a) ELSE Samples(a)

LengthOf(ver, points) == Len(points) * (IF ver = "V1" THEN QuadPoints ELSE Sampling)

Scheduled == {a \in TrackStarts : a >= StartTime /\ a <= StopTime}

Long(ver) == {a \in Scheduled : Points(ver, a) # << >> /\ LengthOf(ver, Points(ver, a)) >= MinTrackLength}

\* The satellite has a good ephemeris
WriteCGGTTS(ver) ==
    /\ phase = "matched"
    /\ tracks' = {[ver |-> ver, start |-> a, points |-> Points(ver, a)] : a \in Long(ver)}
    /\ phase' = "tracked"
    /\ UNCHANGED <<logVars, mpairs, rinex>>

\* It has none, or is unhealthy: no point of it is used.  With P3 the group
\* delay is taken from the ephemeris that is not there.
WriteNoTrack(p3, ed) ==
    /\ phase = "matched"
    /\ tracks' = {}
    /\ phase' = IF p3 /\ ed = "none" /\ \E a \in Scheduled : Samples(a) # << >>
                THEN "crashed" ELSE "tracked"
    /\ UNCHANGED <<logVars, mpairs, rinex>>

----------------------------------------------------------------------------
(* RINEX *)

\* (Mutant) GPS days are not told apart
RolloversNone(l, t) == 0

\* A change of the day counts as a rollover whichever way it goes
Rollovers(l, t) == IF l.yday \in {-1, GPSDay(t)} THEN l.rollovers ELSE l.rollovers + 1

Epoch(l, s) ==
    IF s \notin Paired \/ l.obsTime > Day THEN l
    ELSE LET t     == mpairs[s].rm.t
             tMeas == Rollovers(l, t) * Day + GPSTimeOfDay(t)
             obs   == Advance(l.obsTime, tMeas, Interval)
             write == tMeas = obs /\ obs <= Day
         IN  [yday |-> GPSDay(t), rollovers |-> Rollovers(l, t),
              obsTime |-> IF write THEN obs + Interval ELSE obs,
              out |-> IF write THEN Append(l.out, t) ELSE l.out]

Epochs ==
    LET l[s \in -1 .. Day - 1] ==
            IF s < 0 THEN [yday |-> -1, rollovers |-> 0, obsTime |-> 0, out |-> << >>]
            ELSE Epoch(l[s - 1], s)
    IN  l[Day - 1].out

WriteRINEX ==
    /\ phase = "tracked"
    /\ rinex' = Epochs
    /\ phase' = "written"
    /\ UNCHANGED <<logVars, mpairs, tracks>>

----------------------------------------------------------------------------
Init == PairsInit /\ rinex = << >> /\ tracks = {}

Next ==
    \/ Log /\ UNCHANGED <<rinex, tracks>>
    \/ Match
    \/ \E ver \in {"V1", "V2E"} : WriteCGGTTS(ver)
    \/ \E p3 \in BOOLEAN, ed \in {"none", "unhealthy"} : WriteNoTrack(p3, ed)
    \/ WriteRINEX

Spec == Init /\ [][Next]_vars

----------------------------------------------------------------------------
TypeOK ==
    /\ PairsTypeOK
    /\ rinex \in Seq(Seconds)
    /\ \A k \in tracks : k.start \in Scheduled

\* What a log would be used for if there were no windows to what is read
Usable == {e \in receiverFile :
              /\ \A f \in receiverFile : f.pc = e.pc => f = e
              /\ \E c \in counterFile : c.pc = e.pc
              /\ \A c, d \in counterFile : c.pc = e.pc /\ d.pc = e.pc => c = d}

InOrder(S) == \A e, f \in S : e.pc < f.pc => e.t < f.t

\* The PC clock never made the measurements appear in another order
Ordered == InOrder({mpairs[s].rm : s \in Paired})

\* Out of order or not, no epoch is written twice or after a later one, and none
\* is off the grid
OnGrid ==
    /\ \A i, j \in DOMAIN rinex : i < j => rinex[i] < rinex[j]
    /\ \A i \in DOMAIN rinex : GPSTimeOfDay(rinex[i]) % Interval = 0

\* The RINEX file has every measurement that falls on an epoch of the GPS day, up
\* to the midnight that ends it, in order and once, however the PC clock was
\* stepped, as long as it left them in order and the GPS day had not ended
RinexComplete ==
    /\ OnGrid
    /\ (phase = "written" /\ Ordered /\ \E s \in Paired : GPSDay(mpairs[s].rm.t) = 0)
        => Lists(rinex, {t \in {mpairs[s].rm.t : s \in Paired} :
                             (t + Leap) % Interval = 0 /\ t + Leap <= Day})

\* A V2E track has every measurement of its PC seconds that falls on a sampling
\* time, although the logs are only read in a window
SamplesComplete ==
    \A k \in tracks :
        LET mine == {e \in Usable : e.pc \in k.start .. k.start + NTRACKPOINTS - 1}
        IN  (k.ver = "V2E" /\ InOrder(mine)) =>
                Lists(k.points, {e.t : e \in {f \in mine :
                                     f.t >= k.start /\ (f.t - k.start) % Sampling = 0}})

\* A quadratic fit is evaluated among the points it was fitted to, and its corrections
\* are computed for that time - unless the PC clock is wrong, since the points have the
\* receiver's time and tc is the PC's; and from the first point beyond the GPS midnight
\* the time of the corrections is a day or two late (FitTow)
FitsSound ==
    \A k \in tracks : k.ver = "V1" =>
        \A i \in DOMAIN k.points :
            LET f == k.points[i]
            IN  (\A t \in f.times : clock[t] = t /\ t \notin receiverLate) =>
                    /\ \E t, u \in f.times : t <= f.tc /\ f.tc <= u
                    /\ f.tow = f.tc + Leap \/ \E t \in f.times : t + Leap >= Day
=============================================================================
