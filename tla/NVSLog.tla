------------------------------- MODULE NVSLog -------------------------------
(***************************************************************************)
(* NVS::readLog(): "Message order can vary so the messages are grouped by  *)
(* the PC time stamp".                                                     *)
(***************************************************************************)
EXTENDS ReceiverLog

CONSTANTS
    NextSecond,     \* the configuration has sawtooth phase = next second
    MaxRaw          \* MAX_CHANNELS * numConstellations * numCodes * 2

ASSUME RawAssumption == MaxRaw \in Nat

NVSReqd == {"46", "72", "74", "F5"}

NVSLocals == Locals(NVSReqd)

NVSDiscard(l) == [deleteMeasurements(l) EXCEPT !.cur = {}, !.dup = FALSE]

NVSNewStampKeep(l, ln) ==
    LET complete == l.cur = NVSReqd /\ ~l.dup /\ l.svmeas # {}
        s == IF ln.st = l.pctime THEN l
             ELSE IF complete THEN [Push(l, l.svmeas) EXCEPT !.cur = {}] ELSE NVSDiscard(l)
    IN  [s EXCEPT !.pctime = ln.st]

(***************************************************************************)
(* The PC time of the line differs from that of the line before: what was  *)
(* gathered is saved or thrown away.  A second that is complete but has no *)
(* satellite is neither: its bits stay set.                                *)
(***************************************************************************)
NVSNewStamp(l, ln) ==
    LET complete == l.cur = NVSReqd /\ ~l.dup
        s == IF complete
             THEN IF l.svmeas # {} THEN NVSDiscard(Push(l, l.svmeas)) ELSE l
             ELSE IF l.pctime # 0 THEN NVSDiscard(l) ELSE l
    IN  IF ln.st = l.pctime THEN l ELSE [s EXCEPT !.pctime = ln.st]

\* A message whose bit is already set spoils the second
NVSOnce(l, ln, read) == IF ln.id \in l.cur THEN [l EXCEPT !.dup = TRUE] ELSE read

\* The pseudoranges.  Too many are deleted, and the bit is not set.
NVSF5(l, ln) ==
    LET raw == l.svmeas \cup {[sv |-> s, sec |-> ln.sec] : s \in ln.svs}
    IN  NVSOnce(l, ln,
            IF ln.q # "ok" THEN l
            ELSE IF Cardinality(raw) >= MaxRaw
            THEN [deleteMeasurements(l) EXCEPT !.val["F5"] = From(ln)]
            ELSE [Take(l, ln) EXCEPT !.svmeas = raw])

NVS46(l, ln) == NVSOnce(l, ln, Take(l, ln))
NVS72(l, ln) == NVSOnce(l, ln, Take(l, ln))
NVS74(l, ln) == NVSOnce(l, ln, Take(l, ln))

\* 4A ionosphere and 4B UTC parameters, each when marked reliable
NVS4A(l, ln) == IF ln.q = "ok" THEN [l EXCEPT !.got = @ \cup {"iono"}] ELSE l
NVS4B(l, ln) == IF ln.q = "ok" THEN [l EXCEPT !.got = @ \cup {"utc"}] ELSE l

NVSRead(l, ln) ==
    LET n == NVSNewStamp(l, ln)
    IN  IF ln.q = "bad" THEN NVSDiscard(l)
        ELSE CASE ln.id = "F5" -> NVSF5(n, ln)
               [] ln.id = "46" -> NVS46(n, ln)
               [] ln.id = "72" -> NVS72(n, ln)
               [] ln.id = "74" -> NVS74(n, ln)
               [] ln.id = "4A" -> NVS4A(n, ln)
               [] ln.id = "4B" -> NVS4B(n, ln)

NVSReturns(l) == {"iono", "utc"} \subseteq l.got

\* measurements.at(0) throws when nothing was saved
NVSThrows(l) == NVSReturns(l) /\ NextSecond /\ l.measurements = << >>

NVSSawtooth(l) ==
    LET saw == SecondsOf("72", l.measurements)
    IN  IF NextSecond THEN Realigned(saw, SecondsOf("F5", l.measurements)) ELSE saw
=============================================================================
