------------------------------ MODULE UbloxLog ------------------------------
(* Ublox::readLog(): the messages of one second, from UBX-RXM-RAWX (0215). *)
EXTENDS ReceiverLog

UbloxReqd == {"0121", "0122", "0215", "0d01"}

UbloxLocals == Locals(UbloxReqd)

\* sstr.fail(): what was gathered is dropped
UbloxBadLine(l) == [deleteMeasurements(l) EXCEPT !.cur = {}]

\* "save the measurements from the previous second"
UbloxSave(l) ==
    IF l.cur = UbloxReqd /\ l.svmeas # {}
    THEN [Push(l, l.svmeas) EXCEPT !.svmeas = {}]
    ELSE deleteMeasurements(l)

\* The satellites whose pseudorange is kept: tracked, of a known signal and
\* of a constellation that is used (ln.svs are those)
UbloxRaw(ln) == {[sv |-> s, sec |-> ln.sec] : s \in ln.svs}

(***************************************************************************)
(* 0215, raw measurements.  The previous second is saved before the size   *)
(* is looked at.  The test msg.size()-2*2-16*2 > 0 is on unsigned numbers: *)
(* only the exact header with no satellite fails it, and a shorter message *)
(* is indexed beyond its end, which throws.                                *)
(***************************************************************************)
Ublox0215(l, ln) ==
    LET s == [UbloxSave(l) EXCEPT !.pctime = ln.st, !.cur = {}]
    IN  CASE ln.q = "ok" /\ ln.svs # {} ->
                [s EXCEPT !.cur = {"0215"}, !.svmeas = UbloxRaw(ln), !.val["0215"] = From(ln)]
          [] ln.q = "short" -> [s EXCEPT !.abort = TRUE]
          [] OTHER -> s

\* 0d01 time pulse (the sawtooth), 0122 clock bias: taken when the size is right
Ublox0D01(l, ln) == Take(l, ln)
Ublox0122(l, ln) == Take(l, ln)

\* 0121 UTC solution: the bit is set only when the valid flag is
Ublox0121(l, ln) == Take(l, ln)

\* 0b02, leap seconds and ionosphere: the first of the file
Ublox0B02(l, ln) == IF ln.q = "ok" THEN [l EXCEPT !.got = {"utc", "iono"}] ELSE l

UbloxRead(l, ln) ==
    IF ln.q = "bad" THEN UbloxBadLine(l)
    ELSE CASE ln.id = "0215" -> Ublox0215(l, ln)
           [] ln.id = "0d01" -> Ublox0D01(l, ln)
           [] ln.id = "0121" -> Ublox0121(l, ln)
           [] ln.id = "0122" -> Ublox0122(l, ln)
           [] ln.id = "0b02" -> Ublox0B02(l, ln)

\* readLog() returns FALSE without UTC parameters, or without a measurement
UbloxReturns(l) == "utc" \in l.got /\ l.measurements # << >>

\* (Mutant) without the pass over the measurements
UbloxOwnSawtooth(l) == SecondsOf("0d01", l.measurements)

UbloxSawtooth(l) == Realigned(SecondsOf("0d01", l.measurements), SecondsOf("0121", l.measurements))
=============================================================================
