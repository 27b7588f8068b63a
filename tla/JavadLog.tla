------------------------------ MODULE JavadLog ------------------------------
(***************************************************************************)
(* Javad::readLog().  RD starts a second; SI lists the satellites, and the *)
(* messages after it carry one item for each of them.  A pseudorange comes *)
(* in a full and a short message, of which the full one takes precedence.  *)
(***************************************************************************)
EXTENDS ReceiverLog

CONSTANTS
    DualFrequency,          \* the HE_GD, with P1 and P2
    ReadFrom, ReadTo        \* the PC times that are processed

ASSUME ReadAssumption == {ReadFrom, ReadTo} \subseteq Nat /\ DualFrequency \in BOOLEAN

JavadSized == {"SS", "EL", "AZ", "FC"} \cup IF DualFrequency THEN {"F1", "F2"} ELSE {}

\* The pseudorange messages of one signal: any of them satisfies it
JavadSignal(id) ==
    CASE id \in {"rc", "RC"}             -> {"rc", "RC"}
      [] id \in {"R1", "r1", "1R", "1r"} -> {"R1", "r1", "1R", "1r"}
      [] id \in {"R2", "r2", "2R", "2r"} -> {"R2", "r2", "2R", "2r"}

JavadSignals == {JavadSignal("rc")} \cup
    IF DualFrequency THEN {JavadSignal("R1"), JavadSignal("R2")} ELSE {}

JavadRanges == UNION JavadSignals

\* The full message that takes precedence over a short one
JavadFull(id) ==
    CASE id = "rc" -> {"RC"} [] id = "r1" -> {"R1"} [] id = "r2" -> {"R2"}
      [] id = "1r" -> {"1R"} [] id = "2r" -> {"2R"} [] OTHER -> {}

JavadOffsets == {"~~", "TO", "YA", "ZA"}

JavadIds == {"RD", "SI"} \cup JavadOffsets \cup JavadSized \cup JavadRanges

JavadLocals == Locals(JavadIds)

JavadComplete(l) ==
    /\ JavadOffsets \cup {"SI"} \cup JavadSized \subseteq l.cur
    /\ \A s \in JavadSignals : s \cap l.cur # {}

\* Ready for the messages of a second: with RD, a new one
JavadStart(l, ln) ==
    [l EXCEPT !.cur = {}, !.cnt = [i \in JavadIds |-> 0],
              !.pctime = IF ln.id = "RD" THEN ln.st ELSE @]

\* Each pseudorange message of these was read at most once
JavadOnce(l, ids) == \A i \in ids : l.cnt[i] <= 1

\* The satellites listed by SI (with channels that were locked, and ranges
\* that are sane) and the second of their C/A pseudoranges
JavadRanged(l) ==
    LET ca == IF "RC" \in l.cur THEN "RC" ELSE "rc"
    IN  {[sv |-> m.sv, sec |-> l.val[ca].sec] : m \in l.svmeas}

(***************************************************************************)
(* RD, receiver date.  The second before is saved when all the messages    *)
(* were seen, none was seen twice and the PC time is known (before the     *)
(* first RD it is not); then the date is read.  In a dual frequency log    *)
(* with too many P1 or P2 messages the handler returns before it has read  *)
(* the date.                                                               *)
(***************************************************************************)
JavadRD(l, ln) ==
    LET full == JavadComplete(l) /\ JavadOnce(l, {"rc", "RC"})
        many == full /\ ~JavadOnce(l, JavadRanges)
        s == IF full /\ ~many /\ l.svmeas # {} /\ l.pctime # 0 THEN Push(l, JavadRanged(l)) ELSE l
        d == IF ln.q = "ok" /\ ~many THEN [s EXCEPT !.val["RD"] = From(ln)] ELSE s
    IN  JavadStart(d, ln)

\* SI, satellite indices: a second one in a second voids it
JavadSI(l, ln) ==
    IF "SI" \in l.cur THEN JavadStart(l, ln)
    ELSE [Take(l, [ln EXCEPT !.q = "ok"]) EXCEPT !.svmeas = {[sv |-> s, sec |-> ln.sec] : s \in ln.svs}]

\* ~~ receiver time, TO time offset, YA smoothing offset, ZA sawtooth: an
\* outlier is assigned, but its bit is not set
JavadOffset(l, ln) == Take(l, ln)

\* The message has one item for each satellite of SI
JavadFits(l, ln) == ln.q = "ok" /\ Cardinality(ln.svs) = Cardinality(l.svmeas)

JavadSizedMsg(l, ln) == IF JavadFits(l, ln) THEN Take(l, ln) ELSE l

JavadRange(l, ln) ==
    IF (\A i \in JavadFull(ln.id) : l.cnt[i] = 0) /\ JavadFits(l, ln)
    THEN [Take(l, ln) EXCEPT !.cnt[ln.id] = @ + 1]
    ELSE l

\* IO ionosphere and UO leap seconds, the first of the file
JavadIO(l, ln) == IF ln.q = "ok" THEN [l EXCEPT !.got = @ \cup {"iono"}] ELSE l
JavadUO(l, ln) == IF ln.q = "ok" THEN [l EXCEPT !.got = @ \cup {"utc"}] ELSE l

\* The messages that are only parsed after the SI of the second
JavadListed(l, ln) ==
    CASE ln.id \in JavadSized  -> JavadSizedMsg(l, ln)
      [] ln.id \in JavadRanges -> JavadRange(l, ln)
      [] ln.id = "IO"          -> JavadIO(l, ln)
      [] ln.id = "UO"          -> JavadUO(l, ln)

\* A line that is not well formed, or not in the time wanted, is skipped
JavadRead(l, ln) ==
    IF ln.q = "bad" \/ ln.st \notin ReadFrom .. ReadTo THEN l
    ELSE CASE ln.id = "RD"           -> JavadRD(l, ln)
           [] ln.id = "SI"           -> JavadSI(l, ln)
           [] ln.id \in JavadOffsets -> JavadOffset(l, ln)
           [] OTHER                  -> IF "SI" \in l.cur THEN JavadListed(l, ln) ELSE l

JavadReturns(l) == {"iono", "utc"} \subseteq l.got
=============================================================================
