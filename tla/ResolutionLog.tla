--------------------------- MODULE ResolutionLog ----------------------------
(***************************************************************************)
(* TrimbleResolution::readLog().  8fab starts a second, one 5a per         *)
(* satellite follows, and 8fac ends it.                                    *)
(***************************************************************************)
EXTENDS ReceiverLog

CONSTANTS
    MaxChannels,    \* MAX_CHANNELS
    GPSSVs          \* the satellites with numbers up to 32

\* The receiver may have more channels: 32 in the SMT 360
ASSUME ChannelsAssumption == MaxChannels \in Nat /\ GPSSVs \subseteq SVs

ResolutionIds == {"8fab", "8fac"}

ResolutionLocals == Locals(ResolutionIds)

ResolutionComplete(l) == "8fac" \in l.cur /\ l.svmeas # {} /\ l.useData

\* (Mutant) a spoiled second is not followed by a good one
Resolution8fabSpoiled(l, ln) ==
    LET s == IF ResolutionComplete(l) THEN [Push(l, l.svmeas) EXCEPT !.cur = {}] ELSE l
    IN  [s EXCEPT !.useData = @ /\ ln.q # "outlier", !.svmeas = {}, !.cur = {},
                  !.pctime = ln.st, !.val["8fab"] = From(ln)]

(***************************************************************************)
(* 8fab, primary time: saves the second before, then starts the new one,   *)
(* unless the GPS time is not set ("outlier").  got8FAC is reset only by   *)
(* saving and by starting.                                                 *)
(***************************************************************************)
Resolution8fab(l, ln) ==
    LET s == IF ResolutionComplete(l) THEN [Push(l, l.svmeas) EXCEPT !.cur = {}] ELSE l
    IN  IF ln.q = "outlier"
        THEN [s EXCEPT !.useData = FALSE, !.svmeas = {}]
        ELSE [s EXCEPT !.useData = TRUE, !.svmeas = {}, !.cur = {},
                       !.pctime = ln.st, !.val["8fab"] = From(ln)]

\* (Mutant) without the look for a second pseudorange of a satellite.
Resolution5aAny(l, ln) ==
    LET n == [l EXCEPT !.useData = @ /\ Cardinality(l.svmeas) < MaxChannels]
    IN  IF ln.sv \notin GPSSVs THEN n
        ELSE [n EXCEPT !.svmeas = @ \cup {[sv |-> ln.sv, sec |-> ln.sec]}]

(***************************************************************************)
(* 5a, one pseudorange.  One that comes when MAX_CHANNELS are gathered     *)
(* spoils the second, also when it is not of GPS; those of GPS are         *)
(* gathered.  A second one of the same satellite spoils the second too,    *)
(* and drops those gathered.                                               *)
(***************************************************************************)
Resolution5a(l, ln) ==
    LET n == [l EXCEPT !.useData = @ /\ Cardinality(l.svmeas) < MaxChannels]
    IN  IF ln.sv \notin GPSSVs THEN n
        ELSE IF \E m \in l.svmeas : m.sv = ln.sv
        THEN [n EXCEPT !.useData = FALSE, !.svmeas = {}]
        ELSE [n EXCEPT !.svmeas = @ \cup {[sv |-> ln.sv, sec |-> ln.sec]}]

\* 8fac, secondary time: the sawtooth and the receiver offset
Resolution8fac(l, ln) == Take(l, [ln EXCEPT !.q = "ok"])

Resolution580204(l, ln) == IF ln.q = "ok" THEN [l EXCEPT !.got = @ \cup {"iono"}] ELSE l
Resolution580205(l, ln) == IF ln.q = "ok" THEN [l EXCEPT !.got = @ \cup {"utc"}] ELSE l

\* A line that cannot be read is skipped; the data of 8fab, 5a and 8fac are
\* indexed without a look at their size, and a short one throws
ResolutionRead(l, ln) ==
    IF ln.q = "bad" THEN l
    ELSE IF ln.q = "short" /\ ln.id \in {"8fab", "5a", "8fac"} THEN [l EXCEPT !.abort = TRUE]
    ELSE CASE ln.id = "8fab"   -> Resolution8fab(l, ln)
           [] ln.id = "5a"     -> Resolution5a(l, ln)
           [] ln.id = "8fac"   -> Resolution8fac(l, ln)
           [] ln.id = "580204" -> Resolution580204(l, ln)
           [] ln.id = "580205" -> Resolution580205(l, ln)

ResolutionReturns(l) == {"iono", "utc"} \subseteq l.got
=============================================================================
