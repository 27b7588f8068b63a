----------------------------- MODULE Receivers ------------------------------
(***************************************************************************)
(* readLog() of the four receivers against the logs they really get: lines *)
(* that the logger dropped (a bad checksum, the receiver being polled),    *)
(* lines cut or damaged, data the receiver marks as invalid, lines stamped *)
(* in the next second of the PC.  The log is written line by line as it is *)
(* read: readLog() looks at nothing but the current line.                  *)
(***************************************************************************)
EXTENDS UbloxLog, JavadLog, NVSLog, ResolutionLog

CONSTANTS
    Models,         \* the receivers to consider
    JavadOrder,     \* the messages a Javad was configured to send, in order
    Views,          \* the sets of satellites that each may have in view
    Damage,         \* what can happen to a line
    MaxDamage       \* to at most so many lines

ASSUME ModelsAssumption ==
    /\ Models \subseteq {"ublox", "javad", "nvs", "resolution"}
    /\ Views \in [Models -> SUBSET SUBSET SVs]

\* "The Receiver Date message starts each second", each message is sent once, all that
\* are required are sent, and "Need the SI message to parse the following messages"
ASSUME JavadOrderAssumption ==
    /\ JavadOrder \in Seq(JavadIds)
    /\ Len(JavadOrder) > 0 /\ JavadOrder[1] = "RD"
    /\ \A i, j \in DOMAIN JavadOrder : i # j => JavadOrder[i] # JavadOrder[j]
    /\ {"SI"} \cup JavadOffsets \cup JavadSized \subseteq Range(JavadOrder)
    /\ \A s \in JavadSignals : s \cap Range(JavadOrder) # {}
    /\ \A i, j \in DOMAIN JavadOrder :
          JavadOrder[i] = "SI" /\ JavadOrder[j] \in JavadSized \cup JavadRanges => i < j

VARIABLES
    rx,         \* the receiver that wrote this log
    sec,        \* the second being logged
    svs,        \* the satellites it measures
    todo,       \* what is still to be logged of it: a sequence of sets of lines
    stamp,      \* the PC time of the last line
    seen,       \* the satellites of every second so far
    harmed,     \* the lines something happened to
    progress,      \* "reading", "done", or "aborted" by an exception
    l,          \* the locals of readLog()
    returned,   \* what readLog() returned
    saw         \* the sawtooth corrections after the pass over the measurements

readVars == <<rx, sec, svs, todo, stamp, seen, harmed, progress, l, returned, saw>>

----------------------------------------------------------------------------
\* What the receivers send each second: groups, in order; a group in any order
Sends(r, s) ==
    CASE r = "ublox" ->
            << {<<"0215", "-">>}, {<<"0d01", "-">>, <<"0121", "-">>, <<"0122", "-">>} >>
      [] r = "nvs" ->
            << {<<"46", "-">>, <<"F5", "-">>}, {<<"72", "-">>, <<"74", "-">>} >>
      [] r = "resolution" ->
            IF s = {} THEN << {<<"8fab", "-">>}, {<<"8fac", "-">>} >>
            ELSE << {<<"8fab", "-">>}, {<<"5a", v>> : v \in s}, {<<"8fac", "-">>} >>
      [] r = "javad" -> [i \in DOMAIN JavadOrder |-> {<<JavadOrder[i], "-">>}]

\* The messages with the leap seconds and the ionosphere
Parameters(r) ==
    CASE r = "ublox" -> {"0b02"} [] r = "javad" -> {"IO", "UO"}
      [] r = "nvs" -> {"4A", "4B"} [] r = "resolution" -> {"580204", "580205"}

\* The message that starts a second
Header(r) ==
    CASE r = "ublox" -> "0215" [] r = "javad" -> "RD" [] r = "nvs" -> "F5" [] r = "resolution" -> "8fab"

\* What damage has a meaning for a message
Suffers(r, id) ==
    Damage \cap ({"bad"} \cup (IF r = "resolution" \/ id = "SI" THEN {} ELSE {"size"})
        \cup (IF id \in {"0121", "TO", "YA", "ZA", "8fab"} THEN {"outlier"} ELSE {})
        \cup (IF id \in {"0215", "8fab", "5a", "8fac"} THEN {"short"} ELSE {}))

Fresh(r) ==
    CASE r = "ublox" -> UbloxLocals [] r = "javad" -> JavadLocals
      [] r = "nvs" -> NVSLocals [] r = "resolution" -> ResolutionLocals

ReadInit ==
    /\ rx \in Models
    /\ sec = 1
    /\ svs \in Views[rx]
    /\ todo = Sends(rx, svs)
    /\ stamp = 1
    /\ seen = <<svs>>
    /\ harmed = {}
    /\ progress = "reading"
    /\ l = Fresh(rx)
    /\ returned = FALSE
    /\ saw = << >>

----------------------------------------------------------------------------
\* How it is remembered: the kind matters for the message that starts a second
Harm(id, q) == IF id = Header(rx) /\ rx \in {"ublox", "javad"} THEN q ELSE "lost"

Without(it) ==
    IF todo[1] = {it} THEN Tail(todo) ELSE [todo EXCEPT ![1] = @ \ {it}]

May == Cardinality(harmed) < MaxDamage

\* What the loop of readLog() makes of line ln
ReadLine(ln) ==
    CASE rx = "ublox" -> UbloxRead(l, ln) [] rx = "javad" -> JavadRead(l, ln)
      [] rx = "nvs" -> NVSRead(l, ln)     [] rx = "resolution" -> ResolutionRead(l, ln)

Handle(ln) ==
    /\ l' = ReadLine(ln)
    /\ stamp' = ln.st
    /\ progress' = IF l'.abort THEN "aborted" ELSE "reading"
    /\ UNCHANGED <<rx, sec, svs, seen, returned, saw>>

\* The next line of the second, whole or harmed
NextLine ==
    /\ progress = "reading"
    /\ todo # << >>
    /\ \E it \in todo[1], late \in BOOLEAN : \E q \in {"ok"} \cup Suffers(rx, it[1]) :
          LET ln == [id |-> it[1], sec |-> sec, q |-> q, sv |-> it[2], svs |-> svs,
                     st |-> IF late \/ stamp > sec THEN sec + 1 ELSE sec]
              what == {[sec |-> sec, id |-> it[1], how |-> h] :
                          h \in (IF q = "ok" THEN {} ELSE {Harm(it[1], q)})
                                 \cup (IF ln.st > sec THEN {"late"} ELSE {})}
          IN  /\ late => "late" \in Damage /\ rx = "nvs" \* the others do not look at it
              /\ (q # "ok" \/ (late /\ stamp = sec)) => May
              /\ harmed' = harmed \cup what
              /\ todo' = Without(it)
              /\ Handle(ln)

\* A line with the parameters comes with the last messages of the last second
ParameterLine ==
    /\ progress = "reading"
    /\ Len(todo) = 1 /\ sec = LastSec
    /\ \E id \in Parameters(rx) :
          /\ Handle([id |-> id, sec |-> sec, st |-> stamp, q |-> "ok", sv |-> "-", svs |-> svs])
          /\ l'.got # l.got
    /\ UNCHANGED <<todo, harmed>>

UbloxLine      == rx = "ublox"      /\ (NextLine \/ ParameterLine)
JavadLine      == rx = "javad"      /\ (NextLine \/ ParameterLine)
NVSLine        == rx = "nvs"        /\ (NextLine \/ ParameterLine)
ResolutionLine == rx = "resolution" /\ (NextLine \/ ParameterLine)

\* The logger drops a line
Lose ==
    /\ progress = "reading" /\ todo # << >> /\ "lost" \in Damage /\ May
    /\ \E it \in todo[1] :
          /\ todo' = Without(it)
          /\ harmed' = harmed \cup {[sec |-> sec, id |-> it[1], how |-> "lost"]}
    /\ UNCHANGED <<rx, sec, svs, stamp, seen, progress, l, returned, saw>>

NextSec ==
    /\ progress = "reading" /\ todo = << >> /\ sec < LastSec
    /\ sec' = sec + 1
    /\ svs' \in Views[rx]
    /\ todo' = Sends(rx, svs')
    /\ stamp' = sec + 1
    /\ seen' = Append(seen, svs')
    /\ UNCHANGED <<rx, harmed, progress, l, returned, saw>>

\* After the last line: the result, and the pass over the sawtooth
EndOfFile ==
    /\ progress = "reading" /\ todo = << >> /\ sec = LastSec
    /\ progress' = IF rx = "nvs" /\ NVSThrows(l) THEN "aborted" ELSE "done"
    /\ returned' = CASE rx = "ublox" -> UbloxReturns(l) [] rx = "javad" -> JavadReturns(l)
                     [] rx = "nvs" -> NVSReturns(l) [] rx = "resolution" -> ResolutionReturns(l)
    /\ saw' = IF ~returned' \/ progress' = "aborted" THEN << >>
              ELSE CASE rx = "ublox" -> UbloxSawtooth(l) [] rx = "nvs" -> NVSSawtooth(l)
                     [] OTHER -> << >>
    /\ UNCHANGED <<rx, sec, svs, todo, stamp, seen, harmed, l>>

ReadNext == UbloxLine \/ JavadLine \/ NVSLine \/ ResolutionLine \/ Lose \/ NextSec \/ EndOfFile

ReadSpec == ReadInit /\ [][ReadNext]_readVars

----------------------------------------------------------------------------
Saved == {l.measurements[i] : i \in DOMAIN l.measurements}

\* The fields whose second matters, the date of Javad apart
Timed(r) ==
    CASE r = "ublox" -> UbloxReqd [] r = "nvs" -> NVSReqd [] r = "resolution" -> ResolutionIds
      [] r = "javad" -> {"SI"} \cup JavadOffsets \cup JavadSized

Anchor(r) == IF r = "javad" THEN "SI" ELSE Header(r)

\* The second of a measurement: that of its first message
SecondOf(m) == m.val[Anchor(rx)].sec

SecondsIn(m) == {m.val[i].sec : i \in Timed(rx)} \cup {v.sec : v \in m.meas}

Harmed(s, id, hows) == \E h \in harmed : h.sec = s /\ h.id = id /\ h.how \in hows

Gone(s, id) == Harmed(s, id, {"lost", "bad"})

(***************************************************************************)
(* The state: the record of locals has its shape, and what was saved comes *)
(* from seconds that were logged.  0 is a field that was never assigned,   *)
(* which only the first seconds of a Resolution log can have.              *)
(***************************************************************************)
ReadTypeOK ==
    /\ rx \in Models /\ sec \in Sec /\ stamp \in sec .. sec + 1
    /\ svs \in SUBSET SVs /\ seen \in [1 .. sec -> SUBSET SVs]
    /\ progress \in {"reading", "done", "aborted"} /\ returned \in BOOLEAN
    /\ l.got \subseteq {"iono", "utc"} /\ l.pctime \in 0 .. LastSec + 1
    /\ \A m \in Saved : m.meas # {} /\ SecondsIn(m) \subseteq 0 .. sec
    /\ rx # "resolution" => \A m \in Saved : 0 \notin SecondsIn(m)

(***************************************************************************)
(* The date and the PC time of a Javad measurement are those of the RD of  *)
(* its own second.  A stale date, which at midnight would put it a day     *)
(* early, is left by an RD of the wrong size, or by an RD that was lost    *)
(* after a second without SI or without RD (which leaves the PC time stale *)
(* too).  In a dual frequency log the date is also stale after a second    *)
(* that was neither begun nor ended: "Too many P1/2 messages" is found     *)
(* before the date is read.                                                *)
(***************************************************************************)
FreshDate ==
    rx = "javad" =>
        \A m \in Saved :
            LET s == SecondOf(m)
                lost == Gone(s, "RD") /\ (Gone(s - 1, "SI") \/ Gone(s - 1, "RD"))
                many == DualFrequency /\ Gone(s - 1, "RD") /\ Gone(s - 1, "SI")
            IN  /\ m.val["RD"].sec # s => lost \/ Harmed(s, "RD", {"size"}) \/ many
                /\ m.pc # s => lost

(***************************************************************************)
(* A Javad measurement of second a can have a message of a later second s  *)
(* only when neither RD nor SI of any second since were read, and one of   *)
(* an earlier second only when no RD was read since, and the earlier one   *)
(* had lost its SI, or its RD too (then its SI ended the one before).      *)
(***************************************************************************)
JavadMixes(s, a) ==
    IF s > a THEN \A t \in a + 1 .. s : Gone(t, "RD") /\ Gone(t, "SI")
    ELSE (\A t \in s + 1 .. a : Gone(t, "RD")) /\ (Gone(s, "SI") \/ Gone(s, "RD"))

(***************************************************************************)
(* A ReceiverMeasurement is made of one second: its pseudoranges, time,    *)
(* sawtooth and offsets belong together.  The gathering in readLog() is    *)
(* ended by the message that starts the next second, so a lost one can mix *)
(* two seconds.  ublox: only when 0215 was lost.  Javad: only when RD was  *)
(* lost and SI too, a second SI being a sign of a lost RD.  Resolution:    *)
(* only when 8fab was lost, and no satellite was measured in both seconds. *)
(* NVS: never, as far as the PC clock tells.  Its date is that second's.   *)
(***************************************************************************)
OneSecond ==
    /\ \A m \in Saved : \A s \in SecondsIn(m) \ {SecondOf(m)} :
          CASE rx = "ublox" -> Harmed(s, "0215", {"lost"})
            [] rx = "javad" -> JavadMixes(s, SecondOf(m))
            [] rx = "resolution" ->
                  /\ Gone(s, "8fab")
                  /\ \A v, w \in m.meas : v.sv = w.sv => v = w
            [] rx = "nvs" -> \A i \in NVSReqd : m.val[i].st = m.pc
    /\ FreshDate

(***************************************************************************)
(* A second is not lost for nothing: when all its lines and those of the   *)
(* next second are whole and in time, and a satellite was measured, it is  *)
(* saved, whatever happened before.  For NVS there must also be a          *)
(* satellite in the second before: the bits of a complete second without   *)
(* one are left set, and make the next one look like a duplicate.  A good  *)
(* second is lost when it has more satellites than readLog() thinks there  *)
(* can be: on a Resolution one more than MAX_CHANNELS, of any system, and  *)
(* on an NVS receiver all that there is room for.                          *)
(***************************************************************************)
\* The satellites of S that are saved: the Resolution's are those of GPS
Wanted(S) == IF rx = "resolution" THEN S \cap GPSSVs ELSE S

Crowded(S) ==
    \/ rx = "resolution" /\ Cardinality(S) > MaxChannels /\ Cardinality(Wanted(S)) >= MaxChannels
    \/ rx = "nvs" /\ Cardinality(S) >= MaxRaw

Whole(s) == \A h \in harmed : h.sec # s

NotLost ==
    \A s \in 1 .. sec - 1 :
        (/\ s = sec - 1 => todo # Sends(rx, svs)    \* the next second has begun
         /\ Whole(s) /\ Whole(s + 1) /\ Wanted(seen[s]) # {} /\ ~Crowded(seen[s])
         /\ progress # "aborted"
         /\ rx = "javad" => s >= ReadFrom /\ s < ReadTo
         /\ rx = "nvs" => s = 1 \/ (seen[s - 1] # {} /\ Whole(s - 1)))
        => \E m \in Saved : SecondOf(m) = s /\ {v.sv : v \in m.meas} = Wanted(seen[s])

(***************************************************************************)
(* No pseudorange is used twice: a satellite's measurement of one second   *)
(* is in one ReceiverMeasurement at most.                                  *)
(***************************************************************************)
UsedOnce ==
    \A i, j \in DOMAIN l.measurements :
        i # j => l.measurements[i].meas \cap l.measurements[j].meas = {}

(***************************************************************************)
(* After the pass, a measurement has the sawtooth that was given for its   *)
(* pulse, that of the second before, whenever that second was saved; and   *)
(* otherwise its own.  (Measurements that mix two seconds are excepted.)   *)
(***************************************************************************)
SawtoothOfPulse ==
    (progress = "done" /\ returned /\ (rx = "ublox" \/ (rx = "nvs" /\ NextSecond))) =>
        \A i \in DOMAIN saw :
            LET m == l.measurements[i]
                s == SecondOf(m)
            IN  (\A n \in Saved : Cardinality(SecondsIn(n)) = 1) =>
                    saw[i] = IF \E n \in Saved : SecondOf(n) = s - 1 THEN s - 1 ELSE s

=============================================================================
