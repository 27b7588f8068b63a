---------------------------- MODULE ReceiverLog ----------------------------
(***************************************************************************)
(* What the four readLog() of mktimetx have in common.  A receiver log is  *)
(* a text file of lines "message-id PC-time data".  Every second the       *)
(* receiver sends a group of messages; readLog() gathers their fields in   *)
(* local variables and makes one ReceiverMeasurement of each second.       *)
(*                                                                         *)
(* A field is abstracted to the second it was measured in and the PC time  *)
(* of the line it came in.  The locals of readLog() are one record, and    *)
(* each message handler (modules UbloxLog, JavadLog, NVSLog,               *)
(* ResolutionLog) is an operator from that record and a line to the next   *)
(* one.                                                                    *)
(***************************************************************************)
EXTENDS Naturals, Sequences, FiniteSets, SequencesExt

CONSTANTS
    SVs,        \* the satellites a receiver may track
    LastSec     \* the seconds 1 .. LastSec are logged

ASSUME LogAssumption == LastSec \in Nat \ {0} /\ IsFiniteSet(SVs)

(***************************************************************************)
(* What may have happened to a line: "ok"; "bad", its three columns cannot *)
(* be read; "size", the data have not the size the message should have;    *)
(* "outlier", the data say they are not valid (or are out of range);       *)
(* "short", the data stop before the fields that are needed.               *)
(***************************************************************************)
Quality == {"ok", "bad", "size", "outlier", "short"}

Sec == 1 .. LastSec

Line == [id: STRING, sec: Sec, st: Sec \cup {LastSec + 1}, q: Quality,
         sv: SVs \cup {"-"}, svs: SUBSET SVs]

Unset == [sec |-> 0, st |-> 0]

From(ln) == [sec |-> ln.sec, st |-> ln.st]

\* deleteMeasurements(), and vector::clear()
deleteMeasurements(l) == [l EXCEPT !.svmeas = {}]

\* The locals of readLog() before the first line; ids are the messages it needs
Locals(ids) ==
    [cur |-> {}, svmeas |-> {}, val |-> [i \in ids |-> Unset], pctime |-> 0,
     got |-> {}, dup |-> FALSE, cnt |-> [i \in ids |-> 0],
     useData |-> TRUE, abort |-> FALSE, measurements |-> << >>]

\* The data of a message are assigned and its bit is set in currentMsgs
Take(l, ln) ==
    CASE ln.q = "ok"      -> [l EXCEPT !.cur = @ \cup {ln.id}, !.val[ln.id] = From(ln)]
      [] ln.q = "outlier" -> [l EXCEPT !.val[ln.id] = From(ln)]
      [] OTHER            -> l

\* A ReceiverMeasurement is pushed with the pseudoranges ms
Push(l, ms) ==
    [l EXCEPT !.measurements = Append(@, [meas |-> ms, val |-> l.val, pc |-> l.pctime])]

(***************************************************************************)
(* The sawtooth correction the receiver gives in one second is that of the *)
(* next pulse.  The pass over the finished sequence takes the correction   *)
(* of the measurement before when that is exactly one second earlier, and  *)
(* leaves its own otherwise.  saw and utc are the corrections and the      *)
(* times mktime() makes of tmUTC, of each measurement in turn.             *)
(***************************************************************************)
Realigned(saw, utc) ==
    [i \in DOMAIN saw |-> IF i > 1 /\ utc[i] = utc[i - 1] + 1 THEN saw[i - 1] ELSE saw[i]]

\* The second that message id belongs to, of each measurement
SecondsOf(id, ms) == [i \in DOMAIN ms |-> ms[i].val[id].sec]
=============================================================================
