--------------------------- MODULE MktimetxProofs ---------------------------
(***************************************************************************)
(* What is proved of mktimetx: of the pairing of the counter's readings    *)
(* with the receiver's and the files written of the pairs (TimeTransfer),  *)
(* and of the four readLog() that make the receiver's measurements         *)
(* (Receivers).                                                            *)
(*                                                                         *)
(* The pairs: for a day of any length, any steps of the PC clock and any   *)
(* number of lost and late readings.  The invariant says exactly what the  *)
(* two files hold: a reading of every second that was not lost, stamped    *)
(* with what the PC clock said.  Two readings of different seconds can     *)
(* only be a pair when the one that would have made a duplicate with each  *)
(* of them is not in its file.                                             *)
(*                                                                         *)
(* The files: what a loop over the seconds of a track or a day has written *)
(* so far is a list of the points of its grid that had a pair, and what it *)
(* looks for is the next point.                                            *)
(*                                                                         *)
(* The logs: for a log of any length, any satellites, and any number of    *)
(* lost, cut, damaged and late lines.  For each receiver the invariant     *)
(* says which second what readLog() has gathered can come from, given the  *)
(* lines that were lost, that it is later than all that was saved, and     *)
(* that a whole second is gathered in full until the line that saves it.   *)
(***************************************************************************)
EXTENDS TimeTransfer, Receivers, SequenceTheorems, FiniteSetTheorems, TLAPS

-----------------------------------------------------------------------------

Past == 0 .. now - 1

Types ==
  /\ now \in 0 .. Day /\ shift \in Shifts /\ shift \in Int
  /\ phase \in {"logging", "matched", "tracked", "written", "crashed"}
  /\ clock \in [Past -> Int]
  /\ counterLost \subseteq Past /\ receiverLost \subseteq Past /\ receiverLate \subseteq Past
  /\ stepped \in Nat

\* What a file holds of the seconds before n: of those that were not lost, with the stamps
\* of those that came late one more
Kept(n, clk, lost, late) ==
  {e \in Entry : /\ e.t \in (0 .. n - 1) \ lost
                 /\ e.pc = clk[e.t] + IF e.t \in late THEN 1 ELSE 0}

FilesInv == /\ counterFile = Kept(now, clock, counterLost, {})
            /\ receiverFile = Kept(now, clock, receiverLost, receiverLate)

\* A clock that was never stepped
SteadyInv == stepped = 0 => shift = 0 /\ \A t \in Past : clock[t] = t

CounterRead  == Read(counterFile, StartTime, SloppyStop)
ReceiverRead == Read(receiverFile, SloppyStart, SloppyStop)

\* The pairs are made of the files of the whole day, which do not change after it.
MatchedInv ==
  IF phase = "logging" THEN mpairs = [s \in Seconds |-> NoPair]
  ELSE now = Day /\ mpairs = matchMeasurements(CounterRead, ReceiverRead)

IInv == Types /\ FilesInv /\ SteadyInv /\ MatchedInv

-----------------------------------------------------------------------------
(* Logging *)

LEMMA Passing ==
  ASSUME Types, Pass
  PROVE  /\ now \in Nat /\ now \in Seconds /\ now' = now + 1 /\ Past' = Past \cup {now}
         /\ now \notin Past /\ Past' \subseteq Seconds
         /\ now' \in 0 .. Day /\ shift' = shift /\ shift \in Int /\ stepped' \in Nat
         /\ clock' \in [Past' -> Int] /\ clock'[now] = now + shift
         /\ \A t \in Past : clock'[t] = clock[t]
<1>1. now \in Nat /\ now \in Seconds /\ now' = now + 1 /\ Day \in Nat /\ shift \in Int
  BY DayAssumption DEF Types, Pass, Seconds
<1>2. Past' = Past \cup {now} /\ now \notin Past /\ Past' = 0 .. now /\ Past' \subseteq Seconds
  BY <1>1 DEF Past, Seconds
<1>3. clock' = [t \in Past' |-> IF t = now THEN now + shift ELSE clock[t]]
  BY <1>2 DEF Pass
<1>4. clock' \in [Past' -> Int] /\ clock'[now] = now + shift
  BY <1>1, <1>2, <1>3 DEF Types
<1>5. \A t \in Past : clock'[t] = clock[t]
  BY <1>2, <1>3
<1> QED  BY <1>1, <1>2, <1>4, <1>5 DEF Types, Pass, Seconds

\* Nothing of what was logged before changes, and a reading of now is added to the file as
\* it is stamped.
LEMMA KeptReading ==
  ASSUME Types, Pass, NEW lost \in SUBSET Past, NEW late \in SUBSET Past,
         NEW later \in SUBSET {now}
  PROVE  Kept(now', clock', lost, late \cup later) =
           Kept(now, clock, lost, late)
             \cup Logged(now + shift + IF now \in later THEN 1 ELSE 0, now)
<1> DEFINE pc  == now + shift + IF now \in later THEN 1 ELSE 0
           new == Kept(now', clock', lost, late \cup later)
           old == Kept(now, clock, lost, late)
<1>1. /\ now \in Seconds /\ 0 .. now' - 1 = Past \cup {now} /\ now \notin Past
      /\ clock'[now] = now + shift /\ \A t \in Past : clock'[t] = clock[t]
  BY Passing DEF Past
<1>2. ASSUME NEW e \in Entry, e.t = now
      PROVE  e \in new <=> e \in Logged(pc, now)
  <2>1. e = [pc |-> e.pc, t |-> now] /\ e.pc \in Seconds
    BY <1>2 DEF Entry
  <2>2. now \notin lost /\ now \notin late
    BY <1>1
  <2>3. e \in new <=> e.pc = pc
    BY <1>1, <1>2, <2>2 DEF Kept
  <2>4. e \in Logged(pc, now) <=> e.pc = pc
    BY <2>1 DEF Logged
  <2> QED  BY <2>3, <2>4
<1>3. ASSUME NEW e \in Entry, e.t # now PROVE e \in new <=> e \in old
  BY <1>1, <1>3 DEF Kept, Past
<1>4. new \subseteq Entry /\ old \subseteq Entry /\ \A e \in old : e.t # now
  BY <1>1 DEF Kept, Past
<1>5. Logged(pc, now) \subseteq Entry /\ \A e \in Logged(pc, now) : e.t = now
  BY <1>1 DEF Logged, Entry
<1> HIDE DEF new, old, pc
<1>6. new = old \cup Logged(pc, now)
  BY <1>2, <1>3, <1>4, <1>5
<1> QED  BY <1>6 DEF new, old, pc

\* A reading of now that is lost
LEMMA KeptLost ==
  ASSUME Types, Pass, NEW lost \in SUBSET Past, NEW late \in SUBSET Past
  PROVE  Kept(now', clock', lost \cup {now}, late) = Kept(now, clock, lost, late)
<1>1. /\ 0 .. now' - 1 = Past \cup {now} /\ now \notin Past
      /\ \A t \in Past : clock'[t] = clock[t]
  BY Passing DEF Past
<1>2. \A e \in Entry : e.t \in (0 .. now' - 1) \ (lost \cup {now}) <=> e.t \in Past \ lost
  BY <1>1
<1>3. \A e \in Entry : e.t \in Past \ lost => clock'[e.t] = clock[e.t]
  BY <1>1
<1> QED  BY <1>2, <1>3 DEF Kept, Past

LEMMA PassIInv ==
  ASSUME IInv, Pass, FilesInv',
         counterLost' \subseteq Past', receiverLost' \subseteq Past', receiverLate' \subseteq Past'
  PROVE  IInv'
<1>1. Types'
  BY Passing DEF IInv, Types, Pass
<1>2. SteadyInv'
  <2> SUFFICES ASSUME stepped' = 0 PROVE shift' = 0 /\ \A t \in Past' : clock'[t] = t
    BY DEF SteadyInv
  <2>1. stepped = 0 /\ shift = 0 /\ shift' = 0 /\ \A t \in Past : clock[t] = t
    BY DEF IInv, SteadyInv, Pass
  <2>2. clock'[now] = now
    BY <2>1, Passing DEF IInv
  <2> QED  BY <2>1, <2>2, Passing DEF IInv
<1>3. MatchedInv'
  BY DEF IInv, MatchedInv, Pass
<1> QED  BY <1>1, <1>2, <1>3 DEF IInv

LEMMA LogIInv == IInv /\ Log => IInv'
<1> SUFFICES ASSUME IInv, Log PROVE IInv'
  OBVIOUS
<1>1. /\ Types /\ FilesInv /\ now + shift \in Int
      /\ counterLost \in SUBSET Past /\ receiverLost \in SUBSET Past /\ receiverLate \in SUBSET Past
  BY DayAssumption DEF IInv, Types
<1>2. Pass => Past' = Past \cup {now} /\ now \notin Past
  BY <1>1, Passing
<1>3. ASSUME Pass PROVE Kept(now', clock', counterLost, {})
                          = Kept(now, clock, counterLost, {}) \cup Logged(now + shift, now)
  <2>1. Kept(now', clock', counterLost, {} \cup {})
              = Kept(now, clock, counterLost, {})
                  \cup Logged(now + shift + IF now \in {} THEN 1 ELSE 0, now)
    BY <1>1, <1>3, KeptReading
  <2>2. {} \cup {} = {} /\ now + shift + (IF now \in {} THEN 1 ELSE 0) = now + shift
    BY <1>1
  <2> QED  BY <2>1, <2>2
<1>4. ASSUME Pass PROVE Kept(now', clock', receiverLost, receiverLate)
              = Kept(now, clock, receiverLost, receiverLate) \cup Logged(now + shift, now)
  <2>1. Kept(now', clock', receiverLost, receiverLate \cup {})
              = Kept(now, clock, receiverLost, receiverLate)
                  \cup Logged(now + shift + IF now \in {} THEN 1 ELSE 0, now)
    BY <1>1, <1>4, KeptReading
  <2>2. /\ receiverLate \cup {} = receiverLate
        /\ now + shift + (IF now \in {} THEN 1 ELSE 0) = now + shift
    BY <1>1
  <2> QED  BY <2>1, <2>2
<1>5. CASE Second
  <2>1. FilesInv'
    BY <1>1, <1>3, <1>4, <1>5 DEF Second, FilesInv
  <2> QED  BY <1>1, <1>2, <1>5, <2>1, PassIInv DEF Second
<1>6. CASE LoseCounter
  <2>1. Kept(now', clock', counterLost \cup {now}, {}) = Kept(now, clock, counterLost, {})
    BY <1>1, <1>6, KeptLost DEF LoseCounter
  <2>2. FilesInv'
    BY <1>1, <1>4, <1>6, <2>1 DEF LoseCounter, FilesInv
  <2> QED  BY <1>1, <1>2, <1>6, <2>2, PassIInv DEF LoseCounter
<1>7. CASE LoseReceiver
  <2>1. Kept(now', clock', receiverLost \cup {now}, receiverLate)
          = Kept(now, clock, receiverLost, receiverLate)
    BY <1>1, <1>7, KeptLost DEF LoseReceiver
  <2>2. FilesInv'
    BY <1>1, <1>3, <1>7, <2>1 DEF LoseReceiver, FilesInv
  <2> QED  BY <1>1, <1>2, <1>7, <2>2, PassIInv DEF LoseReceiver
<1>8. CASE LateReceiver
  <2>1. Kept(now', clock', receiverLost, receiverLate \cup {now})
          = Kept(now, clock, receiverLost, receiverLate)
              \cup Logged(now + shift + IF now \in {now} THEN 1 ELSE 0, now)
    BY <1>1, <1>8, KeptReading DEF LateReceiver
  <2>2. now + shift + (IF now \in {now} THEN 1 ELSE 0) = now + shift + 1
    OBVIOUS
  <2>3. FilesInv'
    BY <1>1, <1>3, <1>8, <2>1, <2>2 DEF LateReceiver, FilesInv
  <2> QED  BY <1>1, <1>2, <1>8, <2>3, PassIInv DEF LateReceiver
<1>9. ASSUME NEW d \in Shifts, StepClock(d) PROVE IInv'
  <2>1. /\ stepped' = stepped + 1 /\ shift' \in Shifts /\ shift' \in Int /\ phase' = "logging" /\ phase = "logging"
        /\ UNCHANGED <<now, clock, counterFile, receiverFile, counterLost, receiverLost,
                       receiverLate, mpairs>>
    BY <1>9, ShiftsAssumption DEF StepClock
  <2>2. Types' /\ FilesInv' /\ MatchedInv'
    BY <2>1 DEF IInv, Types, FilesInv, MatchedInv, Past
  <2>3. SteadyInv'
    BY <2>1 DEF IInv, Types, SteadyInv
  <2> QED  BY <2>2, <2>3 DEF IInv
<1> QED  BY <1>5, <1>6, <1>7, <1>8, <1>9 DEF Log

-----------------------------------------------------------------------------
(* After the day *)

LEMMA MatchIInv == IInv /\ Match => IInv'
BY DEF IInv, Types, FilesInv, SteadyInv, MatchedInv, Match, logVars, Past, CounterRead, ReceiverRead

LEMMA WriteIInv ==
  ASSUME IInv, phase # "logging", phase' \in {"tracked", "written", "crashed"},
         UNCHANGED <<logVars, mpairs>>
  PROVE  IInv'
BY DEF IInv, Types, FilesInv, SteadyInv, MatchedInv, logVars, Past, CounterRead, ReceiverRead

LEMMA InitIInv == Init => IInv
<1> SUFFICES ASSUME Init PROVE IInv
  OBVIOUS
<1>1. /\ now = 0 /\ shift = 0 /\ stepped = 0 /\ phase = "logging" /\ clock = [t \in {} |-> 0]
      /\ counterFile = {} /\ receiverFile = {} /\ counterLost = {} /\ receiverLost = {}
      /\ receiverLate = {} /\ mpairs = [s \in Seconds |-> NoPair]
  BY DEF Init, PairsInit
<1>2. Past = {} /\ 0 \in 0 .. Day /\ 0 .. now - 1 = {}
  BY <1>1, DayAssumption DEF Past
<1>3. Types
  BY <1>1, <1>2, ShiftsAssumption DEF Types
<1>4. FilesInv
  BY <1>1, <1>2 DEF FilesInv, Kept
<1> QED  BY <1>1, <1>2, <1>3, <1>4 DEF IInv, SteadyInv, MatchedInv

LEMMA StepIInv == IInv /\ [Next]_vars => IInv'
<1> SUFFICES ASSUME IInv, [Next]_vars PROVE IInv'
  OBVIOUS
<1>1. CASE UNCHANGED vars
  BY <1>1 DEF vars, logVars, IInv, Types, FilesInv, SteadyInv, MatchedInv, Past, CounterRead,
              ReceiverRead
<1>2. ASSUME NEW ver \in {"V1", "V2E"}, WriteCGGTTS(ver) PROVE IInv'
  BY <1>2, WriteIInv DEF WriteCGGTTS
<1>3. ASSUME NEW p3 \in BOOLEAN, NEW ed \in {"none", "unhealthy"}, WriteNoTrack(p3, ed) PROVE IInv'
  <2>1. phase' \in {"crashed", "tracked"}
    BY <1>3 DEF WriteNoTrack
  <2> QED  BY <1>3, <2>1, WriteIInv DEF WriteNoTrack
<1>4. CASE WriteRINEX
  BY <1>4, WriteIInv DEF WriteRINEX
<1> QED  BY <1>1, <1>2, <1>3, <1>4, LogIInv, MatchIInv DEF Next

\* The invariant of which the others are consequences.
THEOREM InductiveInvariant == Spec => []IInv
BY InitIInv, StepIInv, PTL DEF Spec

-----------------------------------------------------------------------------
(* The pairs *)

\* A pair has one reading of each, and no other has their stamp.
LEMMA PairOf ==
  ASSUME NEW C, NEW R, Matching(PairAt(C, R).flags)
  PROVE  C = {PairAt(C, R).cm} /\ R = {PairAt(C, R).rm}
<1>1. PairAt(C, R).flags = FlagsAt(C, R)
  BY DEF PairAt
<1>2. FlagsAt(C, R) = {"counter", "receiver"}
  BY <1>1 DEF Matching
<1>3. C # {} /\ R # {} /\ (\A c, d \in C : c = d) /\ (\A c, d \in R : c = d)
  BY <1>2 DEF FlagsAt, Flags
<1>4. /\ PairAt(C, R).cm = CHOOSE c \in C : TRUE
      /\ PairAt(C, R).rm = CHOOSE r \in R : TRUE
  BY <1>1, <1>2 DEF PairAt, Matching
<1> QED  BY <1>3, <1>4

\* One of each makes a pair.
LEMMA OneOfEach ==
  ASSUME NEW c, NEW r
  PROVE  Matching(PairAt({c}, {r}).flags) /\ PairAt({c}, {r}).cm = c /\ PairAt({c}, {r}).rm = r
<1>1. FlagsAt({c}, {r}) = {"counter", "receiver"}
  BY DEF FlagsAt, Flags
<1>2. (CHOOSE x \in {c} : TRUE) = c /\ (CHOOSE x \in {r} : TRUE) = r
  OBVIOUS
<1>3. PairAt({c}, {r}) = [flags |-> FlagsAt({c}, {r}), cm |-> c, rm |-> r]
  BY <1>1, <1>2, Zenon DEF PairAt, Matching
<1>4. \A f, p : p = [flags |-> f, cm |-> c, rm |-> r] => p.flags = f /\ p.cm = c /\ p.rm = r
  OBVIOUS
<1>5. /\ PairAt({c}, {r}).flags = FlagsAt({c}, {r})
      /\ PairAt({c}, {r}).cm = c /\ PairAt({c}, {r}).rm = r
  BY <1>3, <1>4, Zenon
<1> QED  BY <1>1, <1>5, Zenon DEF Matching

LEMMA InPair ==
  ASSUME IInv, NEW s \in Paired
  PROVE  /\ s \in Seconds
         /\ At(CounterRead, s) = {mpairs[s].cm} /\ At(ReceiverRead, s) = {mpairs[s].rm}
<1>1. s \in Seconds /\ Matching(mpairs[s].flags)
  BY DEF Paired
<1>2. mpairs = matchMeasurements(CounterRead, ReceiverRead)
  <2>1. CASE phase = "logging"
    <3>1. mpairs[s].flags = {}
      BY <1>1, <2>1 DEF IInv, MatchedInv, NoPair
    <3> QED  BY <1>1, <3>1 DEF Matching
  <2> QED  BY <2>1 DEF IInv, MatchedInv
<1>3. mpairs[s] = PairAt(At(CounterRead, s), At(ReceiverRead, s))
  BY <1>1, <1>2 DEF matchMeasurements
<1> QED  BY <1>1, <1>3, PairOf

\* The PC clock said s at the seconds of both readings; a reading of either instrument at the
\* other's second would have the same stamp, and be read too.
LEMMA InvOneSecond == IInv => OneSecondPairs
<1> SUFFICES ASSUME IInv, NEW s \in Paired
             PROVE  LET c == mpairs[s].cm.t
                        r == mpairs[s].rm.t
                    IN  \/ c = r
                        \/ r \in receiverLate
                        \/ r \in counterLost /\ c \in receiverLost \cup receiverLate
  BY DEF OneSecondPairs
<1> DEFINE cm == mpairs[s].cm
           rm == mpairs[s].rm
<1>1. s \in Seconds /\ At(CounterRead, s) = {cm} /\ At(ReceiverRead, s) = {rm}
  BY InPair
<1> HIDE DEF cm, rm
<1>2. /\ cm \in counterFile /\ cm.pc = s /\ s \in StartTime .. SloppyStop
      /\ rm \in receiverFile /\ rm.pc = s /\ s \in SloppyStart .. SloppyStop
  <2>1. cm \in At(CounterRead, s) /\ rm \in At(ReceiverRead, s)
    BY <1>1
  <2> QED  BY <2>1 DEF At, CounterRead, ReceiverRead, Read
<1>3. /\ \A e \in counterFile : e.pc = s => e = cm
      /\ \A e \in receiverFile : e.pc = s => e = rm
  <2>1. /\ \A e \in counterFile : e.pc = s => e \in At(CounterRead, s)
        /\ \A e \in receiverFile : e.pc = s => e \in At(ReceiverRead, s)
    BY <1>2 DEF At, CounterRead, ReceiverRead, Read
  <2> QED  BY <1>1, <2>1
<1>4. /\ cm \in Entry /\ cm.t \in Past \ counterLost /\ clock[cm.t] = s
      /\ rm \in Entry /\ rm.t \in Past \ receiverLost
      /\ rm.t \notin receiverLate => clock[rm.t] = s
  BY <1>2, SMTT(30) DEF IInv, Types, FilesInv, Kept, Past
<1>5. ASSUME rm.t \notin receiverLate, rm.t \notin counterLost PROVE cm.t = rm.t
  <2> DEFINE e == [pc |-> s, t |-> rm.t]
  <2>1. e \in Entry /\ e.pc = s /\ e.t = rm.t
    BY <1>1, <1>4 DEF Entry
  <2> HIDE DEF e
  <2>2. e \in counterFile
    BY <1>1, <1>4, <1>5, <2>1 DEF IInv, FilesInv, Kept, Past, Seconds
  <2> QED  BY <1>3, <2>1, <2>2
<1>6. ASSUME cm.t \notin receiverLate, cm.t \notin receiverLost PROVE cm.t = rm.t
  <2> DEFINE e == [pc |-> s, t |-> cm.t]
  <2>1. e \in Entry /\ e.pc = s /\ e.t = cm.t
    BY <1>1, <1>4 DEF Entry
  <2> HIDE DEF e
  <2>2. e \in receiverFile
    BY <1>1, <1>4, <1>6, <2>1 DEF IInv, FilesInv, Kept, Past, Seconds
  <2> QED  BY <1>3, <2>1, <2>2
<1> QED  BY <1>5, <1>6 DEF cm, rm

\* The types of the logs and the pairs.
THEOREM PairsTyped == Spec => []PairsTypeOK
<1>1. IInv => PairsTypeOK
  <2> SUFFICES ASSUME IInv PROVE PairsTypeOK
    OBVIOUS
  <2>1. counterFile \subseteq Entry /\ receiverFile \subseteq Entry
    BY DEF IInv, FilesInv, Kept
  <2>2. DOMAIN mpairs = Seconds /\ \A s \in Seconds : mpairs[s].flags \subseteq Flags
    <3>1. \A C, R : PairAt(C, R).flags = FlagsAt(C, R) /\ FlagsAt(C, R) \subseteq Flags
      BY DEF PairAt, FlagsAt
    <3>2. CASE phase = "logging"
      BY <3>2 DEF IInv, MatchedInv, NoPair
    <3>3. CASE phase # "logging"
      <4>1. /\ DOMAIN mpairs = Seconds
            /\ \A s \in Seconds : mpairs[s] = PairAt(At(CounterRead, s), At(ReceiverRead, s))
        BY <3>3 DEF IInv, MatchedInv, matchMeasurements
      <4> QED  BY <3>1, <4>1
    <3> QED  BY <3>2, <3>3
  <2>3. ASSUME NEW s \in Seconds, Matching(mpairs[s].flags)
        PROVE  mpairs[s].cm \in Entry /\ mpairs[s].rm \in Entry
    <3>1. /\ mpairs[s].cm \in At(CounterRead, s) /\ mpairs[s].rm \in At(ReceiverRead, s)
      BY <2>3, InPair DEF Paired
    <3> QED  BY <2>1, <3>1 DEF At, CounterRead, ReceiverRead, Read
  <2> QED  BY <2>1, <2>2, <2>3 DEF IInv, Types, Past, PairsTypeOK
<1> QED  BY <1>1, InductiveInvariant, PTL

\* The readings of a pair are of the same second of true time; or the receiver's came late; or
\* the counter has no reading of the receiver's second and the receiver none of the counter's.
THEOREM PairsOfOneSecond == Spec => []OneSecondPairs
BY InductiveInvariant, InvOneSecond, PTL

-----------------------------------------------------------------------------
(* A steady clock *)

\* Every second of the window that is read, not lost and neither late nor after a late one
\* is a pair.
SteadyWindow ==
  (phase # "logging" /\ shift = 0 /\ stepped = 0)
      => \A t \in (Seconds \cap (StartTime .. SloppyStop)) \ (counterLost \cup receiverLost) :
            \/ t \in receiverLate \/ t - 1 \in receiverLate
            \/ t \in Paired /\ mpairs[t].rm.t = t /\ mpairs[t].cm.t = t

LEMMA WindowsInside == /\ StartTime \in Int /\ SloppyStart \in Int /\ SloppyStop \in Int
                       /\ SloppyStart <= StartTime
BY DayAssumption, WindowAssumption DEF SloppyStart, SloppyStop

LEMMA InvSteady == IInv => SteadyWindow
<1> SUFFICES ASSUME IInv, phase # "logging", shift = 0, stepped = 0,
                    NEW t \in Seconds, t \in StartTime .. SloppyStop,
                    t \notin counterLost, t \notin receiverLost, t \notin receiverLate,
                    t - 1 \notin receiverLate
             PROVE  t \in Paired /\ mpairs[t].rm.t = t /\ mpairs[t].cm.t = t
  BY DEF SteadyWindow
<1> DEFINE e == [pc |-> t, t |-> t]
<1>1. /\ Past = Seconds /\ t \in Int
      /\ mpairs = matchMeasurements(CounterRead, ReceiverRead)
  BY DayAssumption DEF IInv, MatchedInv, Past, Seconds
<1>2. t \in SloppyStart .. SloppyStop
  BY <1>1, WindowsInside
<1>3. e \in Entry /\ e.pc = t /\ e.t = t /\ \A f \in Entry : f.pc = t /\ f.t = t => f = e
  BY DEF Entry
<1> HIDE DEF e
\* What the files hold, with this clock
<1>4. ASSUME NEW u \in Past PROVE u \in Int /\ clock[u] + 0 = u /\ clock[u] + 1 = u + 1
  BY <1>4 DEF IInv, Types, SteadyInv, Past
<1>5. /\ counterFile = {f \in Entry : f.t \in Past \ counterLost /\ f.pc = f.t}
      /\ receiverFile = {f \in Entry : /\ f.t \in Past \ receiverLost
                                       /\ f.pc = IF f.t \in receiverLate THEN f.t + 1 ELSE f.t}
  <2>1. \A f \in Entry : f.t \in Past \ counterLost =>
          clock[f.t] + (IF f.t \in {} THEN 1 ELSE 0) = f.t
    BY <1>4
  <2>2. \A f \in Entry : f.t \in Past \ receiverLost =>
          clock[f.t] + (IF f.t \in receiverLate THEN 1 ELSE 0)
            = IF f.t \in receiverLate THEN f.t + 1 ELSE f.t
    BY <1>4
  <2> QED  BY <2>1, <2>2 DEF IInv, FilesInv, Kept, Past
<1>6. At(CounterRead, t) = {e}
  <2>1. e \in counterFile /\ \A f \in counterFile : f.pc = t => f = e
    BY <1>1, <1>3, <1>5
  <2> QED  BY <1>3, <2>1 DEF At, CounterRead, Read
<1>7. At(ReceiverRead, t) = {e}
  <2>1. e \in receiverFile
    BY <1>1, <1>3, <1>5
  <2>2. ASSUME NEW f \in receiverFile, f.pc = t PROVE f = e
    <3>1. f \in Entry /\ f.t \in Past /\ f.t \in Int
      BY <1>4, <1>5
    <3>2. f.t \notin receiverLate
      <4> SUFFICES ASSUME f.t \in receiverLate PROVE f.t = t - 1
        OBVIOUS
      <4>1. t = f.t + 1
        BY <1>5, <2>2
      <4> QED  BY <1>1, <3>1, <4>1
    <3>3. f.t = t
      BY <1>5, <2>2, <3>2
    <3> QED  BY <1>3, <2>2, <3>1, <3>3
  <2> QED  BY <1>2, <1>3, <2>1, <2>2 DEF At, ReceiverRead, Read
<1>8. mpairs[t] = PairAt(At(CounterRead, t), At(ReceiverRead, t))
  BY <1>1 DEF matchMeasurements
<1>9. Matching(mpairs[t].flags) /\ mpairs[t].cm = e /\ mpairs[t].rm = e
  <2>1. mpairs[t] = PairAt({e}, {e})
    BY <1>6, <1>7, <1>8, Zenon
  <2> QED  BY <2>1, OneOfEach, Zenon
<1> QED  BY <1>3, <1>9, Zenon DEF Paired

\* With a steady clock nothing in the window is left out of the pairs but what was lost or
\* came late, and the second after a late one.
THEOREM SteadyPairs == Spec => []SteadyWindow
BY InductiveInvariant, InvSteady, PTL

\* So that, with windows that hold the day (as they do without --start and --stop), nothing
\* else of the day is.
THEOREM SteadyDayPairs ==
  ASSUME StartTime = 0, StopTime + Late >= Day - 1
  PROVE  Spec => []SteadyClockPairs
<1>1. SloppyStop = Day - 1
  BY DayAssumption, WindowAssumption DEF SloppyStop
<1>2. SteadyWindow => SteadyClockPairs
  BY <1>1 DEF SteadyWindow, SteadyClockPairs, Seconds
<1> QED  BY <1>2, SteadyPairs, PTL

-----------------------------------------------------------------------------
(* Loops, and the seconds on a grid *)

\* The least of a set, from which the inductions below are made
LEMMA Least ==
  ASSUME NEW T \in SUBSET Nat, T # {}
  PROVE  \E n \in T : \A m \in T : n <= m
<1> DEFINE R == OpToRel(<, Nat)
<1>1. IsWellFoundedOn(R, Nat)
  BY NatLessThanWellFounded
<1>2. \A m, n \in Nat : m < n => <<m, n>> \in R
  BY DEF OpToRel
<1> HIDE DEF R
<1>3. PICK n \in T : \A m \in T : ~ (<<m, n>> \in R)
  BY <1>1, WFMin
<1>4. \A m \in T : ~ (m < n)
  BY <1>2, <1>3
<1> QED  BY <1>4

\* What is true of the first, and of the next of each it is true of, is true of them all.
LEMMA UpTo ==
  ASSUME NEW lo \in Int, NEW hi \in Int, NEW T, lo \in T,
         \A i \in lo + 1 .. hi : i - 1 \in T => i \in T
  PROVE  lo .. hi \subseteq T
<1> SUFFICES ASSUME NEW j \in lo .. hi, j \notin T PROVE FALSE
  OBVIOUS
<1> DEFINE Bad == {n \in Nat : lo + n <= hi /\ lo + n \notin T}
<1>1. j - lo \in Bad
  OBVIOUS
<1>2. PICK n \in Bad : \A m \in Bad : n <= m
  <2> HIDE DEF Bad
  <2>1. Bad \in SUBSET Nat
    BY DEF Bad
  <2> QED  BY <1>1, <2>1, Least
<1>3. n # 0
  BY <1>2
<1>4. n - 1 \notin Bad /\ n - 1 \in Nat
  BY <1>2, <1>3
<1>5. (lo + n) - 1 \in T /\ lo + n \in lo + 1 .. hi
  BY <1>2, <1>3, <1>4
<1> QED  BY <1>2, <1>5

\* A loop that goes from one state to the next, by the function of its counter
Runs(r, lo, hi, base, G) == r[lo] = base /\ \A i \in lo + 1 .. hi : r[i] = G[i][r[i - 1]]

\* A loop over numbers that is written as a recursive function has a run: each value comes from the one before
LEMMA LoopRuns ==
  ASSUME NEW lo \in Int, NEW hi \in Int, lo <= hi, NEW St, NEW base \in St,
         NEW G \in [lo + 1 .. hi -> [St -> St]]
  PROVE  \E r \in [lo .. hi -> St] : Runs(r, lo, hi, base, G)
<1> DEFINE Run(r, n) == Runs(r, lo, n, base, G)
           T == {n \in lo .. hi : \E r \in [lo .. n -> St] : Run(r, n)}
<1>1. lo \in T
  <2> DEFINE r == [i \in lo .. lo |-> base]
  <2>1. r \in [lo .. lo -> St] /\ Run(r, lo)
    BY DEF Runs
  <2> QED  BY <2>1
<1>2. ASSUME NEW n \in lo + 1 .. hi, n - 1 \in T PROVE n \in T
  <2>1. PICK r \in [lo .. n - 1 -> St] : Run(r, n - 1)
    BY <1>2
  <2> DEFINE q == [i \in lo .. n |-> IF i = n THEN G[n][r[n - 1]] ELSE r[i]]
  <2>2. G[n][r[n - 1]] \in St
    BY <2>1
  <2>3. q \in [lo .. n -> St]
    BY <2>2
  <2>4. q[lo] = base
    BY <2>1 DEF Runs
  <2>5. ASSUME NEW i \in lo + 1 .. n PROVE q[i] = G[i][q[i - 1]]
    <3>1. q[i - 1] = r[i - 1]
      OBVIOUS
    <3>2. CASE i = n
      <4>1. n \in lo .. n
        OBVIOUS
      <4>2. q[n] = G[n][r[n - 1]]
        BY <4>1
      <4> QED  BY <3>1, <3>2, <4>2
    <3>3. CASE i # n
      <4>1. i \in lo + 1 .. n - 1 /\ q[i] = r[i]
        BY <3>3
      <4> QED  BY <2>1, <3>1, <4>1 DEF Runs
    <3> QED  BY <3>2, <3>3
  <2>6. Run(q, n)
    <3> HIDE DEF q
    <3> QED  BY <2>4, <2>5 DEF Runs
  <2> HIDE DEF q, Run
  <2> QED  BY <2>3, <2>6
<1>3. lo .. hi \subseteq T
  <2> HIDE DEF T
  <2> QED  BY <1>1, <1>2, UpTo
<1> HIDE DEF Run
<1>4. hi \in T
  <2> HIDE DEF T
  <2> QED  BY <1>3
<1>5. \E r \in [lo .. hi -> St] : Run(r, hi)
  BY <1>4
<1> QED  BY <1>5 DEF Run

\* What quotient and remainder are
LEMMA Division==
  ASSUME NEW n \in Nat, NEW d \in Nat \ {0}
  PROVE  /\ n \div d \in Nat /\ n % d \in 0 .. d - 1
         /\ n = d * (n \div d) + (n % d)
<1> DEFINE q == n \div d
           m == n % d
<1>1. q \in Int /\ m \in 0 .. d - 1 /\ n = d * q + m
  OBVIOUS
<1> HIDE DEF q, m
<1>2. d * q > - d
  BY <1>1
<1>3. q >= 0
  BY <1>1, <1>2
<1> QED  BY <1>1, <1>3 DEF q, m

\* They are the only ones
LEMMA DivisionOf ==
  ASSUME NEW q \in Nat, NEW d \in Nat \ {0}, NEW m \in 0 .. d - 1, NEW n, n = d * q + m
  PROVE  n \in Nat /\ n \div d = q /\ n % d = m
<1>1. n \in Nat
  <2>1. d * q \in Nat
    OBVIOUS
  <2> QED  BY <2>1
<1> DEFINE q1 == n \div d
           m1 == n % d
<1>2. q1 \in Nat /\ m1 \in 0 .. d - 1 /\ n = d * q1 + m1
  BY <1>1, Division
<1> HIDE DEF q1, m1
<1>3. d * q - d * q1 = m1 - m /\ d * q - d * q1 = d * (q - q1)
  BY <1>2
<1>4. q = q1
  <2>1. ~ (q - q1 >= 1)
    BY <1>2, <1>3
  <2>2. ~ (q - q1 <= -1)
    BY <1>2, <1>3
  <2> QED  BY <1>2, <2>1, <2>2
<1>5. m = m1
  BY <1>2, <1>4
<1> QED  BY <1>1, <1>4, <1>5 DEF q1, m1

Grid(b, step) == {b + step * k : k \in Nat}

\* Two points of a grid are not closer than its step
LEMMA GridApart ==
  ASSUME NEW b \in Nat, NEW step \in Nat \ {0}, NEW x \in Grid(b, step), NEW y \in Grid(b, step),
         x < y
  PROVE  x + step <= y
<1>1. PICK j \in Nat : x = b + step * j
  BY DEF Grid
<1>2. PICK k \in Nat : y = b + step * k
  BY DEF Grid
<1>3. j + 1 <= k
  BY <1>1, <1>2, SMT
<1>4. step * (j + 1) <= step * k
  BY <1>3, SMT
<1> QED  BY <1>1, <1>2, <1>4

\* The points of a grid, by their remainder
LEMMA GridMod ==
  ASSUME NEW b \in Nat, NEW step \in Nat \ {0}, NEW t \in Nat, t >= b
  PROVE  t \in Grid(b, step) <=> (t - b) % step = 0
<1>1. ASSUME t \in Grid(b, step) PROVE (t - b) % step = 0
  <2>1. PICK k \in Nat : t = b + step * k
    BY <1>1 DEF Grid
  <2> DEFINE q == (t - b) \div step
             m == (t - b) % step
  <2>2. t - b \in Nat /\ q \in Nat /\ m \in 0 .. step - 1 /\ t - b = step * q + m
    <3>1. t - b \in Nat
      OBVIOUS
    <3> QED  BY <3>1, Division
  <2> HIDE DEF q, m
  <2>3. step * k = step * q + m
    BY <2>1, <2>2
  <2>4. k = q
    BY <2>2, <2>3
  <2> QED  BY <2>2, <2>3, <2>4 DEF m
<1>2. ASSUME (t - b) % step = 0 PROVE t \in Grid(b, step)
  <2> DEFINE q == (t - b) \div step
  <2>1. t - b = step * q /\ q \in Nat
    BY <1>2, Division
  <2> HIDE DEF q
  <2>2. t = b + step * q
    BY <2>1
  <2> QED  BY <2>1, <2>2 DEF Grid
<1> QED  BY <1>1, <1>2

\* The next point of the grid after a time
LEMMA AdvanceOnGrid ==
  ASSUME NEW b \in Nat, NEW step \in Nat \ {0}, NEW obs \in Grid(b, step), NEW t \in Nat
  PROVE  /\ Advance(obs, t, step) \in Grid(b, step)
         /\ Advance(obs, t, step) >= obs /\ Advance(obs, t, step) >= t
         /\ t <= obs => Advance(obs, t, step) = obs
         /\ t > obs => Advance(obs, t, step) - step < t
<1>1. PICK k \in Nat : obs = b + step * k
  BY DEF Grid
<1>2. CASE t <= obs
  BY <1>1, <1>2 DEF Advance
<1>3. CASE t > obs
  <2> DEFINE n == t - obs + step - 1
             q == n \div step
             m == n % step
  <2>1. n \in Nat /\ obs \in Nat
    BY <1>1, <1>3
  <2>2. q \in Nat /\ m \in 0 .. step - 1 /\ n = step * q + m
    BY <2>1, Division
  <2>3. Advance(obs, t, step) = obs + step * q
    BY <1>1, <1>3 DEF Advance
  <2> HIDE DEF q, m
  <2>4. obs + step * q = b + step * (k + q)
    BY <1>1, <2>2
  <2>5. k + q \in Nat
    BY <2>2
  <2>6. step * q = n - m /\ step * q \in Int
    BY <2>2
  <2> QED  BY <1>3, <2>1, <2>2, <2>3, <2>4, <2>5, <2>6 DEF Grid
<1> QED  BY <1>1, <1>2, <1>3

\* The grid that the epochs are on is of numbers that can be divided
LEMMA GridNat ==
  ASSUME NEW b \in Nat, NEW step \in Nat \ {0}
  PROVE  b \in Grid(b, step) /\ \A g \in Grid(b, step) : g \in Nat /\ g >= b /\ g + step \in Grid(b, step)
<1>1. b \in Grid(b, step)
  <2>1. b = b + step * 0 /\ 0 \in Nat
    OBVIOUS
  <2> QED  BY <2>1 DEF Grid
<1>2. ASSUME NEW g \in Grid(b, step) PROVE g \in Nat /\ g >= b /\ g + step \in Grid(b, step)
  <2>1. PICK k \in Nat : g = b + step * k
    BY DEF Grid
  <2>2. step * k \in Nat /\ k + 1 \in Nat /\ g + step = b + step * (k + 1)
    BY <2>1
  <2> QED  BY <2>1, <2>2 DEF Grid
<1> QED  BY <1>1, <1>2

\* A list with a later element at its end lists that too
LEMMA ListsMore ==
  ASSUME NEW q \in Seq(Nat), NEW S \in SUBSET Nat, NEW t \in Nat, Lists(q, S), \A x \in S : x < t
  PROVE  Lists(Append(q, t), S \cup {t})
<1> DEFINE p == Append(q, t)
<1>1. /\ Len(q) \in Nat /\ DOMAIN q = 1 .. Len(q) /\ DOMAIN p = 1 .. Len(q) + 1
      /\ \A i \in 1 .. Len(q) : p[i] = q[i] /\ q[i] \in Nat
      /\ p[Len(q) + 1] = t
  OBVIOUS
<1> HIDE DEF p
<1>2. Range(q) = S /\ \A i, j \in DOMAIN q : i < j => q[i] < q[j]
  BY DEF Lists
<1>3. \A i \in 1 .. Len(q) : q[i] \in S
  BY <1>1, <1>2 DEF Range
<1>4. Range(p) = S \cup {t}
  <2>1. Range(p) \subseteq S \cup {t}
    <3> SUFFICES ASSUME NEW i \in 1 .. Len(q) + 1 PROVE p[i] \in S \cup {t}
      BY <1>1 DEF Range
    <3>1. i \in 1 .. Len(q) \/ i = Len(q) + 1
      BY <1>1
    <3> QED  BY <1>1, <1>3, <3>1
  <2>2. ASSUME NEW x \in S PROVE x \in Range(p)
    <3>1. PICK i \in DOMAIN q : q[i] = x
      BY <1>2 DEF Range
    <3>2. i \in DOMAIN p /\ p[i] = x
      BY <1>1, <3>1
    <3> QED  BY <3>2 DEF Range
  <2>3. t \in Range(p)
    BY <1>1 DEF Range
  <2> QED  BY <2>1, <2>2, <2>3
<1>5. ASSUME NEW i \in DOMAIN p, NEW j \in DOMAIN p, i < j PROVE p[i] < p[j]
  <2>1. i \in 1 .. Len(q) /\ j \in 1 .. Len(q) + 1
    BY <1>1, <1>5
  <2>2. CASE j = Len(q) + 1
    BY <1>1, <1>3, <2>1, <2>2
  <2>3. CASE j \in 1 .. Len(q)
    BY <1>1, <1>2, <1>5, <2>1, <2>3
  <2> QED  BY <1>1, <2>1, <2>2, <2>3
<1> QED  BY <1>4, <1>5 DEF Lists, p

\* Of the times M the sequence has those that are, with d added, on a grid up to top; obs is the
\* next to look for, and none of the others will be found there.
OnTheGrid(M, b, step, d, top) == {t \in M : t + d \in Grid(b, step) /\ t + d <= top}

Sampled(obs, out, M, b, step, d, top) ==
  /\ obs \in Grid(b, step)
  /\ Lists(out, OnTheGrid(M, b, step, d, top))
  /\ \A t \in OnTheGrid(M, b, step, d, top) : t + d < obs
  /\ \A g \in Grid(b, step) : g < obs => \E t \in M : g <= t + d

\* A loop that takes a second when it has come, and then looks for the next on the grid, has taken just those that are on it
LEMMA SampledMore ==
  ASSUME NEW b \in Nat, NEW step \in Nat \ {0}, NEW d \in Nat, NEW top \in Nat,
         NEW obs, NEW out \in Seq(Nat), NEW M \in SUBSET Nat, NEW t \in Nat, \A u \in M : u < t,
         Sampled(obs, out, M, b, step, d, top)
  PROVE  LET g == Advance(obs, t + d, step)
         IN  IF t + d = g /\ g <= top
             THEN Sampled(g + step, Append(out, t), M \cup {t}, b, step, d, top)
             ELSE Sampled(g, out, M \cup {t}, b, step, d, top)
<1> DEFINE x == t + d
           g == Advance(obs, x, step)
           S == OnTheGrid(M, b, step, d, top)
           N == M \cup {t}
<1>1. x \in Nat /\ obs \in Grid(b, step) /\ obs \in Nat
  BY GridNat DEF Sampled
<1>2. /\ g \in Grid(b, step) /\ g \in Nat /\ g + step \in Grid(b, step)
      /\ g >= obs /\ g >= x /\ (x <= obs => g = obs) /\ (x > obs => g - step < x)
  <2>1. /\ g \in Grid(b, step) /\ g >= obs /\ g >= x /\ (x <= obs => g = obs)
        /\ (x > obs => g - step < x)
    BY <1>1, AdvanceOnGrid
  <2> HIDE DEF g
  <2> QED  BY <2>1, GridNat
<1>3. /\ Lists(out, S) /\ S \in SUBSET Nat /\ \A u \in S : u < t /\ u + d < obs /\ u \in Nat
      /\ \A y \in Grid(b, step) : y < obs => \E u \in M : y <= u + d
  BY DEF Sampled, OnTheGrid
<1> HIDE DEF g, x
<1>4. CASE x = g /\ g <= top
  <2>1. OnTheGrid(N, b, step, d, top) = S \cup {t}
    BY <1>2, <1>4 DEF OnTheGrid, x
  <2>2. Lists(Append(out, t), S \cup {t})
    <3> HIDE DEF S
    <3> QED  BY <1>3, ListsMore
  <2>3. \A u \in S \cup {t} : u + d < g + step
    BY <1>1, <1>2, <1>3, <1>4 DEF x
  <2>4. ASSUME NEW y \in Grid(b, step), y < g + step PROVE y <= t + d
    <3>1. y \in Nat
      BY GridNat
    <3>2. ~ (g < y)
      BY <1>2, <2>4, <3>1, GridApart
    <3> QED  BY <1>2, <1>4, <3>1, <3>2 DEF x
  <2>5. Sampled(g + step, Append(out, t), N, b, step, d, top)
    <3> HIDE DEF S
    <3> QED  BY <1>2, <2>1, <2>2, <2>3, <2>4 DEF Sampled
  <2> QED  BY <1>4, <2>5 DEF g, x
<1>5. CASE ~ (x = g /\ g <= top)
  <2>1. ~ (x \in Grid(b, step) /\ x <= top)
    <3> SUFFICES ASSUME x \in Grid(b, step), x <= top PROVE FALSE
      OBVIOUS
    <3>1. x >= obs
      <4> SUFFICES ASSUME x < obs PROVE FALSE
        BY <1>1
      <4>1. PICK u \in M : x <= u + d
        BY <1>3
      <4> QED  BY <4>1 DEF x
    <3>2. ~ (x < g)
      <4> SUFFICES ASSUME x < g PROVE FALSE
        OBVIOUS
      <4>1. x > obs
        BY <1>1, <1>2, <3>1
      <4>2. x + step <= g
        BY <1>1, <1>2, GridApart
      <4> QED  BY <1>1, <1>2, <4>1, <4>2
    <3>3. x = g
      BY <1>1, <1>2, <3>2
    <3> QED  BY <1>5, <3>3
  <2>2. OnTheGrid(N, b, step, d, top) = S
    BY <2>1 DEF OnTheGrid, x
  <2>3. \A u \in S : u + d < g
    BY <1>1, <1>2, <1>3
  <2>4. ASSUME NEW y \in Grid(b, step), y < g PROVE \E u \in N : y <= u + d
    <3>1. y \in Nat
      BY GridNat
    <3>2. CASE x <= obs
      BY <1>2, <1>3, <2>4, <3>2
    <3>3. CASE x > obs
      <4>1. y + step <= g
        BY <1>2, <2>4, GridApart
      <4> QED  BY <1>1, <1>2, <3>1, <3>3, <4>1 DEF x
    <3> QED  BY <1>1, <3>2, <3>3
  <2>5. Sampled(g, out, N, b, step, d, top)
    <3> HIDE DEF S
    <3> QED  BY <1>2, <1>3, <2>2, <2>3, <2>4 DEF Sampled
  <2> QED  BY <1>5, <2>5 DEF g, x
<1> QED  BY <1>4, <1>5 DEF g, x

\* Nothing has been looked at.
LEMMA SampledNone ==
  ASSUME NEW b \in Nat, NEW step \in Nat \ {0}, NEW d, NEW top
  PROVE  Sampled(b, << >>, {}, b, step, d, top)
<1>1. b \in Grid(b, step) /\ \A g \in Grid(b, step) : ~ (g < b)
  BY GridNat
<1>2. OnTheGrid({}, b, step, d, top) = {}
  BY DEF OnTheGrid
<1>3. Lists(<< >>, {})
  BY DEF Lists, Range
<1> QED  BY <1>1, <1>2, <1>3 DEF Sampled

-----------------------------------------------------------------------------
(* The CGGTTS fits *)

\* The fits that are worth one
Worth == {Fit(b) : b \in {c \in Nat : Enough(c)}}

\* How many whole batches a track has
LEMMA BatchCount ==
  ASSUME NEW a \in Seconds
  PROVE  TrackStop(a) \in a .. Day - 1 /\ NBatches(a) \in Nat
<1>1. TrackStop(a) \in a .. Day - 1
  BY DayAssumption, TrackAssumption DEF TrackStop, Seconds
<1>2. TrackStop(a) - a + 1 \in Nat /\ QuadPoints \in Nat \ {0}
  BY <1>1, DayAssumption, TrackAssumption DEF Seconds
<1> QED  BY <1>1, <1>2, Division DEF NBatches

\* The fits are those of the batches that are worth one
LEMMA FitsWorth ==
  ASSUME NEW a \in Seconds
  PROVE  Fits(a) \in Seq(Worth)
<1> DEFINE n == NBatches(a)
           B(i) == a + (i - 1) * QuadPoints
           St == Seq(Worth)
           G == [i \in 0 + 1 .. n |-> [q \in St |-> WithFit(q, B(i))]]
<1>1. n \in Nat /\ QuadPoints \in Nat /\ a \in Nat
  BY BatchCount, TrackAssumption DEF Seconds
<1>2. \A i \in 1 .. n : B(i) \in Nat
  <2> SUFFICES ASSUME NEW i \in 1 .. n PROVE B(i) \in Nat
    OBVIOUS
  <2>1. i - 1 \in Nat
    BY <1>1
  <2>2. (i - 1) * QuadPoints \in Nat
    BY <1>1, <2>1
  <2> QED  BY <1>1, <2>2
<1>3. ASSUME NEW q \in St, NEW b \in Nat PROVE WithFit(q, b) \in St
  <2>1. Enough(b) => Fit(b) \in Worth
    BY DEF Worth
  <2> HIDE DEF Worth
  <2> QED  BY <2>1 DEF WithFit
<1> HIDE DEF n, B
<1>4. G \in [0 + 1 .. n -> [St -> St]]
  <2>1. ASSUME NEW i \in 0 + 1 .. n PROVE [q \in St |-> WithFit(q, B(i))] \in [St -> St]
    <3>1. B(i) \in Nat
      BY <1>2
    <3> HIDE DEF St
    <3> QED  BY <1>3, <3>1
  <2> HIDE DEF St
  <2> QED  BY <2>1
<1>5. << >> \in St
  OBVIOUS
<1> HIDE DEF St
<1>6. PICK r \in [0 .. n -> St] : Runs(r, 0, n, << >>, G)
  <2> HIDE DEF G
  <2>1. 0 \in Int /\ n \in Int /\ 0 <= n
    BY <1>1
  <2> QED  BY <1>4, <1>5, <2>1, LoopRuns
<1>7. \A i \in 1 .. n : r[i] = WithFit(r[i - 1], B(i))
  <2> SUFFICES ASSUME NEW i \in 1 .. n PROVE r[i] = WithFit(r[i - 1], B(i))
    OBVIOUS
  <2>1. r[i - 1] \in St
    BY <1>1
  <2>2. G[i][r[i - 1]] = WithFit(r[i - 1], B(i))
    BY <2>1
  <2> QED  BY <1>6, <2>2 DEF Runs
<1> DEFINE Loop(q) == [k \in 0 .. n |-> IF k = 0 THEN << >> ELSE WithFit(q[k - 1], B(k))]
<1>8. r = Loop(r)
  BY <1>1, <1>6, <1>7 DEF Runs
<1>9. ASSUME NEW q, q = Loop(q) PROVE q[n] = r[n]
  <2> DEFINE T == {k \in 0 .. n : q[k] = r[k]}
  <2>1. q[0] = << >> /\ \A i \in 1 .. n : q[i] = WithFit(q[i - 1], B(i))
    BY <1>1, <1>9
  <2>2. 0 \in T /\ \A i \in 0 + 1 .. n : i - 1 \in T => i \in T
    BY <1>1, <1>6, <1>7, <2>1 DEF Runs
  <2>3. 0 .. n \subseteq T
    <3> HIDE DEF T
    <3> QED  BY <1>1, <2>2, UpTo
  <2> QED  BY <1>1, <2>3
<1>10. Fits(a) = (CHOOSE q : q = Loop(q))[n]
  BY DEF Fits, n, B
<1> HIDE DEF Loop
<1>11. Fits(a) = r[n]
  BY <1>8, <1>9, <1>10
<1> QED  BY <1>1, <1>6, <1>11 DEF St

\* The second of true time that the receiver's reading of a pair is of
TimeOf(s) == mpairs[s].rm.t

\* The time of a pair's measurement
LEMMA PairTime ==
  ASSUME IInv, NEW s \in Paired
  PROVE  /\ s \in Seconds /\ TimeOf(s) \in Seconds
         /\ mpairs[s].rm \in receiverFile /\ mpairs[s].rm \in Entry /\ mpairs[s].rm.pc = s
         /\ TimeOf(s) \in Past
         /\ TimeOf(s) \notin receiverLate => clock[TimeOf(s)] = s
<1> DEFINE rm == mpairs[s].rm
<1>1. s \in Seconds /\ At(ReceiverRead, s) = {rm}
  BY InPair
<1> HIDE DEF rm
<1>2. rm \in receiverFile /\ rm.pc = s
  <2>1. rm \in At(ReceiverRead, s)
    BY <1>1
  <2> QED  BY <2>1 DEF At, ReceiverRead, Read
<1>3. rm \in Entry /\ rm.t \in Past /\ rm.t \in Seconds
  BY <1>2 DEF IInv, FilesInv, Kept, Past, Entry
<1>4. rm.t \notin receiverLate => clock[rm.t] = s
  BY <1>2, <1>3 DEF IInv, Types, FilesInv, Kept
<1> QED  BY <1>1, <1>2, <1>3, <1>4 DEF rm, TimeOf

\* More than half of a run of seconds has one in either half of it.
LEMMA Halves ==
  ASSUME NEW b \in Nat, NEW n \in Nat \ {0}, NEW S \in SUBSET (b .. b + n - 1),
         Cardinality(S) > n \div 2
  PROVE  LET tc == b + n - 1 - n \div 2
         IN  tc \in Nat /\ \E t, u \in S : t <= tc /\ tc <= u
<1> DEFINE h == n \div 2
           tc == b + n - 1 - h
<1>1. h \in Nat /\ 2 * h <= n /\ n <= 2 * h + 1
  OBVIOUS
<1> HIDE DEF h
<1>2. tc \in Nat
  BY <1>1
<1>3. \E t \in S : t <= tc
  <2> SUFFICES ASSUME \A t \in S : t > tc PROVE FALSE
    BY <1>2
  <2>1. S \in SUBSET (tc + 1 .. b + n - 1)
    BY <1>2
  <2>2. IsFiniteSet(tc + 1 .. b + n - 1) /\ Cardinality(tc + 1 .. b + n - 1) = h
    BY <1>1, <1>2, FS_Interval
  <2>3. Cardinality(S) <= h /\ Cardinality(S) \in Nat
    BY <2>1, <2>2, FS_Subset, FS_CardinalityType
  <2> QED  BY <1>1, <2>3 DEF h
<1>4. \E u \in S : tc <= u
  <2> SUFFICES ASSUME \A u \in S : u < tc PROVE FALSE
    BY <1>2
  <2>1. S \in SUBSET (b .. tc - 1)
    BY <1>2
  <2>2. IsFiniteSet(b .. tc - 1) /\ Cardinality(b .. tc - 1) <= h
    <3>1. b \in Int /\ tc - 1 \in Int
      BY <1>2
    <3>2. /\ IsFiniteSet(b .. tc - 1)
          /\ Cardinality(b .. tc - 1) = IF b > tc - 1 THEN 0 ELSE tc - 1 - b + 1
      BY <3>1, FS_Interval
    <3> QED  BY <1>1, <1>2, <3>2
  <2>3. Cardinality(S) <= Cardinality(b .. tc - 1) /\ Cardinality(S) \in Nat
    BY <2>1, <2>2, FS_Subset, FS_CardinalityType
  <2>4. Cardinality(b .. tc - 1) \in Nat
    BY <2>2, FS_CardinalityType
  <2> QED  BY <1>1, <2>2, <2>3, <2>4 DEF h
<1> QED  BY <1>2, <1>3, <1>4 DEF h

\* A set of numbers up to n that is not empty has a last
LEMMA Latest ==
  ASSUME NEW n \in Nat, NEW S \in SUBSET (0 .. n), S # {}
  PROVE  \E s \in S : \A u \in S : u <= s
<1> DEFINE T == {n - s : s \in S}
<1>1. T \in SUBSET Nat /\ T # {}
  <2>1. \A s \in S : n - s \in Nat
    OBVIOUS
  <2> QED  BY <2>1
<1>2. PICK m \in T : \A k \in T : m <= k
  <2> HIDE DEF T
  <2> QED  BY <1>1, Least
<1>3. PICK s \in S : m = n - s
  BY <1>2
<1>4. ASSUME NEW u \in S PROVE u <= s
  <2>1. n - s <= n - u
    BY <1>2, <1>3
  <2> QED  BY <2>1
<1> QED  BY <1>4

\* A fit is of the seconds that its time of the week says, but for the batch beyond the GPS midnight
LEMMA FitSound ==
  ASSUME IInv, NEW b \in Nat, Enough(b),
         \A t \in Fit(b).times : clock[t] = t /\ t \notin receiverLate
  PROVE  LET f == Fit(b)
         IN  /\ \E t, u \in f.times : t <= f.tc /\ f.tc <= u
             /\ f.tow = f.tc + Leap \/ \E t \in f.times : t + Leap >= Day
<1> DEFINE S == InBatch(b)
           tc == b + QuadPoints - 1 - QuadPoints \div 2
           last == CHOOSE s \in S : \A u \in S : u <= s
<1>1. /\ Fit(b).tc = tc /\ Fit(b).times = {TimeOf(s) : s \in S}
      /\ Fit(b).tow = FitTow(tc, TimeOf(last))
  BY DEF Fit, TimeOf
<1>2. ASSUME NEW s \in S PROVE s \in Seconds /\ TimeOf(s) = s
  <2>1. s \in Paired
    BY DEF InBatch
  <2>2. clock[TimeOf(s)] = TimeOf(s) /\ TimeOf(s) \notin receiverLate
    BY <1>1
  <2> QED  BY <2>1, <2>2, PairTime
<1>3. Fit(b).times = S
  BY <1>1, <1>2
<1>4. QuadPoints \in Nat \ {0} /\ S \in SUBSET (b .. b + QuadPoints - 1)
  BY TrackAssumption DEF InBatch
<1>5. tc \in Nat /\ \E t, u \in S : t <= tc /\ tc <= u
  BY <1>4, Halves DEF Enough
<1>6. ASSUME \A t \in S : t + Leap < Day PROVE FitTow(tc, TimeOf(last)) = tc + Leap
  <2>1. last \in S
    <3>1. \E s \in S : \A u \in S : u <= s
      <4>1. b + QuadPoints - 1 \in Nat /\ S \in SUBSET (0 .. b + QuadPoints - 1)
        BY <1>4
      <4> HIDE DEF S
      <4> QED  BY <1>5, <4>1, Latest
    <3> HIDE DEF S
    <3> QED  BY <3>1
  <2>2. TimeOf(last) = last /\ last \in Seconds
    BY <1>2, <2>1
  <2>3. Leap \in Nat /\ Day \in Nat \ {0} /\ last \in Nat /\ last + Leap < Day
    BY <1>6, <2>1, <2>2, DayAssumption, LeapAssumption DEF Seconds
  <2>4. GPSDay(TimeOf(last)) = 0
    <3>1. Leap + last \in 0 .. Day - 1 /\ last + Leap = Day * 0 + (Leap + last)
      BY <2>3
    <3> QED  BY <2>2, <2>3, <3>1, DivisionOf DEF GPSDay
  <2>5. tc + Leap < Day
    <3>1. PICK u \in S : tc <= u
      BY <1>5
    <3>2. u \in Nat /\ u + Leap < Day
      BY <1>2, <1>6 DEF Seconds
    <3> HIDE DEF tc
    <3> QED  BY <1>5, <2>3, <3>1, <3>2
  <2> HIDE DEF tc, last
  <2> QED  BY <1>5, <2>3, <2>4, <2>5 DEF FitTow
<1>7. ASSUME ~ \E t \in S : t + Leap >= Day PROVE \A t \in S : t + Leap < Day
  <2>1. Leap \in Nat /\ Day \in Nat
    BY DayAssumption, LeapAssumption DEF Seconds
  <2> QED  BY <1>2, <1>7, <2>1 DEF Seconds
<1> HIDE DEF S, tc, last
<1> QED  BY <1>1, <1>3, <1>5, <1>6, <1>7

OutputsInv ==
  /\ phase \in {"logging", "matched"} => tracks = {}
  /\ \A k \in tracks : /\ k.ver \in {"V1", "V2E"} /\ k.start \in Scheduled
                       /\ k.points = Points(k.ver, k.start)
  /\ rinex = IF phase = "written" THEN Epochs ELSE << >>

\* What is written is made of the pairs.
LEMMA SamePairs ==
  ASSUME mpairs' = mpairs
  PROVE  /\ \A ver, a : Points(ver, a)' = Points(ver, a)
         /\ Epochs' = Epochs
<1>1. Paired' = Paired
  BY DEF Paired
<1>2. \A b : InBatch(b)' = InBatch(b)
  BY <1>1 DEF InBatch
<1>3. \A b : Enough(b)' = Enough(b) /\ Fit(b)' = Fit(b)
  BY <1>2, Zenon DEF Enough, Fit
<1>4. \A q, b : WithFit(q, b)' = WithFit(q, b)
  BY <1>3, Zenon DEF WithFit
<1>5. \A a : Fits(a)' = Fits(a)
  BY <1>4, Zenon DEF Fits
<1>6. \A m, s : Sample(m, s)' = Sample(m, s)
  BY <1>1, Zenon DEF Sample
<1>7. \A a : Samples(a)' = Samples(a)
  BY <1>6, Zenon DEF Samples
<1>8. \A m, s : Epoch(m, s)' = Epoch(m, s)
  <2> SUFFICES ASSUME NEW m, NEW s PROVE Epoch(m, s)' = Epoch(m, s)
    BY Zenon
  <2>1. (s \in Paired') <=> (s \in Paired)
    BY <1>1
  <2>2. CASE s \notin Paired \/ m.obsTime > Day
    BY <2>1, <2>2, Zenon DEF Epoch
  <2>3. CASE ~ (s \notin Paired \/ m.obsTime > Day)
    BY <2>1, <2>3, Zenon DEF Epoch
  <2> QED  BY <2>2, <2>3
<1>9. Epochs' = Epochs
  BY <1>8, Zenon DEF Epochs
<1> QED  BY <1>5, <1>7, <1>9, Zenon DEF Points

\* Nothing is written yet
LEMMA OutputsInit == Init => OutputsInv
BY Zenon DEF Init, PairsInit, OutputsInv

\* The files are written once, from the pairs of that moment, which nothing changes
LEMMA OutputsStep == OutputsInv /\ [Next]_vars => OutputsInv'
<1> SUFFICES ASSUME OutputsInv, [Next]_vars PROVE OutputsInv'
  OBVIOUS
<1> DEFINE Made(k) == /\ k.ver \in {"V1", "V2E"} /\ k.start \in Scheduled
                      /\ k.points = Points(k.ver, k.start)
<1>1. ASSUME mpairs' = mpairs, tracks' = tracks PROVE \A k \in tracks' : Made(k)'
  <2>1. \A ver, a : Points(ver, a)' = Points(ver, a)
    BY <1>1, SamePairs
  <2> QED  BY <1>1, <2>1, Zenon DEF OutputsInv
<1>2. ASSUME tracks' = {} PROVE \A k \in tracks' : Made(k)'
  BY <1>2
<1>3. CASE UNCHANGED vars
  <2>1. mpairs' = mpairs /\ tracks' = tracks /\ rinex' = rinex /\ phase' = phase
    BY <1>3 DEF vars
  <2>2. Epochs' = Epochs
    BY <2>1, SamePairs
  <2> QED  BY <1>1, <2>1, <2>2, Zenon DEF OutputsInv
<1>4. CASE Log /\ UNCHANGED <<rinex, tracks>>
  <2>1. phase = "logging" /\ phase' = "logging" /\ tracks' = tracks /\ rinex' = rinex
    BY <1>4 DEF Log, Second, LoseCounter, LoseReceiver, LateReceiver, StepClock, Pass
  <2>2. tracks' = {} /\ rinex' = << >>
    BY <2>1 DEF OutputsInv
  <2> QED  BY <1>2, <2>1, <2>2, Zenon DEF OutputsInv
<1>5. CASE Match
  <2>1. phase = "logging" /\ phase' = "matched" /\ tracks' = tracks /\ rinex' = rinex
    BY <1>5 DEF Match
  <2>2. tracks' = {} /\ rinex' = << >>
    BY <2>1 DEF OutputsInv
  <2> QED  BY <1>2, <2>1, <2>2, Zenon DEF OutputsInv
<1>6. ASSUME NEW ver \in {"V1", "V2E"}, WriteCGGTTS(ver) PROVE OutputsInv'
  <2>1. /\ phase = "matched" /\ phase' = "tracked" /\ mpairs' = mpairs /\ rinex' = rinex
        /\ tracks' = {[ver |-> ver, start |-> a, points |-> Points(ver, a)] : a \in Long(ver)}
    BY <1>6 DEF WriteCGGTTS
  <2>2. \A v, a : Points(v, a)' = Points(v, a)
    BY <2>1, SamePairs
  <2>3. ASSUME NEW k \in tracks' PROVE Made(k)
    <3>1. PICK a \in Long(ver) : k = [ver |-> ver, start |-> a, points |-> Points(ver, a)]
      BY <2>1
    <3>2. a \in Scheduled
      BY DEF Long
    <3> QED  BY <3>1, <3>2
  <2>4. \A k \in tracks' : Made(k)'
    BY <2>2, <2>3, Zenon
  <2>5. rinex' = << >>
    BY <2>1 DEF OutputsInv
  <2> QED  BY <2>1, <2>4, <2>5, Zenon DEF OutputsInv
<1>7. ASSUME NEW p3 \in BOOLEAN, NEW ed \in {"none", "unhealthy"}, WriteNoTrack(p3, ed)
      PROVE  OutputsInv'
  <2>1. /\ phase = "matched" /\ phase' \in {"tracked", "crashed"} /\ tracks' = {}
        /\ rinex' = rinex
    BY <1>7 DEF WriteNoTrack
  <2>2. rinex' = << >>
    BY <2>1 DEF OutputsInv
  <2> QED  BY <1>2, <2>1, <2>2, Zenon DEF OutputsInv
<1>8. CASE WriteRINEX
  <2>1. /\ phase = "tracked" /\ phase' = "written" /\ mpairs' = mpairs /\ tracks' = tracks
        /\ rinex' = Epochs
    BY <1>8 DEF WriteRINEX
  <2>2. Epochs' = Epochs
    BY <2>1, SamePairs
  <2> QED  BY <1>1, <2>1, <2>2, Zenon DEF OutputsInv
<1> QED  BY <1>3, <1>4, <1>5, <1>6, <1>7, <1>8 DEF Next

\* What is in the files is what their loops make of the pairs
LEMMA OutputsOfPairs == Spec => []OutputsInv
BY OutputsInit, OutputsStep, PTL DEF Spec

\* Hence every fit of the file is sound
LEMMA InvFits == IInv /\ OutputsInv => FitsSound
<1> SUFFICES ASSUME IInv, OutputsInv, NEW k \in tracks, k.ver = "V1", NEW i \in DOMAIN k.points,
                    \A t \in k.points[i].times : clock[t] = t /\ t \notin receiverLate
             PROVE  LET f == k.points[i]
                    IN  /\ \E t, u \in f.times : t <= f.tc /\ f.tc <= u
                        /\ f.tow = f.tc + Leap \/ \E t \in f.times : t + Leap >= Day
  BY DEF FitsSound
<1>1. k.start \in Seconds
  BY TrackAssumption DEF OutputsInv, Scheduled
<1>2. k.points = Fits(k.start)
  BY DEF OutputsInv, Points
<1>3. k.points[i] \in Worth
  <2>1. k.points \in Seq(Worth)
    BY <1>1, <1>2, FitsWorth
  <2> HIDE DEF Worth
  <2> QED  BY <2>1
<1>4. PICK b \in Nat : Enough(b) /\ k.points[i] = Fit(b)
  BY <1>3 DEF Worth
<1> QED  BY <1>4, FitSound

\* The corrections of a quadratic fit are computed for a time among its points.
THEOREM FitsAreSound == Spec => []FitsSound
BY InductiveInvariant, OutputsOfPairs, InvFits, PTL

-----------------------------------------------------------------------------
(* The CGGTTS samples *)

SampleState == [tsearch : Nat, points : Seq(Nat)]

\* What the loop over the samples keeps
LEMMA SampleTyped ==
  ASSUME IInv, NEW m \in SampleState, NEW s
  PROVE  Sample(m, s) \in SampleState
<1>1. CASE s \notin Paired
  BY <1>1 DEF Sample
<1>2. CASE s \in Paired
  <2> DEFINE t == mpairs[s].rm.t
             g == Advance(m.tsearch, t, Sampling)
  <2>1. m.tsearch \in Nat /\ m.points \in Seq(Nat) /\ t \in Nat /\ Sampling \in Nat \ {0}
    BY <1>2, PairTime, TrackAssumption DEF SampleState, TimeOf, Seconds
  <2>2. g \in Nat
    <3>1. m.tsearch \in Grid(m.tsearch, Sampling)
      BY <2>1, GridNat
    <3>2. g \in Grid(m.tsearch, Sampling)
      BY <2>1, <3>1, AdvanceOnGrid
    <3> HIDE DEF g
    <3> QED  BY <2>1, <3>2, GridNat
  <2> HIDE DEF t, g
  <2>3. Sample(m, s) = IF t = g THEN [tsearch |-> g + Sampling, points |-> Append(m.points, t)]
                       ELSE [m EXCEPT !.tsearch = g]
    BY <1>2, Zenon DEF Sample, t, g
  <2>4. [tsearch |-> g + Sampling, points |-> Append(m.points, t)] \in SampleState
    BY <2>1, <2>2 DEF SampleState
  <2>5. [m EXCEPT !.tsearch = g] \in SampleState
    BY <2>2 DEF SampleState
  <2> QED  BY <2>3, <2>4, <2>5, Zenon
<1> QED  BY <1>1, <1>2

\* The loop over the samples, second by second
LEMMA SamplesRun ==
  ASSUME IInv, NEW a \in Seconds
  PROVE  \E r \in [a - 1 .. TrackStop(a) -> SampleState] :
            /\ r[a - 1] = [tsearch |-> a, points |-> << >>]
            /\ \A s \in a .. TrackStop(a) : r[s] = Sample(r[s - 1], s)
            /\ Samples(a) = r[TrackStop(a)].points
<1> DEFINE z == TrackStop(a)
           lo == a - 1
           base == [tsearch |-> a, points |-> << >>]
           G == [s \in lo + 1 .. z |-> [m \in SampleState |-> Sample(m, s)]]
<1>1. a \in Nat /\ z \in Nat /\ a <= z
  BY BatchCount DEF Seconds
<1> HIDE DEF z
<1>2. base \in SampleState
  BY <1>1 DEF SampleState
<1>3. G \in [lo + 1 .. z -> [SampleState -> SampleState]]
  BY SampleTyped
<1> HIDE DEF base
<1>4. PICK r \in [lo .. z -> SampleState] : Runs(r, lo, z, base, G)
  <2>1. lo \in Int /\ z \in Int /\ lo <= z
    BY <1>1
  <2> HIDE DEF G, lo
  <2> QED  BY <1>2, <1>3, <2>1, LoopRuns
<1>5. \A s \in a .. z : r[s] = Sample(r[s - 1], s)
  <2> SUFFICES ASSUME NEW s \in a .. z PROVE r[s] = Sample(r[s - 1], s)
    OBVIOUS
  <2>1. r[s - 1] \in SampleState /\ s \in lo + 1 .. z
    BY <1>1
  <2>2. G[s][r[s - 1]] = Sample(r[s - 1], s)
    BY <2>1
  <2> QED  BY <1>4, <2>1, <2>2 DEF Runs
<1>6. r[lo] = base
  BY <1>4 DEF Runs
<1> DEFINE Loop(q) == [s \in a - 1 .. z |-> IF s < a THEN base ELSE Sample(q[s - 1], s)]
<1>7. r = Loop(r)
  BY <1>1, <1>5, <1>6
<1>8. ASSUME NEW q, q = Loop(q) PROVE q[z] = r[z]
  <2> DEFINE T == {s \in lo .. z : q[s] = r[s]}
  <2>1. q[lo] = base
    BY <1>1, <1>8
  <2>2. ASSUME NEW s \in lo + 1 .. z PROVE q[s] = Sample(q[s - 1], s)
    <3>1. s \in a - 1 .. z /\ ~ (s < a)
      BY <1>1
    <3> HIDE DEF lo
    <3> QED  BY <1>8, <3>1
  <2>3. lo \in T /\ \A s \in lo + 1 .. z : s - 1 \in T => s \in T
    <3>1. \A s \in lo + 1 .. z : s \in a .. z /\ s \in lo .. z
      BY <1>1
    <3> QED  BY <1>1, <1>5, <1>6, <2>1, <2>2, <3>1
  <2>4. lo .. z \subseteq T
    <3>1. lo \in Int /\ z \in Int
      BY <1>1
    <3> HIDE DEF T, lo
    <3> QED  BY <2>3, <3>1, UpTo
  <2> QED  BY <1>1, <2>4
<1>9. Samples(a) = (CHOOSE q : q = Loop(q))[z].points
  BY DEF Samples, z, base
<1> HIDE DEF Loop
<1>10. Samples(a) = r[z].points
  BY <1>7, <1>8, <1>9
<1> QED  BY <1>5, <1>6, <1>10 DEF z, base

\* The receiver's times of the pairs of the seconds from a to z
Times(a, z) == {TimeOf(s) : s \in Paired \cap (a .. z)}

OrderedPairs(a, z) == \A u, v \in Paired \cap (a .. z) : u < v => TimeOf(u) < TimeOf(v)

\* The times of a list with one more point
LEMMA TimesMore ==
  ASSUME IInv, NEW a \in Int, NEW z \in Int, NEW s \in a .. z
  PROVE  /\ Times(a, s - 1) \in SUBSET Nat
         /\ s \notin Paired => Times(a, s) = Times(a, s - 1)
         /\ s \in Paired => Times(a, s) = Times(a, s - 1) \cup {TimeOf(s)}
         /\ s \in Paired /\ OrderedPairs(a, z) => \A u \in Times(a, s - 1) : u < TimeOf(s)
<1>1. a .. s = (a .. s - 1) \cup {s}
  OBVIOUS
<1>2. Times(a, s - 1) \in SUBSET Nat
  BY PairTime DEF Times, Seconds
<1>3. s \in Paired /\ OrderedPairs(a, z) => \A u \in Times(a, s - 1) : u < TimeOf(s)
  <2> SUFFICES ASSUME s \in Paired, OrderedPairs(a, z), NEW v \in Paired \cap (a .. s - 1)
               PROVE  TimeOf(v) < TimeOf(s)
    BY DEF Times
  <2>1. v \in a .. z /\ s \in a .. z /\ v < s
    OBVIOUS
  <2> QED  BY <2>1 DEF OrderedPairs
<1> QED  BY <1>1, <1>2, <1>3 DEF Times

\* The samples of a track are those of the grid that are in it
LEMMA SamplesListed ==
  ASSUME IInv, NEW a \in Seconds, OrderedPairs(a, TrackStop(a))
  PROVE  Lists(Samples(a), OnTheGrid(Times(a, TrackStop(a)), a, Sampling, 0, Day))
<1> DEFINE z == TrackStop(a)
           Good(m, s) == Sampled(m.tsearch, m.points, Times(a, s), a, Sampling, 0, Day)
<1>1. a \in Nat /\ z \in Nat /\ a <= z /\ Sampling \in Nat \ {0} /\ Day \in Nat
  BY BatchCount, TrackAssumption, DayAssumption DEF Seconds
<1>2. PICK r \in [a - 1 .. z -> SampleState] :
            /\ r[a - 1] = [tsearch |-> a, points |-> << >>]
            /\ \A s \in a .. z : r[s] = Sample(r[s - 1], s)
            /\ Samples(a) = r[z].points
  BY SamplesRun
<1>6. OrderedPairs(a, z)
  OBVIOUS
<1> HIDE DEF z
<1> DEFINE T == {s \in a - 1 .. z : Good(r[s], s)}
<1>3. a - 1 \in T
  <2>1. Times(a, a - 1) = {}
    BY <1>1 DEF Times
  <2>2. Good(r[a - 1], a - 1)
    <3>1. r[a - 1].tsearch = a /\ r[a - 1].points = << >>
      BY <1>2
    <3>2. Sampled(a, << >>, {}, a, Sampling, 0, Day)
      BY <1>1, SampledNone
    <3> QED  BY <2>1, <3>1, <3>2
  <2> QED  BY <1>1, <2>2
<1>4. ASSUME NEW s \in a .. z, s - 1 \in T PROVE s \in T
  <2> DEFINE m == r[s - 1]
             t == TimeOf(s)
             g == Advance(m.tsearch, t, Sampling)
  <2>1. m \in SampleState /\ m.points \in Seq(Nat) /\ r[s] = Sample(m, s) /\ Good(m, s - 1)
    BY <1>1, <1>2, <1>4 DEF SampleState
  <2>2. s \in a - 1 .. z
    BY <1>1
  <2> HIDE DEF m
  <2>3. CASE s \notin Paired
    <3>1. r[s] = m /\ Times(a, s) = Times(a, s - 1)
      BY <1>1, <2>1, <2>3, TimesMore DEF Sample
    <3> QED  BY <2>1, <2>2, <3>1
  <2>4. CASE s \in Paired
    <3>1. /\ Times(a, s) = Times(a, s - 1) \cup {t} /\ \A u \in Times(a, s - 1) : u < t
          /\ Times(a, s - 1) \in SUBSET Nat
      <4>1. a \in Int /\ z \in Int
        BY <1>1
      <4>2. Times(a, s) = Times(a, s - 1) \cup {t} /\ Times(a, s - 1) \in SUBSET Nat
        BY <2>4, <4>1, TimesMore
      <4>3. \A u \in Times(a, s - 1) : u < t
        BY <1>6, <2>4, <4>1, TimesMore
      <4> QED  BY <4>2, <4>3
    <3>2. t \in Nat /\ t < Day
      BY <1>1, <2>4, PairTime DEF Seconds
    <3>3. t + 0 = t
      BY <3>2
    <3>4. IF t = g /\ g <= Day
          THEN Sampled(g + Sampling, Append(m.points, t), Times(a, s), a, Sampling, 0, Day)
          ELSE Sampled(g, m.points, Times(a, s), a, Sampling, 0, Day)
      <4>1. /\ 0 \in Nat /\ Times(a, s - 1) \cup {t} = Times(a, s)
            /\ Sampled(m.tsearch, m.points, Times(a, s - 1), a, Sampling, 0, Day)
        BY <2>1, <3>1
      <4> HIDE DEF t, g
      <4>2. LET h == Advance(m.tsearch, t + 0, Sampling)
            IN  IF t + 0 = h /\ h <= Day
                THEN Sampled(h + Sampling, Append(m.points, t), Times(a, s - 1) \cup {t}, a, Sampling, 0, Day)
                ELSE Sampled(h, m.points, Times(a, s - 1) \cup {t}, a, Sampling, 0, Day)
        BY <1>1, <2>1, <3>1, <3>2, <4>1, SampledMore
      <4> QED  BY <3>3, <4>1, <4>2, Zenon DEF g
    <3>5. r[s] = IF t = g THEN [tsearch |-> g + Sampling, points |-> Append(m.points, t)]
                 ELSE [m EXCEPT !.tsearch = g]
      BY <2>1, <2>4, Zenon DEF Sample, TimeOf
    <3> HIDE DEF t, g
    <3>6. CASE t = g
      <4>1. g <= Day
        BY <1>1, <3>2, <3>6
      <4>2. r[s].tsearch = g + Sampling /\ r[s].points = Append(m.points, t)
        BY <3>5, <3>6
      <4> QED  BY <2>2, <3>4, <3>6, <4>1, <4>2
    <3>7. CASE t # g
      <4>1. r[s].tsearch = g /\ r[s].points = m.points
        BY <2>1, <3>5, <3>7 DEF SampleState
      <4> QED  BY <2>2, <3>4, <3>7, <4>1
    <3> QED  BY <3>6, <3>7
  <2> QED  BY <2>3, <2>4
<1>5. z \in T
  <2>1. a - 1 \in Int /\ z \in Int /\ \A s \in (a - 1) + 1 .. z : s \in a .. z
    BY <1>1
  <2> HIDE DEF T
  <2>2. a - 1 .. z \subseteq T
    BY <1>3, <1>4, <2>1, UpTo
  <2> QED  BY <1>1, <2>2
<1> QED  BY <1>2, <1>5 DEF Sampled, z

\* A second of a track has a pair if, and only if, there is a measurement to be used
LEMMA PairIffUsable ==
  ASSUME IInv, phase # "logging", NEW a \in Scheduled, NEW s \in a .. TrackStop(a)
  PROVE  /\ s \in Paired => mpairs[s].rm \in Usable /\ mpairs[s].rm.pc = s
         /\ \A e \in Usable : e.pc = s => s \in Paired /\ mpairs[s].rm = e
<1>1. /\ s \in Seconds /\ s \in StartTime .. SloppyStop /\ s \in SloppyStart .. SloppyStop
  <2>1. /\ a \in Seconds /\ StartTime \in Nat /\ StopTime \in Nat /\ Early \in Nat /\ Late \in Nat
        /\ NTRACKPOINTS \in Nat /\ NTRACKPOINTS - 1 <= Late /\ Day \in Nat
        /\ StartTime <= a /\ a <= StopTime
    BY DayAssumption, TrackAssumption, WindowAssumption DEF Scheduled, Seconds
  <2>2. s \in Nat /\ a <= s /\ s <= Day - 1 /\ s <= a + NTRACKPOINTS - 1
    BY <2>1 DEF TrackStop, Seconds
  <2>3. s <= SloppyStop /\ SloppyStop \in Nat
    <3>1. s <= StopTime + Late /\ StopTime + Late \in Nat /\ Day - 1 \in Nat
      BY <2>1, <2>2 DEF Seconds
    <3> QED  BY <2>2, <3>1 DEF SloppyStop
  <2>4. SloppyStart <= s /\ SloppyStart \in Nat
    <3>1. StartTime - Early <= s /\ StartTime - Early \in Int
      BY <2>1, <2>2 DEF Seconds
    <3> QED  BY <2>2, <3>1 DEF SloppyStart
  <2> QED  BY <2>1, <2>2, <2>3, <2>4 DEF Seconds
<1>2. /\ At(CounterRead, s) = {c \in counterFile : c.pc = s}
      /\ At(ReceiverRead, s) = {c \in receiverFile : c.pc = s}
  BY <1>1 DEF At, CounterRead, ReceiverRead, Read
<1>3. ASSUME s \in Paired PROVE mpairs[s].rm \in Usable /\ mpairs[s].rm.pc = s
  <2>1. /\ At(CounterRead, s) = {mpairs[s].cm} /\ At(ReceiverRead, s) = {mpairs[s].rm}
        /\ mpairs[s].rm.pc = s
    BY <1>3, InPair, PairTime
  <2> QED  BY <1>2, <2>1 DEF Usable
<1>4. ASSUME NEW e \in Usable, e.pc = s PROVE s \in Paired /\ mpairs[s].rm = e
  <2>1. At(ReceiverRead, s) = {e}
    BY <1>2, <1>4 DEF Usable
  <2>2. PICK c \in counterFile : c.pc = s
    BY <1>4 DEF Usable
  <2>3. At(CounterRead, s) = {c}
    BY <1>2, <1>4, <2>2 DEF Usable
  <2>4. mpairs[s] = PairAt(At(CounterRead, s), At(ReceiverRead, s))
    BY <1>1 DEF IInv, MatchedInv, matchMeasurements
  <2>5. mpairs[s] = PairAt({c}, {e})
    BY <2>1, <2>3, <2>4, Zenon
  <2>6. Matching(mpairs[s].flags) /\ mpairs[s].rm = e
    <3>1. Matching(PairAt({c}, {e}).flags) /\ PairAt({c}, {e}).rm = e
      BY OneOfEach, Zenon
    <3> QED  BY <2>5, <3>1, Zenon
  <2> QED  BY <1>1, <2>6 DEF Paired
<1> QED  BY <1>3, <1>4

\* Hence a track has its samples
LEMMA InvSamples == IInv /\ OutputsInv => SamplesComplete
<1> SUFFICES ASSUME IInv, OutputsInv, NEW k \in tracks, k.ver = "V2E"
             PROVE  LET mine == {e \in Usable : e.pc \in k.start .. k.start + NTRACKPOINTS - 1}
                    IN  InOrder(mine) =>
                          Lists(k.points, {e.t : e \in {f \in mine :
                                   f.t >= k.start /\ (f.t - k.start) % Sampling = 0}})
  BY DEF SamplesComplete
<1>1. PICK a : a = k.start
  OBVIOUS
<1>2. a \in Scheduled /\ a \in Seconds /\ k.points = Samples(a) /\ phase # "logging"
  BY <1>1, TrackAssumption DEF OutputsInv, Points, Scheduled
<1> DEFINE z == TrackStop(a)
           mine == {e \in Usable : e.pc \in a .. a + NTRACKPOINTS - 1}
<1> SUFFICES ASSUME InOrder(mine)
             PROVE  Lists(k.points, {e.t : e \in {f \in mine : f.t >= a /\ (f.t - a) % Sampling = 0}})
  BY <1>1
<1>3. /\ a \in Nat /\ z \in Nat /\ Sampling \in Nat \ {0} /\ NTRACKPOINTS \in Nat \ {0} /\ Day \in Nat
      /\ \A s \in Seconds : s \in a .. z <=> s \in a .. a + NTRACKPOINTS - 1
  <2>1. /\ a \in Nat /\ Sampling \in Nat \ {0} /\ NTRACKPOINTS \in Nat \ {0} /\ Day \in Nat \ {0}
        /\ a <= Day - 1
    BY <1>2, DayAssumption, TrackAssumption DEF Seconds
  <2> QED  BY <2>1 DEF TrackStop, Seconds
<1>4. ASSUME NEW e \in mine
      PROVE  e \in Entry /\ e.pc \in Paired \cap (a .. z) /\ mpairs[e.pc].rm = e
  <2>1. e \in Entry
    BY DEF Usable, IInv, FilesInv, Kept
  <2>2. e.pc \in a .. z
    BY <1>3, <2>1 DEF Entry
  <2> QED  BY <1>2, <2>1, <2>2, PairIffUsable
<1>5. ASSUME NEW s \in Paired \cap (a .. z) PROVE mpairs[s].rm \in mine /\ mpairs[s].rm.pc = s
  <2>1. mpairs[s].rm \in Usable /\ mpairs[s].rm.pc = s /\ s \in Seconds
    BY <1>2, PairIffUsable, PairTime
  <2> QED  BY <1>3, <2>1
<1> HIDE DEF mine, z
<1>6. OrderedPairs(a, z)
  BY <1>5 DEF OrderedPairs, InOrder, TimeOf
<1>7. Lists(Samples(a), OnTheGrid(Times(a, z), a, Sampling, 0, Day))
  BY <1>2, <1>6, SamplesListed DEF z
<1>8. Times(a, z) = {e.t : e \in mine}
  <2>1. ASSUME NEW t \in Times(a, z) PROVE t \in {e.t : e \in mine}
    <3>1. PICK s \in Paired \cap (a .. z) : t = TimeOf(s)
      BY DEF Times
    <3> QED  BY <1>5, <3>1 DEF TimeOf
  <2>2. ASSUME NEW e \in mine PROVE e.t \in Times(a, z)
    <3>1. e.t = TimeOf(e.pc)
      BY <1>4 DEF TimeOf
    <3> QED  BY <1>4, <3>1 DEF Times
  <2> QED  BY <2>1, <2>2
<1>9. ASSUME NEW e \in mine
      PROVE  e.t + 0 \in Grid(a, Sampling) /\ e.t + 0 <= Day <=> e.t >= a /\ (e.t - a) % Sampling = 0
  <2>1. e.t \in Nat /\ e.t + 0 = e.t /\ e.t <= Day
    BY <1>3, <1>4 DEF Entry, Seconds
  <2>2. e.t \in Grid(a, Sampling) => e.t >= a
    BY <1>3, GridNat
  <2> QED  BY <1>3, <2>1, <2>2, GridMod
<1>10. OnTheGrid(Times(a, z), a, Sampling, 0, Day)
         = {e.t : e \in {f \in mine : f.t >= a /\ (f.t - a) % Sampling = 0}}
  BY <1>8, <1>9 DEF OnTheGrid
<1> QED  BY <1>2, <1>7, <1>10

\* A V2E track has every measurement of its seconds that falls on a sampling time, in order.
THEOREM SamplesAreComplete == Spec => []SamplesComplete
BY InductiveInvariant, OutputsOfPairs, InvSamples, PTL

-----------------------------------------------------------------------------
(* The RINEX epochs *)

\* In GPS time a second is of this day or the next
LEMMA GPSDays ==
  ASSUME NEW t \in Seconds
  PROVE  /\ GPSDay(t) \in {0, 1} /\ GPSTimeOfDay(t) \in 0 .. Day - 1
         /\ t + Leap = GPSDay(t) * Day + GPSTimeOfDay(t)
         /\ GPSDay(t) = 0 <=> t + Leap < Day
<1>1. t \in Nat /\ t < Day /\ Leap \in Nat /\ Leap < Day /\ Day \in Nat \ {0} /\ t + Leap \in Nat
  BY DayAssumption, LeapAssumption DEF Seconds
<1> DEFINE q == (t + Leap) \div Day
           m == (t + Leap) % Day
<1>2. q \in Nat /\ m \in 0 .. Day - 1 /\ t + Leap = Day * q + m
  BY <1>1, Division
<1>3. q = GPSDay(t) /\ m = GPSTimeOfDay(t)
  BY DEF GPSDay, GPSTimeOfDay
<1> HIDE DEF q, m
<1>4. ~ (q >= 2)
  BY <1>1, <1>2
<1>5. q = 0 \/ q = 1
  BY <1>2, <1>4
<1>6. t + Leap = q * Day + m /\ (q = 0 <=> t + Leap < Day)
  <2>1. CASE q = 0
    BY <1>1, <1>2, <2>1
  <2>2. CASE q = 1
    BY <1>1, <1>2, <2>2
  <2> QED  BY <1>5, <2>1, <2>2
<1> QED  BY <1>2, <1>3, <1>5, <1>6

EpochState == [yday : {-1, 0, 1}, rollovers : Nat, obsTime : Nat, out : Seq(Seconds)]

\* What a pair makes of the state before the GPS day is over
LEMMA EpochOf ==
  ASSUME IInv, NEW m \in EpochState, NEW s \in Paired, m.obsTime <= Day
  PROVE  LET t == TimeOf(s)
             x == Rollovers(m, t) * Day + GPSTimeOfDay(t)
             g == Advance(m.obsTime, x, Interval)
         IN  /\ t \in Seconds /\ x \in Nat /\ g \in Nat /\ Rollovers(m, t) \in Nat
             /\ Epoch(m, s) \in EpochState
             /\ Epoch(m, s).yday = GPSDay(t) /\ Epoch(m, s).rollovers = Rollovers(m, t)
             /\ x = g /\ g <= Day => /\ Epoch(m, s).obsTime = g + Interval
                                     /\ Epoch(m, s).out = Append(m.out, t)
             /\ ~ (x = g /\ g <= Day) => Epoch(m, s).obsTime = g /\ Epoch(m, s).out = m.out
<1> DEFINE t == TimeOf(s)
           R == Rollovers(m, t)
           x == R * Day + GPSTimeOfDay(t)
           g == Advance(m.obsTime, x, Interval)
           e == Epoch(m, s)
           w == x = g /\ g <= Day
<1>1. t \in Seconds
  BY PairTime
<1>2. /\ m.yday \in {-1, 0, 1} /\ m.rollovers \in Nat /\ m.obsTime \in Nat /\ m.out \in Seq(Seconds)
      /\ Day \in Nat /\ Interval \in Nat \ {0}
  BY DayAssumption, TrackAssumption DEF EpochState
<1>3. R \in Nat
  <2> HIDE DEF t
  <2> QED  BY <1>2 DEF Rollovers
<1> HIDE DEF t, R
<1>4. x \in Nat /\ GPSDay(t) \in {-1, 0, 1}
  <2>1. R * Day \in Nat
    BY <1>2, <1>3
  <2>2. GPSTimeOfDay(t) \in Nat
    BY <1>1, <1>2, GPSDays
  <2> QED  BY <1>1, <2>1, <2>2, GPSDays
<1> HIDE DEF x
<1>5. g \in Nat
  <2>1. m.obsTime \in Grid(m.obsTime, Interval)
    BY <1>2, GridNat
  <2>2. g \in Grid(m.obsTime, Interval)
    BY <1>2, <1>4, <2>1, AdvanceOnGrid
  <2> HIDE DEF g
  <2> QED  BY <1>2, <2>2, GridNat
<1>6. e = [yday |-> GPSDay(t), rollovers |-> R, obsTime |-> IF w THEN g + Interval ELSE g,
           out |-> IF w THEN Append(m.out, t) ELSE m.out]
  <2>1. ~ (s \notin Paired \/ m.obsTime > Day)
    BY <1>2
  <2> QED  BY <2>1, Zenon DEF Epoch, t, R, x, g, TimeOf
<1> HIDE DEF g, e, w
<1>7. g + Interval \in Nat /\ Append(m.out, t) \in Seq(Seconds)
  BY <1>1, <1>2, <1>5
<1>8. e \in EpochState
  <2>1. CASE w
    BY <1>3, <1>4, <1>6, <1>7, <2>1 DEF EpochState
  <2>2. CASE ~ w
    BY <1>2, <1>3, <1>4, <1>5, <1>6, <2>2 DEF EpochState
  <2> QED  BY <2>1, <2>2
<1>9. /\ e.yday = GPSDay(t) /\ e.rollovers = R
      /\ w => e.obsTime = g + Interval /\ e.out = Append(m.out, t)
      /\ ~ w => e.obsTime = g /\ e.out = m.out
  BY <1>6
<1> QED  BY <1>1, <1>3, <1>4, <1>5, <1>8, <1>9, Zenon DEF e, w, g, x, R, t

\* What the loop over the epochs keeps
LEMMA EpochTyped ==
  ASSUME IInv, NEW m \in EpochState, NEW s
  PROVE  Epoch(m, s) \in EpochState
<1>1. CASE s \notin Paired \/ m.obsTime > Day
  BY <1>1 DEF Epoch
<1>2. CASE s \in Paired /\ m.obsTime <= Day
  BY <1>2, EpochOf
<1>3. m.obsTime \in Nat /\ Day \in Nat
  BY DayAssumption DEF EpochState
<1> QED  BY <1>1, <1>2, <1>3

\* The loop over the epochs, second by second
LEMMA EpochsRun ==
  ASSUME IInv
  PROVE  \E r \in [-1 .. Day - 1 -> EpochState] :
            /\ r[-1] = [yday |-> -1, rollovers |-> 0, obsTime |-> 0, out |-> << >>]
            /\ \A s \in 0 .. Day - 1 : r[s] = Epoch(r[s - 1], s)
            /\ Epochs = r[Day - 1].out
<1> DEFINE z == Day - 1
           lo == -1
           base == [yday |-> -1, rollovers |-> 0, obsTime |-> 0, out |-> << >>]
           G == [s \in lo + 1 .. z |-> [m \in EpochState |-> Epoch(m, s)]]
<1>1. z \in Nat
  BY DayAssumption
<1> HIDE DEF z
<1>2. base \in EpochState
  BY DEF EpochState
<1>3. G \in [lo + 1 .. z -> [EpochState -> EpochState]]
  BY EpochTyped
<1> HIDE DEF base
<1>4. PICK r \in [lo .. z -> EpochState] : Runs(r, lo, z, base, G)
  <2>1. lo \in Int /\ z \in Int /\ lo <= z
    BY <1>1
  <2> HIDE DEF G, lo
  <2> QED  BY <1>2, <1>3, <2>1, LoopRuns
<1>5. \A s \in 0 .. z : r[s] = Epoch(r[s - 1], s)
  <2> SUFFICES ASSUME NEW s \in 0 .. z PROVE r[s] = Epoch(r[s - 1], s)
    OBVIOUS
  <2>1. r[s - 1] \in EpochState /\ s \in lo + 1 .. z
    BY <1>1
  <2>2. G[s][r[s - 1]] = Epoch(r[s - 1], s)
    BY <2>1
  <2> QED  BY <1>4, <2>1, <2>2 DEF Runs
<1>6. r[lo] = base
  BY <1>4 DEF Runs
<1> DEFINE Loop(q) == [s \in -1 .. z |-> IF s < 0 THEN base ELSE Epoch(q[s - 1], s)]
<1>7. r = Loop(r)
  BY <1>1, <1>5, <1>6
<1>8. ASSUME NEW q, q = Loop(q) PROVE q[z] = r[z]
  <2> DEFINE T == {s \in lo .. z : q[s] = r[s]}
  <2>1. q[lo] = base
    BY <1>1, <1>8
  <2>2. ASSUME NEW s \in lo + 1 .. z PROVE q[s] = Epoch(q[s - 1], s)
    <3>1. s \in -1 .. z /\ ~ (s < 0)
      BY <1>1
    <3> HIDE DEF lo
    <3> QED  BY <1>8, <3>1
  <2>3. lo \in T /\ \A s \in lo + 1 .. z : s - 1 \in T => s \in T
    <3>1. \A s \in lo + 1 .. z : s \in 0 .. z /\ s \in lo .. z
      BY <1>1
    <3> QED  BY <1>1, <1>5, <1>6, <2>1, <2>2, <3>1
  <2>4. lo .. z \subseteq T
    <3>1. lo \in Int /\ z \in Int
      BY <1>1
    <3> HIDE DEF T, lo
    <3> QED  BY <2>3, <3>1, UpTo
  <2> QED  BY <1>1, <2>4
<1>9. Epochs = (CHOOSE q : q = Loop(q))[z].out
  BY DEF Epochs, z, base
<1> HIDE DEF Loop
<1>10. Epochs = r[z].out
  BY <1>7, <1>8, <1>9
<1> QED  BY <1>5, <1>6, <1>10 DEF z, base

\* What has been written of the GPS day, whatever the order of the measurements: up to the
\* midnight that ends it all epochs are of one day; that midnight is the last.
InDay(m, S) ==
  /\ m.yday = -1 => S = {} /\ m.rollovers = 0
  /\ m.obsTime <= Day => \A u \in S : /\ GPSTimeOfDay(u) < m.obsTime
                                      /\ m.rollovers = 0 => GPSDay(u) = m.yday
                                      /\ m.rollovers = 1 => GPSDay(u) = 1 - m.yday

GridInv(m) ==
  \E S \in SUBSET Seconds :
     /\ Lists(m.out, S) /\ \A u \in S : GPSTimeOfDay(u) \in Grid(0, Interval)
     /\ m.obsTime \in Grid(0, Interval)
     /\ InDay(m, S)

\* A sequence of numbers that are not less than 0
LEMMA NatSeq ==
  ASSUME NEW q \in Seq(Seconds)
  PROVE  q \in Seq(Nat)
<1>1. Len(q) \in Nat /\ q \in [1 .. Len(q) -> Seconds]
  OBVIOUS
<1>2. q \in [1 .. Len(q) -> Nat]
  BY <1>1 DEF Seconds
<1> QED  BY <1>1, <1>2

\* What is written next is a later point of the grid than all that were written
LEMMA EpochInDay ==
  ASSUME IInv, NEW m \in EpochState, NEW s \in Paired, m.obsTime <= Day,
         NEW S \in SUBSET Seconds, InDay(m, S), m.obsTime \in Grid(0, Interval)
  PROVE  LET t == TimeOf(s)
             e == Epoch(m, s)
             x == Rollovers(m, t) * Day + GPSTimeOfDay(t)
             g == Advance(m.obsTime, x, Interval)
         IN  /\ g \in Grid(0, Interval)
             /\ x = g /\ g <= Day => /\ GPSTimeOfDay(t) \in Grid(0, Interval)
                                     /\ \A u \in S : u < t
                                     /\ InDay(e, S \cup {t})
             /\ ~ (x = g /\ g <= Day) => InDay(e, S)
<1> DEFINE t == TimeOf(s)
           e == Epoch(m, s)
           R == Rollovers(m, t)
           tod == GPSTimeOfDay(t)
           x == R * Day + tod
           g == Advance(m.obsTime, x, Interval)
<1>1. /\ t \in Seconds /\ x \in Nat /\ R \in Nat
      /\ e.yday = GPSDay(t) /\ e.rollovers = R
      /\ x = g /\ g <= Day => e.obsTime = g + Interval
      /\ ~ (x = g /\ g <= Day) => e.obsTime = g
  BY EpochOf, Zenon
<1>2. /\ m.yday \in {-1, 0, 1} /\ m.rollovers \in Nat /\ m.obsTime \in Nat
      /\ Day \in Nat \ {0} /\ Interval \in Nat \ {0}
  BY DayAssumption, TrackAssumption DEF EpochState
<1>3. R = IF m.yday = -1 \/ m.yday = GPSDay(t) THEN m.rollovers ELSE m.rollovers + 1
  BY Zenon DEF Rollovers
<1> HIDE DEF t, e, R, x
<1>4. /\ GPSDay(t) \in {0, 1} /\ tod \in 0 .. Day - 1
      /\ t + Leap = GPSDay(t) * Day + tod
      /\ \A u \in S : GPSDay(u) \in {0, 1} /\ u \in Nat /\ GPSTimeOfDay(u) \in 0 .. Day - 1
                      /\ u + Leap = GPSDay(u) * Day + GPSTimeOfDay(u) /\ u < Day
  BY <1>1, <1>2, GPSDays DEF Seconds
<1> HIDE DEF tod
<1>5. g \in Grid(0, Interval) /\ g >= m.obsTime /\ g \in Nat
  <2>1. g \in Grid(0, Interval) /\ g >= m.obsTime
    BY <1>1, <1>2, AdvanceOnGrid
  <2> HIDE DEF g
  <2> QED  BY <1>2, <2>1, GridNat
<1> HIDE DEF g
<1>6. /\ t \in Nat /\ Leap \in Nat
      /\ \A u \in S : /\ GPSTimeOfDay(u) < m.obsTime
                      /\ m.rollovers = 0 => GPSDay(u) = m.yday
                      /\ m.rollovers = 1 => GPSDay(u) = 1 - m.yday
  BY <1>1, LeapAssumption DEF InDay, Seconds
\* The days of what was written and of the new measurement
<1>7. ASSUME NEW u \in S
      PROVE  (R = 0 => GPSDay(u) = GPSDay(t)) /\ (R = 1 => GPSDay(u) = 1 - GPSDay(t))
  <2>1. m.yday # -1
    BY DEF InDay
  <2>2. CASE m.yday = GPSDay(t)
    BY <1>2, <1>3, <1>6, <2>1, <2>2
  <2>3. CASE m.yday # GPSDay(t)
    <3>1. R = m.rollovers + 1
      BY <1>3, <2>1, <2>3
    <3>2. R # 0 /\ (R = 1 => m.rollovers = 0)
      BY <1>2, <3>1
    <3>3. GPSDay(t) \in {0, 1} /\ m.yday \in {0, 1}
      BY <1>2, <1>4, <2>1
    <3>4. m.yday = 1 - GPSDay(t)
      BY <2>3, <3>3
    <3> QED  BY <1>6, <3>2, <3>4
  <2> QED  BY <2>2, <2>3
<1>8. ASSUME x = g, g <= Day
      PROVE  tod \in Grid(0, Interval) /\ (\A u \in S : u < t) /\ InDay(e, S \cup {t})
  <2>1. \/ R = 0 /\ x = tod
        \/ R = 1 /\ tod = 0 /\ g = Day
    <3>1. ~ (R >= 2)
      <4> SUFFICES ASSUME R >= 2 PROVE FALSE
        OBVIOUS
      <4>1. R * Day >= 2 * Day /\ R * Day \in Nat
        BY <1>1, <1>2
      <4>2. x >= R * Day
        BY <1>4, <4>1 DEF x
      <4> QED  BY <1>1, <1>2, <1>8, <4>1, <4>2
    <3>2. R = 0 \/ R = 1
      BY <1>1, <3>1
    <3>3. CASE R = 0
      <4>1. R * Day = 0
        BY <1>2, <3>3
      <4>2. x = 0 + tod /\ tod \in Int
        BY <1>2, <1>4, <4>1 DEF x
      <4> QED  BY <3>3, <4>2
    <3>4. CASE R = 1
      BY <1>2, <1>4, <1>5, <1>8, <3>4 DEF x
    <3> QED  BY <3>2, <3>3, <3>4
  <2>2. tod \in Grid(0, Interval)
    BY <1>2, <1>5, <1>8, <2>1, GridNat
  <2>3. ASSUME NEW u \in S PROVE u < t
    <3>1. CASE R = 0 /\ x = tod
      <4>1. GPSDay(u) = GPSDay(t) /\ GPSTimeOfDay(u) < tod
        BY <1>2, <1>4, <1>5, <1>6, <1>7, <1>8, <3>1
      <4>2. GPSDay(u) * Day = GPSDay(t) * Day /\ GPSDay(t) * Day \in Int
        BY <1>2, <1>4, <4>1
      <4> QED  BY <1>4, <1>6, <4>1, <4>2
    <3>2. CASE R = 1 /\ tod = 0
      <4>1. GPSDay(u) = 1 - GPSDay(t)
        BY <1>7, <3>2
      <4>2. CASE GPSDay(t) = 0
        BY <1>2, <1>4, <1>6, <3>2, <4>1, <4>2
      <4>3. CASE GPSDay(t) = 1
        BY <1>2, <1>4, <1>6, <3>2, <4>1, <4>3
      <4> QED  BY <1>4, <4>2, <4>3
    <3> QED  BY <2>1, <3>1, <3>2
  <2>4. e.obsTime = g + Interval
    BY <1>1, <1>8
  <2>5. InDay(e, S \cup {t})
    <3>1. e.yday # -1
      BY <1>1, <1>4
    <3>2. ASSUME e.obsTime <= Day, NEW u \in S \cup {t}
          PROVE  /\ GPSTimeOfDay(u) < e.obsTime
                 /\ R = 0 => GPSDay(u) = GPSDay(t)
                 /\ R = 1 => GPSDay(u) = 1 - GPSDay(t)
      <4>1. R = 0 /\ x = tod
        BY <1>2, <2>1, <2>4, <3>2
      <4>2. CASE u = t
        BY <1>2, <1>4, <1>5, <1>8, <2>4, <4>1, <4>2 DEF tod
      <4>3. CASE u \in S
        BY <1>2, <1>4, <1>5, <1>6, <1>7, <2>4, <4>1, <4>3
      <4> QED  BY <4>2, <4>3
    <3> QED  BY <1>1, <3>1, <3>2 DEF InDay
  <2> QED  BY <2>2, <2>3, <2>5
<1>9. ASSUME ~ (x = g /\ g <= Day) PROVE InDay(e, S)
  <2>1. e.obsTime = g /\ e.yday # -1
    BY <1>1, <1>4, <1>9
  <2>2. ASSUME NEW u \in S PROVE GPSTimeOfDay(u) < g
    BY <1>2, <1>4, <1>5, <1>6
  <2> QED  BY <1>1, <1>7, <2>1, <2>2 DEF InDay
<1> QED  BY <1>5, <1>8, <1>9, Zenon DEF t, e, R, x, g, tod

\* The time looked for stays on the grid, and what is written is on it
LEMMA EpochGrid ==
  ASSUME IInv, NEW m \in EpochState, NEW s, GridInv(m)
  PROVE  GridInv(Epoch(m, s))
<1>1. CASE s \notin Paired \/ m.obsTime > Day
  BY <1>1 DEF Epoch
<1>2. CASE s \in Paired /\ m.obsTime <= Day
  <2> DEFINE t == TimeOf(s)
             e == Epoch(m, s)
             x == Rollovers(m, t) * Day + GPSTimeOfDay(t)
             g == Advance(m.obsTime, x, Interval)
  <2>1. PICK S \in SUBSET Seconds :
           /\ Lists(m.out, S) /\ \A u \in S : GPSTimeOfDay(u) \in Grid(0, Interval)
           /\ m.obsTime \in Grid(0, Interval)
           /\ InDay(m, S)
    BY DEF GridInv
  <2>2. /\ t \in Seconds
        /\ x = g /\ g <= Day => e.obsTime = g + Interval /\ e.out = Append(m.out, t)
        /\ ~ (x = g /\ g <= Day) => e.obsTime = g /\ e.out = m.out
    BY <1>2, EpochOf, Zenon
  <2>3. /\ g \in Grid(0, Interval)
        /\ x = g /\ g <= Day => /\ GPSTimeOfDay(t) \in Grid(0, Interval)
                                /\ \A u \in S : u < t
                                /\ InDay(e, S \cup {t})
        /\ ~ (x = g /\ g <= Day) => InDay(e, S)
    BY <1>2, <2>1, EpochInDay, Zenon
  <2>4. g + Interval \in Grid(0, Interval)
    <3> HIDE DEF g
    <3> QED  BY <2>3, TrackAssumption, GridNat
  <2> HIDE DEF t, e, x, g
  <2>5. CASE x = g /\ g <= Day
    <3>1. Lists(e.out, S \cup {t})
      <4>1. m.out \in Seq(Nat) /\ S \in SUBSET Nat /\ t \in Nat
        <5>1. m.out \in Seq(Seconds) /\ Seconds \subseteq Nat
          BY DEF EpochState, Seconds
        <5> QED  BY <2>2, <5>1, NatSeq
      <4>2. \A u \in S : u < t
        BY <2>3, <2>5
      <4> QED  BY <2>1, <2>2, <2>5, <4>1, <4>2, ListsMore
    <3>2. S \cup {t} \in SUBSET Seconds
      BY <2>2
    <3>3. \A u \in S \cup {t} : GPSTimeOfDay(u) \in Grid(0, Interval)
      BY <2>1, <2>3, <2>5
    <3>4. e.obsTime \in Grid(0, Interval) /\ InDay(e, S \cup {t})
      BY <2>2, <2>3, <2>4, <2>5
    <3>5. GridInv(e)
      BY <3>1, <3>2, <3>3, <3>4 DEF GridInv
    <3> QED  BY <3>5 DEF e
  <2>6. CASE ~ (x = g /\ g <= Day)
    <3>1. GridInv(e)
      BY <2>1, <2>2, <2>3, <2>6 DEF GridInv
    <3> QED  BY <3>1 DEF e
  <2> QED  BY <2>5, <2>6
<1>3. m.obsTime \in Nat /\ Day \in Nat
  BY DayAssumption DEF EpochState
<1> QED  BY <1>1, <1>2, <1>3

\* Hence every epoch of the file is
LEMMA EpochsOnGrid == IInv /\ OutputsInv => OnGrid
<1> SUFFICES ASSUME IInv, OutputsInv PROVE OnGrid
  OBVIOUS
<1>1. CASE phase # "written"
  <2>1. rinex = << >>
    BY <1>1 DEF OutputsInv
  <2> QED  BY <2>1 DEF OnGrid
<1>2. CASE phase = "written"
  <2>1. PICK r \in [-1 .. Day - 1 -> EpochState] :
            /\ r[-1] = [yday |-> -1, rollovers |-> 0, obsTime |-> 0, out |-> << >>]
            /\ \A s \in 0 .. Day - 1 : r[s] = Epoch(r[s - 1], s)
            /\ Epochs = r[Day - 1].out
    BY EpochsRun
  <2> DEFINE T == {s \in -1 .. Day - 1 : GridInv(r[s])}
  <2>2. Day \in Nat \ {0} /\ Interval \in Nat \ {0}
    BY DayAssumption, TrackAssumption
  <2>3. -1 \in T
    <3>1. Lists(<< >>, {}) /\ 0 \in Grid(0, Interval)
      BY <2>2, GridNat DEF Lists, Range
    <3>2. InDay(r[-1], {})
      BY <2>1 DEF InDay
    <3>3. r[-1].out = << >> /\ r[-1].obsTime = 0
      BY <2>1
    <3>4. GridInv(r[-1])
      BY <3>1, <3>2, <3>3 DEF GridInv
    <3> QED  BY <2>2, <3>4
  <2>4. ASSUME NEW s \in (-1) + 1 .. Day - 1, s - 1 \in T PROVE s \in T
    <3>1. s \in 0 .. Day - 1 /\ s - 1 \in -1 .. Day - 1 /\ s \in -1 .. Day - 1
      BY <2>2
    <3>2. r[s] = Epoch(r[s - 1], s) /\ r[s - 1] \in EpochState /\ GridInv(r[s - 1])
      BY <2>1, <2>4, <3>1
    <3>3. GridInv(r[s])
      BY <3>2, EpochGrid
    <3> QED  BY <3>1, <3>3
  <2>5. Day - 1 \in T
    <3>1. -1 \in Int /\ Day - 1 \in Int
      BY <2>2
    <3> HIDE DEF T
    <3>2. -1 .. Day - 1 \subseteq T
      BY <2>3, <2>4, <3>1, UpTo
    <3> QED  BY <2>2, <3>2
  <2>6. PICK S \in SUBSET Seconds : Lists(rinex, S) /\ \A u \in S : GPSTimeOfDay(u) \in Grid(0, Interval)
    BY <1>2, <2>1, <2>5 DEF OutputsInv, GridInv
  <2>7. ASSUME NEW i \in DOMAIN rinex PROVE GPSTimeOfDay(rinex[i]) % Interval = 0
    <3>1. rinex[i] \in S
      BY <2>6 DEF Lists, Range
    <3> DEFINE tod == GPSTimeOfDay(rinex[i])
    <3>2. tod \in Grid(0, Interval) /\ tod \in Nat
      BY <2>2, <2>6, <3>1, GridNat
    <3> HIDE DEF tod
    <3>3. tod >= 0 /\ tod - 0 = tod /\ 0 \in Nat
      BY <3>2
    <3>4. (tod - 0) % Interval = 0
      BY <2>2, <3>2, <3>3, GridMod
    <3>5. tod % Interval = 0
      BY <3>3, <3>4
    <3> QED  BY <3>5 DEF tod
  <2> QED  BY <2>6, <2>7 DEF OnGrid, Lists
<1> QED  BY <1>1, <1>2

\* A time beyond what is left of the grid
LEMMA SampledOver ==
  ASSUME NEW b \in Nat, NEW step \in Nat \ {0}, NEW d \in Nat, NEW top \in Nat,
         NEW obs, NEW out, NEW M \in SUBSET Nat, NEW t \in Nat, \A u \in M : u < t,
         Sampled(obs, out, M, b, step, d, top), obs > top
  PROVE  Sampled(obs, out, M \cup {t}, b, step, d, top)
<1>1. obs \in Nat
  BY GridNat DEF Sampled
<1>2. ~ (t + d \in Grid(b, step) /\ t + d <= top)
  <2> SUFFICES ASSUME t + d \in Grid(b, step), t + d <= top PROVE FALSE
    OBVIOUS
  <2>1. t + d < obs
    BY <1>1
  <2>2. PICK u \in M : t + d <= u + d
    BY <2>1 DEF Sampled
  <2> QED  BY <2>2
<1>3. OnTheGrid(M \cup {t}, b, step, d, top) = OnTheGrid(M, b, step, d, top)
  BY <1>2 DEF OnTheGrid
<1> QED  BY <1>3 DEF Sampled

\* With the measurements in order the rollovers are the GPS day.
DaysInOrder(m, M) ==
  m.obsTime <= Day =>
     \/ m.yday = -1 /\ m.rollovers = 0 /\ M = {}
     \/ m.yday = m.rollovers /\ \E t \in M : GPSDay(t) = m.yday

EpochListed(m, M) ==
  /\ Sampled(m.obsTime, m.out, M, 0, Interval, Leap, Day)
  /\ DaysInOrder(m, M)

\* One second more: an epoch is written if it is on the grid and was measured
LEMMA EpochMore ==
  ASSUME IInv, NEW m \in EpochState, NEW s \in Paired, NEW M \in SUBSET Seconds,
         \A u \in M : u < TimeOf(s), M = {} => GPSDay(TimeOf(s)) = 0, EpochListed(m, M)
  PROVE  EpochListed(Epoch(m, s), M \cup {TimeOf(s)})
<1> DEFINE t == TimeOf(s)
           e == Epoch(m, s)
           R == Rollovers(m, t)
           x == R * Day + GPSTimeOfDay(t)
           g == Advance(m.obsTime, x, Interval)
<1>1. /\ m.yday \in {-1, 0, 1} /\ m.rollovers \in Nat /\ m.obsTime \in Nat /\ m.out \in Seq(Nat)
      /\ Day \in Nat \ {0} /\ Interval \in Nat \ {0} /\ Leap \in Nat /\ M \in SUBSET Nat
  <2>1. m.out \in Seq(Seconds) /\ Seconds \subseteq Nat
    BY DEF EpochState, Seconds
  <2>2. m.out \in Seq(Nat)
    BY <2>1, NatSeq
  <2>3. Leap \in Nat /\ Day \in Nat \ {0} /\ Interval \in Nat \ {0}
    BY <2>1, DayAssumption, TrackAssumption, LeapAssumption
  <2> QED  BY <2>1, <2>2, <2>3 DEF EpochState
<1>2. t \in Seconds /\ t \in Nat
  BY PairTime DEF Seconds
<1>3. CASE m.obsTime > Day
  <2>1. e = m
    BY <1>3, Zenon DEF Epoch
  <2>2. Sampled(m.obsTime, m.out, M \cup {t}, 0, Interval, Leap, Day)
    <3> HIDE DEF t
    <3>1. \A u \in M : u < t
      BY DEF t
    <3>2. 0 \in Nat /\ Day \in Nat
      BY <1>1
    <3> QED  BY <1>1, <1>2, <1>3, <3>1, <3>2, SampledOver DEF EpochListed
  <2>3. DaysInOrder(m, M \cup {t})
    BY <1>1, <1>3 DEF DaysInOrder
  <2> QED  BY <2>1, <2>2, <2>3, Zenon DEF EpochListed
<1>4. CASE m.obsTime <= Day
  <2>1. /\ e.yday = GPSDay(t) /\ e.rollovers = R
        /\ x = g /\ g <= Day => e.obsTime = g + Interval /\ e.out = Append(m.out, t)
        /\ ~ (x = g /\ g <= Day) => e.obsTime = g /\ e.out = m.out
    BY <1>4, EpochOf, Zenon
  <2>2. R = IF m.yday = -1 \/ m.yday = GPSDay(t) THEN m.rollovers ELSE m.rollovers + 1
    BY Zenon DEF Rollovers
  <2>3. /\ \A u \in M : u < t
        /\ M = {} => GPSDay(t) = 0
    OBVIOUS
  <2> HIDE DEF t, e, R
  <2>4. /\ GPSDay(t) \in {0, 1} /\ t + Leap = GPSDay(t) * Day + GPSTimeOfDay(t)
        /\ GPSDay(t) = 0 <=> t + Leap < Day
    BY <1>2, GPSDays
  <2>5. R = GPSDay(t)
    <3>1. CASE m.yday = -1 /\ m.rollovers = 0 /\ M = {}
      BY <2>2, <2>3, <3>1
    <3>2. CASE m.yday = m.rollovers /\ \E u \in M : GPSDay(u) = m.yday
      <4>1. PICK u \in M : GPSDay(u) = m.yday
        BY <3>2
      <4>2. u \in Nat /\ u < t /\ GPSDay(u) \in {0, 1} /\ (GPSDay(u) = 0 <=> u + Leap < Day)
        BY <1>1, <2>3, GPSDays
      <4>3. GPSDay(u) = 1 => GPSDay(t) = 1
        BY <1>1, <1>2, <2>4, <4>2
      <4>4. CASE m.yday = GPSDay(t)
        BY <1>1, <2>2, <3>2, <4>4
      <4>5. CASE m.yday # GPSDay(t)
        <5>1. m.yday = 0 /\ GPSDay(t) = 1 /\ m.rollovers = 0
          BY <2>4, <3>2, <4>1, <4>2, <4>3, <4>5
        <5> QED  BY <2>2, <5>1
      <4> QED  BY <4>4, <4>5
    <3> QED  BY <1>4, <3>1, <3>2 DEF EpochListed, DaysInOrder
  <2>6. x = t + Leap
    BY <2>4, <2>5
  <2> HIDE DEF x
  <2>7. DaysInOrder(e, M \cup {t})
    BY <2>1, <2>5 DEF DaysInOrder
  <2>8. IF x = g /\ g <= Day
        THEN Sampled(g + Interval, Append(m.out, t), M \cup {t}, 0, Interval, Leap, Day)
        ELSE Sampled(g, m.out, M \cup {t}, 0, Interval, Leap, Day)
    <3>1. 0 \in Nat /\ Day \in Nat /\ Sampled(m.obsTime, m.out, M, 0, Interval, Leap, Day)
      BY <1>1 DEF EpochListed
    <3>2. LET h == Advance(m.obsTime, t + Leap, Interval)
          IN  IF t + Leap = h /\ h <= Day
              THEN Sampled(h + Interval, Append(m.out, t), M \cup {t}, 0, Interval, Leap, Day)
              ELSE Sampled(h, m.out, M \cup {t}, 0, Interval, Leap, Day)
      BY <1>1, <1>2, <2>3, <3>1, SampledMore
    <3> QED  BY <2>6, <3>2, Zenon DEF g
  <2> HIDE DEF g
  <2>9. CASE x = g /\ g <= Day
    <3>1. EpochListed(e, M \cup {t})
      BY <2>1, <2>7, <2>8, <2>9 DEF EpochListed
    <3> QED  BY <3>1 DEF e, t
  <2>10. CASE ~ (x = g /\ g <= Day)
    <3>1. EpochListed(e, M \cup {t})
      BY <2>1, <2>7, <2>8, <2>10 DEF EpochListed
    <3> QED  BY <3>1 DEF e, t
  <2> QED  BY <2>9, <2>10
<1> QED  BY <1>1, <1>3, <1>4

\* The epochs are those of the grid that were measured
LEMMA EpochsListed ==
  ASSUME IInv, OrderedPairs(0, Day - 1), NEW p \in Paired, GPSDay(TimeOf(p)) = 0
  PROVE  Lists(Epochs, OnTheGrid(Times(0, Day - 1), 0, Interval, Leap, Day))
<1>1. PICK r \in [-1 .. Day - 1 -> EpochState] :
          /\ r[-1] = [yday |-> -1, rollovers |-> 0, obsTime |-> 0, out |-> << >>]
          /\ \A s \in 0 .. Day - 1 : r[s] = Epoch(r[s - 1], s)
          /\ Epochs = r[Day - 1].out
  BY EpochsRun
<1>2. Day \in Nat \ {0} /\ Interval \in Nat \ {0} /\ Leap \in Nat /\ Day - 1 \in Nat
  BY DayAssumption, TrackAssumption, LeapAssumption DEF Seconds
<1> DEFINE T == {s \in -1 .. Day - 1 : EpochListed(r[s], Times(0, s))}
<1>3. -1 \in T
  <2>1. Times(0, -1) = {}
    BY DEF Times
  <2>2. Sampled(0, << >>, {}, 0, Interval, Leap, Day)
    BY <1>2, SampledNone
  <2>3. r[-1].obsTime = 0 /\ r[-1].out = << >> /\ r[-1].yday = -1 /\ r[-1].rollovers = 0
    BY <1>1
  <2>4. EpochListed(r[-1], {})
    BY <2>2, <2>3 DEF EpochListed, DaysInOrder
  <2> QED  BY <1>2, <2>1, <2>4
<1>4. ASSUME NEW s \in (-1) + 1 .. Day - 1, s - 1 \in T PROVE s \in T
  <2>1. s \in 0 .. Day - 1 /\ s - 1 \in -1 .. Day - 1 /\ s \in -1 .. Day - 1 /\ 0 \in Int /\ Day - 1 \in Int
    BY <1>2
  <2>2. r[s] = Epoch(r[s - 1], s) /\ r[s - 1] \in EpochState /\ EpochListed(r[s - 1], Times(0, s - 1))
    BY <1>1, <1>4, <2>1
  <2>3. CASE s \notin Paired
    <3>1. r[s] = r[s - 1]
      BY <2>2, <2>3 DEF Epoch
    <3>2. Times(0, s) = Times(0, s - 1)
      BY <2>1, <2>3, TimesMore
    <3> QED  BY <2>1, <2>2, <3>1, <3>2
  <2>4. CASE s \in Paired
    <3>1. Times(0, s) = Times(0, s - 1) \cup {TimeOf(s)}
      BY <2>1, <2>4, TimesMore
    <3>2. \A u \in Times(0, s - 1) : u < TimeOf(s)
      BY <2>1, <2>4, TimesMore
    <3>3. Times(0, s - 1) \in SUBSET Seconds
      BY PairTime DEF Times
    <3>4. ASSUME Times(0, s - 1) = {} PROVE GPSDay(TimeOf(s)) = 0
      <4>1. p \in Nat /\ TimeOf(p) \in Seconds /\ TimeOf(s) \in Seconds /\ p \in 0 .. Day - 1
        BY <2>4, PairTime DEF Seconds
      <4>2. ~ (p < s)
        <5> SUFFICES ASSUME p < s PROVE FALSE
          OBVIOUS
        <5>1. p \in 0 .. s - 1
          BY <2>1, <4>1
        <5>2. TimeOf(p) \in Times(0, s - 1)
          BY <5>1 DEF Times
        <5> QED  BY <3>4, <5>2
      <4>3. TimeOf(s) <= TimeOf(p)
        <5>1. CASE p = s
          BY <4>1, <5>1 DEF Seconds
        <5>2. CASE s < p
          <6>1. TimeOf(s) < TimeOf(p)
            BY <2>1, <2>4, <4>1, <5>2 DEF OrderedPairs
          <6> QED  BY <4>1, <6>1 DEF Seconds
        <5> QED  BY <2>1, <4>1, <4>2, <5>1, <5>2
      <4>4. TimeOf(p) + Leap < Day
        BY <4>1, GPSDays
      <4>5. TimeOf(s) + Leap < Day
        BY <1>2, <4>1, <4>3, <4>4 DEF Seconds
      <4> QED  BY <4>1, <4>5, GPSDays
    <3>5. EpochListed(Epoch(r[s - 1], s), Times(0, s - 1) \cup {TimeOf(s)})
      BY <2>2, <2>4, <3>2, <3>3, <3>4, EpochMore
    <3> QED  BY <2>1, <2>2, <3>1, <3>5
  <2> QED  BY <2>3, <2>4
<1>5. Day - 1 \in T
  <2>1. -1 \in Int /\ Day - 1 \in Int
    BY <1>2
  <2> HIDE DEF T
  <2>2. -1 .. Day - 1 \subseteq T
    BY <1>3, <1>4, <2>1, UpTo
  <2> QED  BY <1>2, <2>2
<1> QED  BY <1>1, <1>5 DEF EpochListed, Sampled

\* Hence the RINEX file is complete
LEMMA InvRinex == IInv /\ OutputsInv => RinexComplete
<1> SUFFICES ASSUME IInv, OutputsInv PROVE RinexComplete
  OBVIOUS
<1>1. OnGrid
  BY EpochsOnGrid
<1> SUFFICES ASSUME phase = "written", Ordered, NEW p \in Paired, GPSDay(TimeOf(p)) = 0
             PROVE  Lists(rinex, {t \in {mpairs[s].rm.t : s \in Paired} :
                                     (t + Leap) % Interval = 0 /\ t + Leap <= Day})
  BY <1>1 DEF RinexComplete, TimeOf
<1>2. Day \in Nat \ {0} /\ Interval \in Nat \ {0} /\ Leap \in Nat
  BY DayAssumption, TrackAssumption, LeapAssumption DEF Seconds
<1>3. rinex = Epochs
  BY DEF OutputsInv
<1>4. Paired \cap (0 .. Day - 1) = Paired
  BY DEF Paired, Seconds
<1>5. OrderedPairs(0, Day - 1)
  <2> SUFFICES ASSUME NEW u \in Paired, NEW v \in Paired, u < v PROVE TimeOf(u) < TimeOf(v)
    BY DEF OrderedPairs
  <2>1. mpairs[u].rm.pc = u /\ mpairs[v].rm.pc = v
    BY PairTime
  <2>2. InOrder({mpairs[s].rm : s \in Paired})
    BY DEF Ordered
  <2> QED  BY <2>1, <2>2 DEF InOrder, TimeOf
<1>6. Lists(rinex, OnTheGrid(Times(0, Day - 1), 0, Interval, Leap, Day))
  BY <1>3, <1>5, EpochsListed
<1>7. Times(0, Day - 1) = {mpairs[s].rm.t : s \in Paired}
  BY <1>4 DEF Times, TimeOf
<1>8. ASSUME NEW t \in Times(0, Day - 1)
      PROVE  t + Leap \in Grid(0, Interval) <=> (t + Leap) % Interval = 0
  <2>1. t \in Nat
    BY PairTime DEF Times, Seconds
  <2> DEFINE x == t + Leap
  <2>2. x \in Nat /\ x >= 0 /\ x - 0 = x /\ 0 \in Nat
    BY <1>2, <2>1
  <2> HIDE DEF x
  <2>3. x \in Grid(0, Interval) <=> (x - 0) % Interval = 0
    BY <1>2, <2>2, GridMod
  <2>4. x \in Grid(0, Interval) <=> x % Interval = 0
    BY <2>2, <2>3
  <2> QED  BY <2>4 DEF x
<1>9. OnTheGrid(Times(0, Day - 1), 0, Interval, Leap, Day)
        = {t \in Times(0, Day - 1) : (t + Leap) % Interval = 0 /\ t + Leap <= Day}
  BY <1>8 DEF OnTheGrid
<1> QED  BY <1>6, <1>7, <1>9, Zenon

\* The RINEX file has every measurement that falls on an epoch of the GPS day, in order and once.
THEOREM RinexIsComplete == Spec => []RinexComplete
BY InductiveInvariant, OutputsOfPairs, InvRinex, PTL

-----------------------------------------------------------------------------
(* What is still to be logged of a second *)

AllOf(q) == UNION {q[k] : k \in DOMAIN q}

\* The groups of messages of a second: none is empty, and no message is in two
Groups(S) ==
  /\ S \in Seq(SUBSET AllOf(S)) /\ Len(S) > 0
  /\ \A j \in DOMAIN S : S[j] # {}
  /\ \A i, j \in DOMAIN S : i # j => S[i] \cap S[j] = {}

\* q is what is left of them: a group that may have begun, and the groups after it
LeftOf(S, q) ==
  /\ q \in Seq(SUBSET AllOf(S))
  /\ \E k \in 0 .. Len(S) :
        /\ Len(q) = Len(S) - k
        /\ \A j \in DOMAIN q : q[j] # {} /\ q[j] \subseteq S[j + k] /\ (j > 1 => q[j] = S[j + k])

LEMMA NothingRead ==
  ASSUME NEW S, Groups(S)
  PROVE  LeftOf(S, S)
<1>1. Len(S) \in Nat /\ DOMAIN S = 1 .. Len(S)
  BY DEF Groups
<1>2. \A j \in DOMAIN S : j + 0 = j
  BY <1>1
<1>3. \A j \in DOMAIN S : S[j] # {} /\ S[j] \subseteq S[j + 0] /\ (j > 1 => S[j] = S[j + 0])
  BY <1>2 DEF Groups
<1>4. 0 \in 0 .. Len(S) /\ Len(S) = Len(S) - 0 /\ S \in Seq(SUBSET AllOf(S))
  BY <1>1 DEF Groups
<1> QED  BY <1>3, <1>4 DEF LeftOf

LEMMA AllOfTail ==
  ASSUME NEW T, NEW q \in Seq(T), q # << >>
  PROVE  /\ Tail(q) \in Seq(T) /\ Len(Tail(q)) = Len(q) - 1 /\ Len(q) \in Nat \ {0}
         /\ \A j \in 1 .. Len(q) - 1 : Tail(q)[j] = q[j + 1]
         /\ AllOf(q) = q[1] \cup AllOf(Tail(q))
<1> DEFINE r == Tail(q)
<1>1. /\ r \in Seq(T) /\ Len(r) = Len(q) - 1 /\ Len(q) \in Nat \ {0}
      /\ \A j \in 1 .. Len(q) - 1 : r[j] = q[j + 1]
  OBVIOUS
<1> HIDE DEF r
<1>2. DOMAIN r = 1 .. Len(q) - 1 /\ DOMAIN q = 1 .. Len(q)
  BY <1>1
<1>3. \A j \in DOMAIN r : j + 1 \in DOMAIN q /\ r[j] = q[j + 1]
  BY <1>1, <1>2
<1>4. \A j \in DOMAIN q : j # 1 => j - 1 \in DOMAIN r /\ (j - 1) + 1 = j
  BY <1>1, <1>2
<1>5. \A j \in DOMAIN q : j # 1 => j - 1 \in DOMAIN r /\ q[j] = r[j - 1]
  BY <1>3, <1>4
<1>6. 1 \in DOMAIN q
  BY <1>1, <1>2
<1>7. \A x : x \in AllOf(r) => x \in AllOf(q)
  BY <1>3 DEF AllOf
<1>8. \A x : x \in AllOf(q) => x \in q[1] \/ x \in AllOf(r)
  BY <1>5 DEF AllOf
<1>9. \A x : x \in q[1] => x \in AllOf(q)
  BY <1>6 DEF AllOf
<1>10. AllOf(q) = q[1] \cup AllOf(r)
  BY <1>7, <1>8, <1>9
<1> QED  BY <1>1, <1>10 DEF r

LEMMA AllOfLess ==
  ASSUME NEW T, NEW q \in Seq(SUBSET T), q # << >>, NEW it
  PROVE  LET r == [q EXCEPT ![1] = @ \ {it}]
         IN  /\ r \in Seq(SUBSET T) /\ Len(r) = Len(q)
             /\ DOMAIN r = DOMAIN q /\ r[1] = q[1] \ {it}
             /\ \A j \in DOMAIN q : j # 1 => r[j] = q[j]
             /\ AllOf(q) \subseteq AllOf(r) \cup {it} /\ AllOf(r) \subseteq AllOf(q)
<1> DEFINE r == [q EXCEPT ![1] = q[1] \ {it}]
<1>1. 1 \in DOMAIN q /\ q[1] \ {it} \in SUBSET T
  OBVIOUS
<1>2. /\ r \in Seq(SUBSET T) /\ Len(r) = Len(q) /\ DOMAIN r = DOMAIN q /\ r[1] = q[1] \ {it}
      /\ \A j \in DOMAIN q : j # 1 => r[j] = q[j]
  BY <1>1
<1> HIDE DEF r
<1>3. \A j \in DOMAIN q : r[j] \subseteq q[j] /\ q[j] \subseteq r[j] \cup {it}
  BY <1>2
<1>4. AllOf(q) \subseteq AllOf(r) \cup {it} /\ AllOf(r) \subseteq AllOf(q)
  BY <1>2, <1>3 DEF AllOf
<1> QED  BY <1>2, <1>4 DEF r

\* q without the message it of its first group
Less(q, it) == IF q[1] = {it} THEN Tail(q) ELSE [q EXCEPT ![1] = @ \ {it}]

LEMMA LeftOne ==
  ASSUME NEW S, Groups(S), NEW q, LeftOf(S, q), q # << >>, NEW it \in q[1],
         NEW r, r = Less(q, it)
  PROVE  /\ LeftOf(S, r) /\ r # S
         /\ it \in AllOf(S) /\ it \in AllOf(q) /\ AllOf(r) = AllOf(q) \ {it}
<1>1. PICK k \in 0 .. Len(S) :
         /\ Len(q) = Len(S) - k
         /\ \A j \in DOMAIN q : q[j] # {} /\ q[j] \subseteq S[j + k] /\ (j > 1 => q[j] = S[j + k])
  BY DEF LeftOf
<1>2. /\ q \in Seq(SUBSET AllOf(S)) /\ Len(q) \in Nat /\ Len(q) > 0 /\ DOMAIN q = 1 .. Len(q)
      /\ Len(S) \in Nat /\ DOMAIN S = 1 .. Len(S) /\ k \in Nat
  BY DEF LeftOf, Groups
<1>3. it \in AllOf(q) /\ it \in AllOf(S) /\ it \in S[1 + k] /\ 1 + k \in DOMAIN S
  BY <1>1, <1>2 DEF AllOf
<1>4. ASSUME NEW j \in DOMAIN q, j # 1 PROVE it \notin q[j]
  <2>1. j + k \in DOMAIN S /\ 1 + k \in DOMAIN S /\ j + k # 1 + k
    BY <1>1, <1>2, <1>4
  <2>2. S[j + k] \cap S[1 + k] = {}
    BY <2>1 DEF Groups
  <2> QED  BY <1>1, <1>3, <1>4, <2>2
<1>5. CASE q[1] = {it}
  <2>1. /\ r \in Seq(SUBSET AllOf(S)) /\ Len(r) = Len(q) - 1
        /\ \A j \in 1 .. Len(q) - 1 : r[j] = q[j + 1]
        /\ AllOf(q) = q[1] \cup AllOf(r)
    BY <1>2, <1>5, AllOfTail DEF Less
  <2>2. DOMAIN r = 1 .. Len(q) - 1
    BY <2>1
  <2>3. \A j \in 1 .. Len(q) - 1 : j + 1 \in DOMAIN q /\ j + 1 > 1 /\ (j + 1) + k = j + (k + 1)
    BY <1>2
  <2>4. \A j \in DOMAIN r : r[j] # {} /\ r[j] = S[j + (k + 1)] /\ it \notin r[j]
    <3> TAKE j \in DOMAIN r
    <3>1. j + 1 \in DOMAIN q /\ j + 1 > 1 /\ (j + 1) + k = j + (k + 1) /\ r[j] = q[j + 1]
      BY <2>1, <2>2, <2>3
    <3>2. q[j + 1] # {} /\ q[j + 1] = S[(j + 1) + k] /\ j + 1 # 1
      BY <1>1, <3>1, <1>2
    <3> QED  BY <3>1, <3>2, <1>4
  <2>5. k + 1 \in 0 .. Len(S) /\ Len(r) = Len(S) - (k + 1)
    BY <1>1, <1>2, <2>1
  <2>6. LeftOf(S, r)
    BY <2>1, <2>4, <2>5 DEF LeftOf
  <2>7. AllOf(r) = AllOf(q) \ {it}
    <3>1. it \notin AllOf(r)
      BY <2>4 DEF AllOf
    <3> QED  BY <1>5, <2>1, <3>1
  <2>8. r # S
    BY <1>1, <1>2, <2>1
  <2> QED  BY <1>3, <2>6, <2>7, <2>8
<1>6. CASE q[1] # {it}
  <2>1. r = [q EXCEPT ![1] = @ \ {it}]
    BY <1>6 DEF Less
  <2> DEFINE p == [q EXCEPT ![1] = @ \ {it}]
  <2>2. /\ p \in Seq(SUBSET AllOf(S)) /\ Len(p) = Len(q) /\ DOMAIN p = DOMAIN q
        /\ p[1] = q[1] \ {it} /\ \A j \in DOMAIN q : j # 1 => p[j] = q[j]
        /\ AllOf(q) \subseteq AllOf(p) \cup {it} /\ AllOf(p) \subseteq AllOf(q)
    BY <1>2, AllOfLess
  <2> HIDE DEF p
  <2>3. \A j \in DOMAIN q : it \notin p[j]
    BY <1>4, <2>2
  <2>4. ASSUME NEW j \in DOMAIN q
        PROVE  p[j] # {} /\ p[j] \subseteq S[j + k] /\ (j > 1 => p[j] = S[j + k])
    <3>1. CASE j = 1
      BY <1>1, <1>2, <1>6, <2>2, <3>1
    <3>2. CASE j # 1
      BY <1>1, <1>2, <2>2, <3>2
    <3> QED  BY <3>1, <3>2
  <2>5. LeftOf(S, p)
    BY <1>1, <2>2, <2>4 DEF LeftOf
  <2>6. AllOf(p) = AllOf(q) \ {it}
    <3>1. it \notin AllOf(p)
      BY <2>2, <2>3 DEF AllOf
    <3> QED  BY <2>2, <3>1
  <2>7. p # S
    <3> SUFFICES ASSUME p = S PROVE FALSE
      OBVIOUS
    <3>1. k = 0
      BY <1>1, <1>2, <2>2
    <3>2. it \in S[1] /\ it \notin p[1]
      BY <1>3, <2>2, <3>1
    <3> QED  BY <3>2
  <2> QED  BY <1>3, <2>1, <2>5, <2>6, <2>7 DEF p
<1> QED  BY <1>5, <1>6

\* A message of the first group that is the only one of it is followed by the others
LEMMA FirstLeft ==
  ASSUME NEW S, Groups(S), NEW q, LeftOf(S, q), NEW it, S[1] = {it}, it \in AllOf(q)
  PROVE  q = S
<1>1. PICK k \in 0 .. Len(S) :
         /\ Len(q) = Len(S) - k
         /\ \A j \in DOMAIN q : q[j] # {} /\ q[j] \subseteq S[j + k] /\ (j > 1 => q[j] = S[j + k])
  BY DEF LeftOf
<1>2. /\ q \in Seq(SUBSET AllOf(S)) /\ Len(q) \in Nat /\ DOMAIN q = 1 .. Len(q)
      /\ S \in Seq(SUBSET AllOf(S)) /\ Len(S) \in Nat /\ DOMAIN S = 1 .. Len(S) /\ k \in Nat
  BY DEF LeftOf, Groups
<1>3. PICK j \in DOMAIN q : it \in q[j]
  BY DEF AllOf
<1>4. it \in S[j + k] /\ it \in S[1] /\ 1 \in DOMAIN S /\ j + k \in DOMAIN S
  BY <1>1, <1>2, <1>3
<1>5. j + k = 1
  BY <1>4 DEF Groups
<1>6. k = 0 /\ j = 1
  BY <1>2, <1>5
<1>7. q[1] = S[1]
  BY <1>1, <1>3, <1>6
<1>8. ASSUME NEW i \in 1 .. Len(q) PROVE q[i] = S[i]
  <2>1. i \in DOMAIN q /\ i + k = i /\ (i # 1 => i > 1)
    BY <1>2, <1>6
  <2> QED  BY <1>1, <1>7, <2>1
<1>9. Len(q) = Len(S)
  BY <1>1, <1>2, <1>6
<1> QED  BY <1>2, <1>8, <1>9, SeqEqual

\* What comes before what is read now was read or lost
LEMMA BeforeLeft ==
  ASSUME NEW S, Groups(S), NEW q, LeftOf(S, q), q # << >>, NEW it \in q[1],
         NEW i \in DOMAIN S, NEW j \in DOMAIN S, i < j, it \in S[j], NEW other \in S[i]
  PROVE  other \notin AllOf(q)
<1>1. PICK k \in 0 .. Len(S) :
         /\ Len(q) = Len(S) - k
         /\ \A n \in DOMAIN q : q[n] # {} /\ q[n] \subseteq S[n + k] /\ (n > 1 => q[n] = S[n + k])
  BY DEF LeftOf
<1>2. /\ q \in Seq(SUBSET AllOf(S)) /\ Len(q) \in Nat /\ Len(q) > 0 /\ DOMAIN q = 1 .. Len(q)
      /\ Len(S) \in Nat /\ DOMAIN S = 1 .. Len(S) /\ k \in Nat
  BY DEF LeftOf, Groups
<1>3. it \in S[1 + k] /\ 1 + k \in DOMAIN S
  BY <1>1, <1>2
<1>4. 1 + k = j
  BY <1>3 DEF Groups
<1>5. ASSUME NEW n \in DOMAIN q, other \in q[n] PROVE FALSE
  <2>1. other \in S[n + k] /\ n + k \in DOMAIN S
    BY <1>1, <1>2, <1>5
  <2>2. n + k = i
    BY <2>1 DEF Groups
  <2> QED  BY <1>2, <1>4, <2>2
<1> QED  BY <1>5 DEF AllOf

-----------------------------------------------------------------------------
(* What the receivers send *)

LEMMA TwoGroups ==
  ASSUME NEW S, S \in Seq(SUBSET AllOf(S)), Len(S) = 2, DOMAIN S = {1, 2},
         S[1] # {}, S[2] # {}, S[1] \cap S[2] = {}
  PROVE  Groups(S)
<1>1. \A j \in DOMAIN S : S[j] # {}
  OBVIOUS
<1>2. \A i, j \in DOMAIN S : i # j => S[i] \cap S[j] = {}
  OBVIOUS
<1> QED  BY <1>1, <1>2 DEF Groups

LEMMA UbloxSends ==
  ASSUME NEW s
  PROVE  /\ Sends("ublox", s) = << {<<"0215", "-">>}, {<<"0d01", "-">>, <<"0121", "-">>, <<"0122", "-">>} >>
         /\ Groups(Sends("ublox", s)) /\ Sends("ublox", s)[1] = {<<"0215", "-">>}
         /\ AllOf(Sends("ublox", s)) = {<<i, "-">> : i \in UbloxReqd}
<1> DEFINE S == << {<<"0215", "-">>}, {<<"0d01", "-">>, <<"0121", "-">>, <<"0122", "-">>} >>
<1>1. Sends("ublox", s) = S
  BY Zenon DEF Sends
<1>2. Len(S) = 2 /\ DOMAIN S = {1, 2} /\ S[1] = {<<"0215", "-">>}
      /\ S[2] = {<<"0d01", "-">>, <<"0121", "-">>, <<"0122", "-">>}
  OBVIOUS
<1>3. AllOf(S) = S[1] \cup S[2]
  BY <1>2 DEF AllOf
<1>4. S \in Seq(SUBSET AllOf(S))
  BY <1>3
<1>5. AllOf(S) = {<<i, "-">> : i \in UbloxReqd}
  BY <1>2, <1>3 DEF UbloxReqd
<1> HIDE DEF S
<1>6. S[1] # {} /\ S[2] # {} /\ S[1] \cap S[2] = {}
  BY <1>2
<1>7. Groups(S)
  BY <1>2, <1>4, <1>6, TwoGroups
<1> QED  BY <1>1, <1>2, <1>5, <1>7 DEF S

LEMMA NVSSends ==
  ASSUME NEW s
  PROVE  /\ Groups(Sends("nvs", s))
         /\ AllOf(Sends("nvs", s)) = {<<i, "-">> : i \in NVSReqd}
<1> DEFINE S == << {<<"46", "-">>, <<"F5", "-">>}, {<<"72", "-">>, <<"74", "-">>} >>
<1>1. Sends("nvs", s) = S
  BY Zenon DEF Sends
<1>2. Len(S) = 2 /\ DOMAIN S = {1, 2} /\ S[1] = {<<"46", "-">>, <<"F5", "-">>}
      /\ S[2] = {<<"72", "-">>, <<"74", "-">>}
  OBVIOUS
<1>3. AllOf(S) = S[1] \cup S[2]
  BY <1>2 DEF AllOf
<1>4. S \in Seq(SUBSET AllOf(S))
  BY <1>3
<1>5. AllOf(S) = {<<i, "-">> : i \in NVSReqd}
  BY <1>2, <1>3 DEF NVSReqd
<1> HIDE DEF S
<1>6. S[1] # {} /\ S[2] # {} /\ S[1] \cap S[2] = {}
  BY <1>2
<1>7. Groups(S)
  BY <1>2, <1>4, <1>6, TwoGroups
<1> QED  BY <1>1, <1>5, <1>7

LEMMA JavadSends ==
  ASSUME NEW s
  PROVE  /\ Groups(Sends("javad", s)) /\ Sends("javad", s)[1] = {<<"RD", "-">>}
         /\ DOMAIN Sends("javad", s) = DOMAIN JavadOrder
         /\ \A i \in DOMAIN JavadOrder : Sends("javad", s)[i] = {<<JavadOrder[i], "-">>}
         /\ AllOf(Sends("javad", s)) = {<<i, "-">> : i \in Range(JavadOrder)}
<1> DEFINE S == [i \in DOMAIN JavadOrder |-> {<<JavadOrder[i], "-">>}]
<1>1. Sends("javad", s) = S
  BY Zenon DEF Sends
<1>2. /\ Len(JavadOrder) \in Nat \ {0} /\ DOMAIN JavadOrder = 1 .. Len(JavadOrder)
      /\ JavadOrder[1] = "RD" /\ 1 \in DOMAIN JavadOrder
  BY JavadOrderAssumption
<1>3. DOMAIN S = DOMAIN JavadOrder /\ \A i \in DOMAIN JavadOrder : S[i] = {<<JavadOrder[i], "-">>}
  OBVIOUS
<1>4. S = [i \in 1 .. Len(JavadOrder) |-> S[i]]
  BY <1>2
<1> HIDE DEF S
<1>5. AllOf(S) = {<<i, "-">> : i \in Range(JavadOrder)}
  BY <1>3 DEF AllOf, Range
<1>6. \A i \in DOMAIN S : S[i] \in SUBSET AllOf(S)
  BY <1>3 DEF AllOf
<1>7. S \in Seq(SUBSET AllOf(S)) /\ Len(S) = Len(JavadOrder)
  BY <1>2, <1>3, <1>4, <1>6, SeqDef
<1>8. \A i, j \in DOMAIN S : i # j => S[i] \cap S[j] = {}
  BY <1>3, JavadOrderAssumption
<1>9. Groups(S)
  <2>1. Len(S) > 0 /\ \A j \in DOMAIN S : S[j] # {}
    <3>1. Len(S) > 0
      BY <1>2, <1>7
    <3>2. \A j \in DOMAIN S : S[j] # {}
      BY <1>3
    <3> QED  BY <3>1, <3>2
  <2> QED  BY <1>7, <1>8, <2>1 DEF Groups
<1> QED  BY <1>1, <1>2, <1>3, <1>5, <1>9

LEMMA ResolutionSends ==
  ASSUME NEW s
  PROVE  /\ Groups(Sends("resolution", s)) /\ Sends("resolution", s)[1] = {<<"8fab", "-">>}
         /\ AllOf(Sends("resolution", s))
               = {<<i, "-">> : i \in ResolutionIds} \cup {<<"5a", v>> : v \in s}
<1> DEFINE S == IF s = {} THEN << {<<"8fab", "-">>}, {<<"8fac", "-">>} >>
                  ELSE << {<<"8fab", "-">>}, {<<"5a", v>> : v \in s}, {<<"8fac", "-">>} >>
           five == {<<"5a", v>> : v \in s}
<1>1. Sends("resolution", s) = S
  BY Zenon DEF Sends
<1>2. CASE s = {}
  <2>1. S = << {<<"8fab", "-">>}, {<<"8fac", "-">>} >>
    BY <1>2
  <2> HIDE DEF S
  <2>2. Len(S) = 2 /\ DOMAIN S = {1, 2} /\ S[1] = {<<"8fab", "-">>} /\ S[2] = {<<"8fac", "-">>}
    BY <2>1
  <2>3. AllOf(S) = S[1] \cup S[2]
    BY <2>2 DEF AllOf
  <2>4. S \in Seq(SUBSET AllOf(S))
    BY <2>1, <2>3
  <2>5. AllOf(S) = {<<i, "-">> : i \in ResolutionIds} \cup {<<"5a", v>> : v \in s}
    BY <1>2, <2>2, <2>3 DEF ResolutionIds
  <2>6. S[1] # {} /\ S[2] # {} /\ S[1] \cap S[2] = {}
    BY <2>2
  <2>7. Groups(S)
    BY <2>2, <2>4, <2>6, TwoGroups
  <2> QED  BY <1>1, <2>2, <2>5, <2>7
<1>3. CASE s # {}
  <2>1. S = << {<<"8fab", "-">>}, five, {<<"8fac", "-">>} >>
    BY <1>3, Zenon
  <2>2. five # {} /\ <<"8fab", "-">> \notin five /\ <<"8fac", "-">> \notin five
    BY <1>3
  <2> HIDE DEF S
  <2>3. /\ Len(S) = 3 /\ DOMAIN S = {1, 2, 3}
        /\ S[1] = {<<"8fab", "-">>} /\ S[2] = five /\ S[3] = {<<"8fac", "-">>}
    BY <2>1
  <2>4. AllOf(S) = S[1] \cup S[2] \cup S[3]
    BY <2>3 DEF AllOf
  <2>5. S \in Seq(SUBSET AllOf(S))
    BY <2>1, <2>4
  <2>6. AllOf(S) = {<<i, "-">> : i \in ResolutionIds} \cup {<<"5a", v>> : v \in s}
    BY <2>3, <2>4 DEF ResolutionIds
  <2> HIDE DEF five
  <2>7. Groups(S)
    BY <2>2, <2>3, <2>5, SMTT(30) DEF Groups
  <2> QED  BY <1>1, <2>3, <2>6, <2>7
<1> QED  BY <1>2, <1>3

LEMMA SendsGroups ==
  ASSUME rx \in Models, NEW s
  PROVE  Groups(Sends(rx, s)) /\ (rx # "nvs" => Sends(rx, s)[1] = {<<Header(rx), "-">>})
<1>1. rx \in {"ublox", "javad", "nvs", "resolution"}
  BY ModelsAssumption
<1>2. /\ Header("ublox") = "0215" /\ Header("javad") = "RD" /\ Header("nvs") = "F5"
      /\ Header("resolution") = "8fab"
  BY Zenon DEF Header
<1> QED  BY <1>1, <1>2, UbloxSends, JavadSends, NVSSends, ResolutionSends

-----------------------------------------------------------------------------
(* The log as it is written *)

Logging ==
  /\ rx \in Models /\ sec \in Sec /\ svs \in SUBSET SVs
  /\ stamp \in {sec, sec + 1} /\ (rx # "nvs" => stamp = sec)
  /\ seen \in Seq(SUBSET SVs) /\ Len(seen) = sec /\ seen[sec] = svs
  /\ progress \in {"reading", "done", "aborted"}
  /\ LeftOf(Sends(rx, svs), todo)

Pending == AllOf(todo)

\* The step that reads line ln for the message it, and remembers what happened to it
Logs(it, ln) ==
  /\ progress = "reading" /\ todo # << >> /\ it \in todo[1] /\ todo' = Without(it)
  /\ ln = [id |-> it[1], sec |-> sec, q |-> ln.q, sv |-> it[2], svs |-> svs, st |-> ln.st]
  /\ ln.q \in {"ok"} \cup Suffers(rx, it[1])
  /\ ln.st \in {sec, sec + 1} /\ (rx # "nvs" => ln.st = sec)
  /\ harmed \subseteq harmed'
  /\ ln.q # "ok" => [sec |-> sec, id |-> it[1], how |-> Harm(it[1], ln.q)] \in harmed'
  /\ ln.st # sec => [sec |-> sec, id |-> it[1], how |-> "late"] \in harmed'
  /\ Handle(ln)

\* The step that reads a line with parameters
Informs(ln) ==
  /\ progress = "reading" /\ ln.id \in Parameters(rx)
  /\ ln = [id |-> ln.id, sec |-> sec, st |-> stamp, q |-> "ok", sv |-> "-", svs |-> svs]
  /\ Len(todo) = 1 /\ sec = LastSec
  /\ UNCHANGED <<todo, harmed>> /\ Handle(ln)

LEMMA LineLogs ==
  ASSUME Logging, NextLine
  PROVE  \E it, ln : Logs(it, ln)
<1>1. PICK it \in todo[1], late \in BOOLEAN : \E q \in {"ok"} \cup Suffers(rx, it[1]) :
          LET ln == [id |-> it[1], sec |-> sec, q |-> q, sv |-> it[2], svs |-> svs,
                     st |-> IF late \/ stamp > sec THEN sec + 1 ELSE sec]
              what == {[sec |-> sec, id |-> it[1], how |-> h] :
                          h \in (IF q = "ok" THEN {} ELSE {Harm(it[1], q)})
                                 \cup (IF ln.st > sec THEN {"late"} ELSE {})}
          IN  /\ late => "late" \in Damage /\ rx = "nvs"
              /\ (q # "ok" \/ (late /\ stamp = sec)) => May
              /\ harmed' = harmed \cup what
              /\ todo' = Without(it)
              /\ Handle(ln)
  BY DEF NextLine
<1>2. PICK q \in {"ok"} \cup Suffers(rx, it[1]) :
          LET ln == [id |-> it[1], sec |-> sec, q |-> q, sv |-> it[2], svs |-> svs,
                     st |-> IF late \/ stamp > sec THEN sec + 1 ELSE sec]
              what == {[sec |-> sec, id |-> it[1], how |-> h] :
                          h \in (IF q = "ok" THEN {} ELSE {Harm(it[1], q)})
                                 \cup (IF ln.st > sec THEN {"late"} ELSE {})}
          IN  /\ late => "late" \in Damage /\ rx = "nvs"
              /\ (q # "ok" \/ (late /\ stamp = sec)) => May
              /\ harmed' = harmed \cup what
              /\ todo' = Without(it)
              /\ Handle(ln)
  BY <1>1
<1> DEFINE ln == [id |-> it[1], sec |-> sec, q |-> q, sv |-> it[2], svs |-> svs,
                  st |-> IF late \/ stamp > sec THEN sec + 1 ELSE sec]
           what == {[sec |-> sec, id |-> it[1], how |-> h] :
                       h \in (IF q = "ok" THEN {} ELSE {Harm(it[1], q)})
                              \cup (IF ln.st > sec THEN {"late"} ELSE {})}
<1>3. /\ late => rx = "nvs" /\ TRUE
      /\ harmed' = harmed \cup what /\ todo' = Without(it) /\ Handle(ln)
  BY <1>2
<1>4. /\ ln = [id |-> it[1], sec |-> sec, q |-> ln.q, sv |-> it[2], svs |-> svs, st |-> ln.st]
      /\ ln.q = q /\ ln.st = IF late \/ stamp > sec THEN sec + 1 ELSE sec
  OBVIOUS
<1>5. sec \in Nat /\ (rx # "nvs" => stamp = sec)
  BY LogAssumption DEF Logging, Sec
<1>6. ln.st \in {sec, sec + 1} /\ (rx # "nvs" => ln.st = sec) /\ (ln.st # sec => ln.st > sec)
  BY <1>3, <1>4, <1>5
<1>7. q # "ok" => [sec |-> sec, id |-> it[1], how |-> Harm(it[1], q)] \in what
  OBVIOUS
<1>8. ln.st # sec => [sec |-> sec, id |-> it[1], how |-> "late"] \in what
  BY <1>6
<1> HIDE DEF ln, what
<1>9. progress = "reading" /\ todo # << >>
  BY DEF NextLine
<1>10. Logs(it, ln)
  BY <1>3, <1>4, <1>6, <1>7, <1>8, <1>9 DEF Logs
<1> QED  BY <1>10

LEMMA ParameterInforms == ParameterLine => \E ln : Informs(ln)
<1> SUFFICES ASSUME ParameterLine PROVE \E ln : Informs(ln)
  OBVIOUS
<1>1. PICK id \in Parameters(rx) :
        Handle([id |-> id, sec |-> sec, st |-> stamp, q |-> "ok", sv |-> "-", svs |-> svs])
  BY DEF ParameterLine
<1> DEFINE ln == [id |-> id, sec |-> sec, st |-> stamp, q |-> "ok", sv |-> "-", svs |-> svs]
<1>2. Informs(ln)
  BY <1>1 DEF ParameterLine, Informs
<1> QED  BY <1>2

\* What a message that is read, or lost, leaves of the second
LEMMA LogsLeft ==
  ASSUME Logging, todo # << >>, NEW it \in todo[1], todo' = Without(it), UNCHANGED <<rx, svs>>
  PROVE  /\ LeftOf(Sends(rx, svs), todo)' /\ todo' # Sends(rx, svs)
         /\ it \in AllOf(Sends(rx, svs)) /\ it \in Pending /\ Pending' = Pending \ {it}
         /\ rx # "nvs" => (it = <<Header(rx), "-">> <=> todo = Sends(rx, svs))
         /\ rx # "nvs" => <<Header(rx), "-">> \notin Pending'
<1> DEFINE S == Sends(rx, svs)
<1>1. Groups(S) /\ LeftOf(S, todo) /\ (rx # "nvs" => S[1] = {<<Header(rx), "-">>})
  BY SendsGroups DEF Logging
<1>2. todo' = Less(todo, it)
  BY DEF Without, Less
<1>3. Sends(rx, svs)' = S
  OBVIOUS
<1> HIDE DEF S
<1>4. LeftOf(S, todo') /\ todo' # S /\ it \in AllOf(S) /\ it \in Pending /\ AllOf(todo') = Pending \ {it}
  BY <1>1, <1>2, LeftOne DEF Pending
<1>5. rx # "nvs" /\ it = <<Header(rx), "-">> => todo = S
  BY <1>1, <1>4, FirstLeft DEF Pending
<1>6. rx # "nvs" /\ todo = S => it = <<Header(rx), "-">>
  BY <1>1
<1>7. rx # "nvs" => <<Header(rx), "-">> \notin AllOf(todo')
  BY <1>1, <1>4, FirstLeft
<1> QED  BY <1>3, <1>4, <1>5, <1>6, <1>7 DEF S, Pending

LEMMA InView == ASSUME rx \in Models, NEW s \in Views[rx] PROVE s \in SUBSET SVs
BY ModelsAssumption

LEMMA LoggingInit == ReadInit => Logging
<1> SUFFICES ASSUME ReadInit PROVE Logging
  OBVIOUS
<1> DEFINE S == Sends(rx, svs)
<1>1. Groups(S)
  BY SendsGroups DEF ReadInit
<1>2. todo = S
  BY DEF ReadInit
<1> HIDE DEF S
<1>3. LeftOf(S, S)
  BY <1>1, NothingRead
<1>4. svs \in SUBSET SVs
  BY InView DEF ReadInit
<1>5. seen \in Seq(SUBSET SVs) /\ Len(seen) = 1 /\ seen[1] = svs
  BY <1>4 DEF ReadInit
<1> QED  BY <1>2, <1>3, <1>4, <1>5, LogAssumption DEF Logging, ReadInit, Sec, S

LEMMA LoggingStep == Logging /\ [ReadNext]_readVars => Logging'
<1> SUFFICES ASSUME Logging, [ReadNext]_readVars PROVE Logging'
  OBVIOUS
<1>1. ASSUME NEW it, NEW ln, Logs(it, ln) PROVE Logging'
  <2>1. UNCHANGED <<rx, sec, svs, seen>> /\ stamp' = ln.st /\ progress' \in {"reading", "aborted"}
    BY <1>1 DEF Logs, Handle
  <2>2. LeftOf(Sends(rx, svs), todo)'
    BY <1>1, <2>1, LogsLeft DEF Logs
  <2>3. ln.st \in {sec, sec + 1} /\ (rx # "nvs" => ln.st = sec)
    BY <1>1 DEF Logs
  <2> QED  BY <2>1, <2>2, <2>3 DEF Logging
<1>2. ASSUME NEW ln, Informs(ln) PROVE Logging'
  <2>1. UNCHANGED <<rx, sec, svs, seen, todo>> /\ ln.st = stamp /\ stamp' = ln.st
        /\ progress' \in {"reading", "aborted"}
    BY <1>2 DEF Informs, Handle
  <2> QED  BY <2>1 DEF Logging
<1>3. CASE Lose
  <2>1. PICK it \in todo[1] : todo' = Without(it)
    BY <1>3 DEF Lose
  <2>2. LeftOf(Sends(rx, svs), todo)'
    BY <1>3, <2>1, LogsLeft DEF Lose
  <2> QED  BY <1>3, <2>2 DEF Lose, Logging
<1>4. CASE NextSec
  <2>1. svs' \in SUBSET SVs /\ rx' = rx /\ todo' = Sends(rx, svs') /\ rx \in Models
    BY <1>4, InView DEF NextSec, Logging
  <2> DEFINE S == Sends(rx, svs')
  <2>2. Groups(S)
    BY <2>1, SendsGroups
  <2> HIDE DEF S
  <2>3. LeftOf(S, S)
    BY <2>2, NothingRead
  <2>4. LeftOf(Sends(rx, svs), todo)'
    BY <2>1, <2>3 DEF S
  <2>5. sec \in Nat /\ LastSec \in Nat /\ sec < LastSec /\ sec' = sec + 1 /\ stamp' = sec + 1
    BY <1>4, LogAssumption DEF NextSec, Logging, Sec
  <2>6. seen' = Append(seen, svs') /\ seen \in Seq(SUBSET SVs) /\ Len(seen) = sec
    BY <1>4 DEF NextSec, Logging
  <2>7. seen' \in Seq(SUBSET SVs) /\ Len(seen') = sec' /\ seen'[sec'] = svs'
    BY <2>1, <2>5, <2>6
  <2>8. progress' = progress /\ progress = "reading"
    BY <1>4 DEF NextSec
  <2> QED  BY <2>1, <2>4, <2>5, <2>7, <2>8 DEF Logging, Sec
<1>5. CASE EndOfFile
  BY <1>5 DEF EndOfFile, Logging
<1>6. CASE UNCHANGED readVars
  BY <1>6 DEF readVars, Logging
<1>7. ASSUME NextLine PROVE Logging'
  BY <1>1, <1>7, LineLogs
<1>8. ASSUME ParameterLine PROVE Logging'
  BY <1>2, <1>8, ParameterInforms
<1> QED
  BY <1>3, <1>4, <1>5, <1>6, <1>7, <1>8
  DEF ReadNext, UbloxLine, JavadLine, NVSLine, ResolutionLine

-----------------------------------------------------------------------------
(* The locals of readLog() *)

Stamped == [sec : Nat, st : Nat]
SVMeas == [sv : SVs, sec : Nat]
MeasOf(ids) == [meas : SUBSET SVMeas, val : [ids -> Stamped], pc : Nat]
LogState(ids) ==
  [cur : SUBSET ids, svmeas : SUBSET SVMeas, val : [ids -> Stamped], pctime : Nat,
   got : SUBSET {"iono", "utc"}, dup : BOOLEAN, cnt : [ids -> Nat],
   useData : BOOLEAN, abort : BOOLEAN, measurements : Seq(MeasOf(ids))]

\* The measurement that would be saved now with the pseudoranges ms
New(b, ms) == [meas |-> ms, val |-> b.val, pc |-> b.pctime]

LEMMA LocalsState ==
  ASSUME NEW ids
  PROVE  /\ Locals(ids) \in LogState(ids) /\ Locals(ids).cur = {} /\ Locals(ids).svmeas = {}
         /\ Locals(ids).measurements = << >> /\ Locals(ids).pctime = 0 /\ ~Locals(ids).dup
         /\ ~Locals(ids).abort /\ \A i \in ids : Locals(ids).val[i].sec = 0 /\ Locals(ids).cnt[i] = 0
<1>1. Unset \in Stamped /\ Unset.sec = 0
  BY DEF Unset, Stamped
<1>2. << >> \in Seq(MeasOf(ids))
  OBVIOUS
<1> QED  BY <1>1, <1>2 DEF Locals, LogState

LEMMA TakeState ==
  ASSUME NEW ids, NEW b \in LogState(ids), NEW ln, ln.id \in ids, ln.sec \in Nat, ln.st \in Nat
  PROVE  LET c == Take(b, ln)
         IN  /\ c \in LogState(ids)
             /\ c.svmeas = b.svmeas /\ c.pctime = b.pctime /\ c.got = b.got /\ c.dup = b.dup
             /\ c.cnt = b.cnt /\ c.useData = b.useData /\ c.abort = b.abort
             /\ c.measurements = b.measurements
             /\ ln.q = "ok" => c.cur = b.cur \cup {ln.id} /\ c.val = [b.val EXCEPT ![ln.id] = From(ln)]
             /\ ln.q # "ok" => c.cur = b.cur /\ c.val \in {b.val, [b.val EXCEPT ![ln.id] = From(ln)]}
<1> DEFINE v == [b.val EXCEPT ![ln.id] = From(ln)]
           k == b.cur \cup {ln.id}
<1>1. From(ln) \in Stamped
  BY DEF From, Stamped
<1>2. b.val \in [ids -> Stamped] /\ b.cur \in SUBSET ids
  BY DEF LogState
<1>3. v \in [ids -> Stamped] /\ k \in SUBSET ids
  BY <1>1, <1>2
<1>4. CASE ln.q = "ok"
  <2>1. Take(b, ln) = [b EXCEPT !.cur = k, !.val = v]
    BY <1>4, Zenon DEF Take
  <2> HIDE DEF k, v
  <2>2. Take(b, ln) \in LogState(ids) /\ Take(b, ln).cur = k /\ Take(b, ln).val = v
    BY <1>3, <2>1 DEF LogState
  <2>3. LET c == Take(b, ln)
        IN  /\ c.svmeas = b.svmeas /\ c.pctime = b.pctime /\ c.got = b.got /\ c.dup = b.dup
            /\ c.cnt = b.cnt /\ c.useData = b.useData /\ c.abort = b.abort
            /\ c.measurements = b.measurements
    BY <2>1 DEF LogState
  <2> QED  BY <1>4, <2>2, <2>3 DEF k, v
<1>5. CASE ln.q = "outlier"
  <2>1. Take(b, ln) = [b EXCEPT !.val = v]
    BY <1>5, Zenon DEF Take
  <2> HIDE DEF k, v
  <2>2. Take(b, ln) \in LogState(ids) /\ Take(b, ln).cur = b.cur /\ Take(b, ln).val = v
    BY <1>3, <2>1 DEF LogState
  <2>3. LET c == Take(b, ln)
        IN  /\ c.svmeas = b.svmeas /\ c.pctime = b.pctime /\ c.got = b.got /\ c.dup = b.dup
            /\ c.cnt = b.cnt /\ c.useData = b.useData /\ c.abort = b.abort
            /\ c.measurements = b.measurements
    BY <2>1 DEF LogState
  <2> QED  BY <1>5, <2>2, <2>3 DEF v
<1>6. CASE ln.q # "ok" /\ ln.q # "outlier"
  <2>1. Take(b, ln) = b
    BY <1>6, Zenon DEF Take
  <2> QED  BY <1>6, <2>1
<1> QED  BY <1>4, <1>5, <1>6

LEMMA PushState ==
  ASSUME NEW ids, NEW b \in LogState(ids), NEW ms \in SUBSET SVMeas
  PROVE  LET c == Push(b, ms)
         IN  /\ c \in LogState(ids) /\ New(b, ms) \in MeasOf(ids)
             /\ c.cur = b.cur /\ c.svmeas = b.svmeas /\ c.val = b.val /\ c.pctime = b.pctime
             /\ c.got = b.got /\ c.dup = b.dup /\ c.cnt = b.cnt /\ c.useData = b.useData
             /\ c.abort = b.abort /\ c.measurements = Append(b.measurements, New(b, ms))
<1>1. New(b, ms) \in MeasOf(ids)
  BY DEF New, MeasOf, LogState
<1>2. Push(b, ms) = [b EXCEPT !.measurements = Append(b.measurements, New(b, ms))]
  BY DEF Push, New
<1>3. b.measurements \in Seq(MeasOf(ids))
  BY DEF LogState
<1>4. Append(b.measurements, New(b, ms)) \in Seq(MeasOf(ids))
  BY <1>1, <1>3
<1> HIDE DEF New
<1> QED  BY <1>1, <1>2, <1>4 DEF LogState

\* One more measurement
LEMMA OneMore ==
  ASSUME NEW T, NEW s \in Seq(T), NEW e \in T
  PROVE  LET q == Append(s, e)
         IN  /\ q \in Seq(T) /\ Len(q) = Len(s) + 1 /\ DOMAIN s = 1 .. Len(s)
             /\ DOMAIN q = DOMAIN s \cup {Len(q)} /\ Len(q) \notin DOMAIN s /\ q[Len(q)] = e
             /\ \A i \in DOMAIN s : q[i] = s[i] /\ i < Len(q)
             /\ {q[i] : i \in DOMAIN q} = {s[i] : i \in DOMAIN s} \cup {e}
<1> DEFINE q == Append(s, e)
<1>1. /\ q \in Seq(T) /\ Len(q) = Len(s) + 1 /\ Len(s) \in Nat /\ DOMAIN s = 1 .. Len(s)
      /\ DOMAIN q = 1 .. Len(s) + 1 /\ q[Len(s) + 1] = e
      /\ \A i \in 1 .. Len(s) : q[i] = s[i]
  OBVIOUS
<1> HIDE DEF q
<1>2. DOMAIN q = DOMAIN s \cup {Len(q)} /\ Len(q) \notin DOMAIN s /\ q[Len(q)] = e
  BY <1>1
<1>3. \A i \in DOMAIN s : q[i] = s[i] /\ i < Len(q)
  BY <1>1
<1>4. {q[i] : i \in DOMAIN q} = {s[i] : i \in DOMAIN s} \cup {e}
  BY <1>2, <1>3, ZenonT(40)
<1> QED  BY <1>1, <1>2, <1>3, <1>4 DEF q

\* A message that is taken changes its own field at most
LEMMA TakeField ==
  ASSUME NEW ids, NEW b \in LogState(ids), NEW ln, ln.id \in ids, ln.sec \in Nat, ln.st \in Nat
  PROVE  LET c == Take(b, ln)
         IN  /\ c \in LogState(ids) /\ c.svmeas = b.svmeas /\ c.measurements = b.measurements
             /\ c.pctime = b.pctime /\ c.dup = b.dup /\ c.cnt = b.cnt /\ c.useData = b.useData
             /\ c.abort = b.abort
             /\ c.cur \in {b.cur, b.cur \cup {ln.id}}
             /\ \A i \in ids \ {ln.id} : c.val[i] = b.val[i]
             /\ c.val[ln.id] \in {b.val[ln.id], From(ln)}
             /\ ln.id \in c.cur \ b.cur => c.val[ln.id] = From(ln)
             /\ ln.q = "ok" => c.cur = b.cur \cup {ln.id} /\ c.val[ln.id] = From(ln)
<1> DEFINE v == [b.val EXCEPT ![ln.id] = From(ln)]
<1>1. b.val \in [ids -> Stamped]
  BY DEF LogState
<1>2. v[ln.id] = From(ln) /\ \A i \in ids \ {ln.id} : v[i] = b.val[i]
  BY <1>1
<1> HIDE DEF v
<1>3. LET c == Take(b, ln)
      IN  /\ c \in LogState(ids) /\ c.svmeas = b.svmeas /\ c.measurements = b.measurements
          /\ c.pctime = b.pctime /\ c.dup = b.dup /\ c.cnt = b.cnt /\ c.useData = b.useData
          /\ c.abort = b.abort
          /\ ln.q = "ok" => c.cur = b.cur \cup {ln.id} /\ c.val = v
          /\ ln.q # "ok" => c.cur = b.cur /\ c.val \in {b.val, v}
  BY TakeState DEF v
<1> QED  BY <1>2, <1>3

-----------------------------------------------------------------------------
(* What was saved *)

\* Later measurements have a later message id
Ascending(q, id) == \A i, j \in DOMAIN q : i < j => q[i].val[id].sec < q[j].val[id].sec

Increasing(id) == Ascending(l.measurements, id)

\* The conditions under which second s is not lost, and that it was not
Due(s) ==
  /\ s = sec - 1 => todo # Sends(rx, svs)
  /\ Whole(s) /\ Whole(s + 1) /\ Wanted(seen[s]) # {} /\ ~Crowded(seen[s])
  /\ progress # "aborted"
  /\ rx = "javad" => s >= ReadFrom /\ s < ReadTo
  /\ rx = "nvs" => s = 1 \/ (seen[s - 1] # {} /\ Whole(s - 1))

SVsIn(ms) == {v.sv : v \in ms}

SavedWhole(s) == \E m \in Saved : SecondOf(m) = s /\ SVsIn(m.meas) = Wanted(seen[s])

LEMMA AllWanted == rx # "resolution" => \A S : Wanted(S) = S
BY DEF Wanted

\* The pseudoranges of satellites S in second c
RawOf(S, c) == {[sv |-> x, sec |-> c] : x \in S}

LEMMA RawOfSVs ==
  ASSUME NEW S, NEW c
  PROVE  /\ SVsIn(RawOf(S, c)) = S /\ (RawOf(S, c) = {} <=> S = {})
         /\ \A v \in RawOf(S, c) : v.sec = c
         /\ S \subseteq SVs /\ c \in Nat => RawOf(S, c) \in SUBSET SVMeas
<1>1. \A x \in S : [sv |-> x, sec |-> c] \in RawOf(S, c) /\ [sv |-> x, sec |-> c].sv = x
  BY DEF RawOf
<1>2. \A v \in RawOf(S, c) : v.sv \in S /\ v.sec = c /\ v = [sv |-> v.sv, sec |-> c]
  BY DEF RawOf
<1>3. S \subseteq SVs /\ c \in Nat => RawOf(S, c) \in SUBSET SVMeas
  BY DEF RawOf, SVMeas
<1>4. RawOf(S, c) = {} <=> S = {}
  BY <1>1, <1>2
<1>5. SVsIn(RawOf(S, c)) = S
  BY <1>1, <1>2 DEF SVsIn
<1> QED  BY <1>2, <1>3, <1>4, <1>5

LEMMA MoreInOrder ==
  ASSUME NEW ids, NEW p \in Seq(MeasOf(ids)), NEW e \in MeasOf(ids), NEW id,
         Ascending(p, id), \A i \in DOMAIN p : p[i].val[id].sec < e.val[id].sec
  PROVE  Ascending(Append(p, e), id)
<1> DEFINE q == Append(p, e)
<1>1. /\ p \in Seq(MeasOf(ids)) /\ q \in Seq(MeasOf(ids)) /\ Len(q) = Len(p) + 1 /\ DOMAIN p = 1 .. Len(p)
      /\ DOMAIN q = DOMAIN p \cup {Len(q)} /\ Len(q) \notin DOMAIN p /\ q[Len(q)] = e
      /\ \A i \in DOMAIN p : q[i] = p[i] /\ i < Len(q)
  BY OneMore
<1> HIDE DEF q
<1>2. ASSUME NEW i \in DOMAIN q, NEW j \in DOMAIN q, i < j
      PROVE  q[i].val[id].sec < q[j].val[id].sec
  <2>1. i \in DOMAIN p /\ q[i] = p[i]
    <3>1. Len(p) \in Nat /\ Len(q) \in Nat
      BY <1>1
    <3>2. i # Len(q)
      BY <1>1, <1>2, <3>1
    <3> QED  BY <1>1, <1>2, <3>2
  <2>2. CASE j = Len(q)
    BY <1>1, <2>1, <2>2
  <2>3. CASE j # Len(q)
    <3>1. j \in DOMAIN p /\ q[j] = p[j]
      BY <1>1, <2>3
    <3> QED  BY <1>2, <2>1, <3>1 DEF Ascending
  <2> QED  BY <2>2, <2>3
<1>3. Ascending(q, id)
  BY <1>2 DEF Ascending
<1> QED  BY <1>3 DEF q

LEMMA SavedMore ==
  ASSUME NEW ids, l.measurements \in Seq(MeasOf(ids)), NEW e \in MeasOf(ids), NEW id \in ids,
         l'.measurements = Append(l.measurements, e)
  PROVE  /\ Saved' = Saved \cup {e}
         /\ (Increasing(id) /\ \A m \in Saved : m.val[id].sec < e.val[id].sec) => Increasing(id)'
         /\ (UsedOnce /\ \A m \in Saved : m.meas \cap e.meas = {}) => UsedOnce'
<1> DEFINE p == l.measurements
           q == Append(p, e)
<1>1. /\ p \in Seq(MeasOf(ids)) /\ q \in Seq(MeasOf(ids)) /\ Len(q) = Len(p) + 1 /\ DOMAIN p = 1 .. Len(p)
      /\ DOMAIN q = DOMAIN p \cup {Len(q)} /\ Len(q) \notin DOMAIN p /\ q[Len(q)] = e
      /\ \A i \in DOMAIN p : q[i] = p[i] /\ i < Len(q)
      /\ {q[i] : i \in DOMAIN q} = {p[i] : i \in DOMAIN p} \cup {e}
  BY OneMore
<1>2. l'.measurements = q
  OBVIOUS
<1> HIDE DEF q
<1>3. Saved' = Saved \cup {e}
  BY <1>1, <1>2 DEF Saved
<1>4. \A i \in DOMAIN p : p[i] \in Saved
  BY DEF Saved
<1>5. (Increasing(id) /\ \A m \in Saved : m.val[id].sec < e.val[id].sec) => Increasing(id)'
  BY <1>1, <1>2, <1>4, MoreInOrder DEF Increasing, q
<1>6. ASSUME UsedOnce, \A m \in Saved : m.meas \cap e.meas = {}, NEW i \in DOMAIN q, NEW j \in DOMAIN q, i # j
      PROVE  q[i].meas \cap q[j].meas = {}
  <2>1. \A k \in DOMAIN q : k = Len(q) \/ k \in DOMAIN p
    BY <1>1
  <2>2. \A k \in DOMAIN p : q[k] = p[k] /\ p[k] \in Saved
    BY <1>1 DEF Saved
  <2>3. CASE i \in DOMAIN p /\ j \in DOMAIN p
    BY <1>6, <2>2, <2>3 DEF UsedOnce
  <2>4. CASE i = Len(q) /\ j \in DOMAIN p
    BY <1>1, <1>6, <2>2, <2>4
  <2>5. CASE i \in DOMAIN p /\ j = Len(q)
    BY <1>1, <1>6, <2>2, <2>5
  <2> QED  BY <1>6, <2>1, <2>3, <2>4, <2>5
<1>7. (UsedOnce /\ \A m \in Saved : m.meas \cap e.meas = {}) => UsedOnce'
  BY <1>2, <1>6 DEF UsedOnce
<1> QED  BY <1>3, <1>5, <1>7

LEMMA NotLostDue == NotLost <=> \A s \in 1 .. sec - 1 : Due(s) => SavedWhole(s)
BY DEF NotLost, Due, SavedWhole, SVsIn

LEMMA WholeThen ==
  ASSUME harmed \subseteq harmed'
  PROVE  /\ \A s : Whole(s)' => Whole(s)
         /\ \A s, id, hows : Harmed(s, id, hows) => Harmed(s, id, hows)'
BY DEF Whole, Harmed

\* A step within a second: only the one before may become due
LEMMA SameSecond ==
  ASSUME Logging, NotLost, UNCHANGED <<rx, sec, svs, seen>>, progress = "reading",
         harmed \subseteq harmed', Saved \subseteq Saved',
         sec > 1 /\ todo = Sends(rx, svs) /\ Due(sec - 1)' => SavedWhole(sec - 1)'
  PROVE  NotLost'
<1> SUFFICES ASSUME NEW s \in 1 .. sec - 1, Due(s)' PROVE SavedWhole(s)'
  BY DEF Due, SavedWhole, SVsIn, NotLost
<1>1. sec \in Nat
  BY LogAssumption DEF Logging, Sec
<1>2. CASE s = sec - 1 /\ todo = Sends(rx, svs)
  BY <1>1, <1>2
<1>3. CASE ~(s = sec - 1 /\ todo = Sends(rx, svs))
  <2>1. Due(s)
    BY <1>3, WholeThen DEF Due, Wanted, Crowded
  <2>2. SavedWhole(s)
    BY <2>1, NotLostDue
  <2> QED  BY <2>2 DEF SavedWhole, SVsIn, SecondOf, Wanted
<1> QED  BY <1>2, <1>3

LEMMA NewSecond == ASSUME Logging, NotLost, NextSec PROVE NotLost'
<1> SUFFICES ASSUME NEW s \in 1 .. sec, Due(s)' PROVE SavedWhole(s)'
  <2>1. sec \in Nat /\ sec' = sec + 1
    BY LogAssumption DEF Logging, Sec, NextSec
  <2>2. (sec - 1)' = sec
    BY <2>1
  <2> QED  BY <2>2 DEF Due, SavedWhole, SVsIn, NotLost
<1>1. sec \in Nat /\ sec' = sec + 1 /\ todo' = Sends(rx, svs)' /\ todo = << >>
      /\ UNCHANGED <<rx, harmed, progress, l>> /\ progress = "reading"
  BY LogAssumption DEF Logging, Sec, NextSec
<1>2. s # sec
  BY <1>1 DEF Due
<1>3. seen' = Append(seen, svs') /\ seen \in Seq(SUBSET SVs) /\ Len(seen) = sec
  BY DEF Logging, NextSec
<1>4. \A t \in 1 .. sec : seen'[t] = seen[t]
  BY <1>1, <1>3
<1>5. todo # Sends(rx, svs)
  <2>1. Groups(Sends(rx, svs))
    BY SendsGroups DEF Logging
  <2> QED  BY <1>1, <2>1 DEF Groups
<1>6. s \in 1 .. sec - 1 /\ (s # 1 => s - 1 \in 1 .. sec) /\ s \in 1 .. sec
  BY <1>1, <1>2
<1>7. Due(s)
  <2>1. seen'[s] = seen[s] /\ (s # 1 => seen'[s - 1] = seen[s - 1])
    BY <1>4, <1>6
  <2> QED  BY <1>1, <1>5, <2>1 DEF Due, Whole, Wanted, Crowded
<1>8. SavedWhole(s)
  BY <1>6, <1>7, NotLostDue
<1> QED  BY <1>1, <1>4, <1>6, <1>8 DEF SavedWhole, SVsIn, Saved, SecondOf, Wanted

LEMMA AtEnd ==
  ASSUME NotLost, UNCHANGED <<rx, sec, svs, todo, seen, harmed, l>>, progress' # "aborted" => progress # "aborted"
  PROVE  NotLost'
<1> SUFFICES ASSUME NEW s \in 1 .. sec - 1, Due(s)' PROVE SavedWhole(s)'
  BY DEF Due, SavedWhole, SVsIn, NotLost
<1>1. Due(s)
  BY DEF Due, Whole, Wanted, Crowded
<1>2. SavedWhole(s)
  BY <1>1, NotLostDue
<1> QED  BY <1>2 DEF SavedWhole, SVsIn, Saved, SecondOf, Wanted

-----------------------------------------------------------------------------
(* ublox *)

LEMMA UbloxSaves ==
  ASSUME NEW b \in LogState(UbloxReqd)
  PROVE  LET c == UbloxSave(b)
         IN  /\ c \in LogState(UbloxReqd) /\ c.svmeas = {} /\ c.val = b.val
             /\ c.measurements = IF b.cur = UbloxReqd /\ b.svmeas # {}
                                 THEN Append(b.measurements, New(b, b.svmeas)) ELSE b.measurements
<1>1. b.svmeas \in SUBSET SVMeas
  BY DEF LogState
<1> DEFINE p == Push(b, b.svmeas)
<1>2. /\ p \in LogState(UbloxReqd) /\ p.val = b.val
      /\ p.measurements = Append(b.measurements, New(b, b.svmeas))
  BY <1>1, PushState
<1>3. UbloxSave(b) = IF b.cur = UbloxReqd /\ b.svmeas # {}
                     THEN [p EXCEPT !.svmeas = {}] ELSE [b EXCEPT !.svmeas = {}]
  BY DEF UbloxSave, deleteMeasurements
<1> HIDE DEF p
<1> QED  BY <1>2, <1>3, ZenonT(40) DEF LogState

LEMMA UbloxHeader ==
  ASSUME NEW b \in LogState(UbloxReqd), NEW ln, ln.sec \in Nat, ln.st \in Nat, ln.svs \subseteq SVs
  PROVE  LET c == Ublox0215(b, ln)
         IN  /\ c \in LogState(UbloxReqd)
             /\ c.measurements = IF b.cur = UbloxReqd /\ b.svmeas # {}
                                 THEN Append(b.measurements, New(b, b.svmeas)) ELSE b.measurements
             /\ \/ c.cur = {} /\ c.svmeas = {} /\ ~(ln.q = "ok" /\ ln.svs # {})
                \/ c.cur = {"0215"} /\ c.svmeas = UbloxRaw(ln) /\ c.val["0215"] = From(ln)
<1> DEFINE u == UbloxSave(b)
           s == [u EXCEPT !.pctime = ln.st, !.cur = {}]
           v == [u.val EXCEPT !["0215"] = From(ln)]
<1>1. /\ u \in LogState(UbloxReqd) /\ u.svmeas = {}
      /\ u.measurements = IF b.cur = UbloxReqd /\ b.svmeas # {}
                          THEN Append(b.measurements, New(b, b.svmeas)) ELSE b.measurements
  BY UbloxSaves
<1> HIDE DEF u
<1>2. s \in LogState(UbloxReqd) /\ s.svmeas = {} /\ s.cur = {} /\ s.measurements = u.measurements /\ s.val = u.val
  BY <1>1 DEF LogState
<1>3. v \in [UbloxReqd -> Stamped] /\ v["0215"] = From(ln)
  BY <1>1 DEF LogState, UbloxReqd, From, Stamped
<1>4. UbloxRaw(ln) \in SUBSET SVMeas
  BY DEF UbloxRaw, SVMeas
<1>5. {"0215"} \in SUBSET UbloxReqd
  BY DEF UbloxReqd
<1> HIDE DEF s, v
<1>6. CASE ln.q = "ok" /\ ln.svs # {}
  <2>1. Ublox0215(b, ln) = [s EXCEPT !.cur = {"0215"}, !.svmeas = UbloxRaw(ln), !.val["0215"] = From(ln)]
    BY <1>6, Zenon DEF Ublox0215, s, u
  <2>2. Ublox0215(b, ln) = [s EXCEPT !.cur = {"0215"}, !.svmeas = UbloxRaw(ln), !.val = v]
    BY <1>2, <2>1 DEF v
  <2> QED  BY <1>1, <1>2, <1>3, <1>4, <1>5, <2>2 DEF LogState
<1>7. CASE ln.q = "short"
  <2>1. Ublox0215(b, ln) = [s EXCEPT !.abort = TRUE]
    BY <1>7, Zenon DEF Ublox0215, s, u
  <2> QED  BY <1>1, <1>2, <1>7, <2>1 DEF LogState
<1>8. CASE ~(ln.q = "ok" /\ ln.svs # {}) /\ ln.q # "short"
  <2>1. Ublox0215(b, ln) = s
    BY <1>8, Zenon DEF Ublox0215, s, u
  <2> QED  BY <1>1, <1>2, <1>8, <2>1
<1> QED  BY <1>6, <1>7, <1>8

LEMMA UbloxReads ==
  ASSUME NEW b \in LogState(UbloxReqd), NEW ln, ln.sec \in Nat, ln.st \in Nat
  PROVE  LET c == UbloxRead(b, ln)
         IN  /\ ln.q = "bad" => /\ c \in LogState(UbloxReqd) /\ c.measurements = b.measurements
                                /\ c.cur = {} /\ c.svmeas = {}
             /\ ln.q # "bad" /\ ln.id = "0215" => c = Ublox0215(b, ln)
             /\ ln.q # "bad" /\ ln.id \in UbloxReqd \ {"0215"} => c = Take(b, ln)
             /\ ln.q = "ok" /\ ln.id = "0b02" =>
                   /\ c \in LogState(UbloxReqd) /\ c.measurements = b.measurements
                   /\ c.cur = b.cur /\ c.svmeas = b.svmeas /\ c.val = b.val
<1>1. ln.q = "bad" => UbloxRead(b, ln) = [b EXCEPT !.svmeas = {}, !.cur = {}]
  <2>1. ln.q = "bad" => UbloxRead(b, ln) = UbloxBadLine(b)
    BY Zenon DEF UbloxRead
  <2> QED  BY <2>1 DEF UbloxBadLine, deleteMeasurements, LogState
<1>2. ln.q # "bad" /\ ln.id = "0215" => UbloxRead(b, ln) = Ublox0215(b, ln)
  BY Zenon DEF UbloxRead
<1>3. ln.q # "bad" /\ ln.id = "0d01" => UbloxRead(b, ln) = Take(b, ln)
  BY Zenon DEF UbloxRead, Ublox0D01
<1>4. ln.q # "bad" /\ ln.id = "0121" => UbloxRead(b, ln) = Take(b, ln)
  BY Zenon DEF UbloxRead, Ublox0121
<1>5. ln.q # "bad" /\ ln.id = "0122" => UbloxRead(b, ln) = Take(b, ln)
  BY Zenon DEF UbloxRead, Ublox0122
<1>6. ln.q = "ok" /\ ln.id = "0b02" => UbloxRead(b, ln) = [b EXCEPT !.got = {"utc", "iono"}]
  <2>1. ln.q = "ok" /\ ln.id = "0b02" => UbloxRead(b, ln) = Ublox0B02(b, ln)
    BY Zenon DEF UbloxRead
  <2> QED  BY <2>1 DEF Ublox0B02
<1>7. ln.id \in UbloxReqd \ {"0215"} => ln.id \in {"0d01", "0121", "0122"}
  BY DEF UbloxReqd
<1>8. [b EXCEPT !.svmeas = {}, !.cur = {}] \in LogState(UbloxReqd)
      /\ [b EXCEPT !.got = {"utc", "iono"}] \in LogState(UbloxReqd)
  BY DEF LogState
<1>9. ln.q = "bad" => /\ UbloxRead(b, ln).measurements = b.measurements
                      /\ UbloxRead(b, ln).cur = {} /\ UbloxRead(b, ln).svmeas = {}
  BY <1>1 DEF LogState
<1>10. ln.q = "ok" /\ ln.id = "0b02" =>
          LET c == UbloxRead(b, ln)
          IN  c.measurements = b.measurements /\ c.cur = b.cur /\ c.svmeas = b.svmeas /\ c.val = b.val
  BY <1>6 DEF LogState
<1> QED  BY <1>1, <1>2, <1>3, <1>4, <1>5, <1>6, <1>7, <1>8, <1>9, <1>10

\* A second other than that of the 0215: only when a 0215 was lost
UbloxOf(s, a) == s = a \/ Harmed(s, "0215", {"lost"})

UbloxMeas(m) ==
  /\ m.meas # {} /\ m.val["0215"].sec \in Nat /\ m.val["0215"].sec < sec /\ m.val["0215"].sec > 0
  /\ \A v \in m.meas : v.sec = m.val["0215"].sec
  /\ \A i \in UbloxReqd : UbloxOf(m.val[i].sec, m.val["0215"].sec)

\* What is gathered was begun by a 0215, and is later than all that was saved
UbloxGather ==
  IF "0215" \in l.cur
  THEN LET a == l.val["0215"].sec
       IN  /\ a > 0 /\ a <= sec
           /\ \A v \in l.svmeas : v.sec = a
           /\ \A i \in l.cur : UbloxOf(l.val[i].sec, a)
           /\ \A m \in Saved : m.val["0215"].sec < a
           /\ IF todo = Sends(rx, svs) THEN a < sec ELSE UbloxOf(sec, a)
  ELSE l.svmeas = {}

\* All of a whole second that was logged so far was gathered
UbloxAll ==
  IF todo = Sends(rx, svs)
  THEN sec > 1 /\ Whole(sec - 1) /\ seen[sec - 1] # {} =>
         /\ l.cur = UbloxReqd /\ l.val["0215"].sec = sec - 1
         /\ l.svmeas = RawOf(seen[sec - 1], sec - 1)
  ELSE Whole(sec) /\ svs # {} =>
         /\ l.cur = {i \in UbloxReqd : <<i, "-">> \notin Pending} /\ l.val["0215"].sec = sec
         /\ l.svmeas = RawOf(svs, sec)

UbloxInv ==
  /\ l \in LogState(UbloxReqd)
  /\ \A m \in Saved : UbloxMeas(m)
  /\ Increasing("0215")
  /\ UbloxGather
  /\ UbloxAll

LEMMA UbloxHead ==
  /\ Header("ublox") = "0215" /\ "0215" \in UbloxReqd /\ Parameters("ublox") = {"0b02"}
  /\ rx = "ublox" => \A m : SecondOf(m) = m.val["0215"].sec
<1>1. Header("ublox") = "0215" /\ Parameters("ublox") = {"0b02"}
  BY Zenon DEF Header, Parameters
<1> QED  BY <1>1 DEF UbloxReqd, SecondOf, Anchor

LEMMA UbloxStart == ASSUME rx = "ublox", ReadInit PROVE UbloxInv
<1>1. l = Locals(UbloxReqd)
  <2>1. l = Fresh(rx) /\ Fresh("ublox") = UbloxLocals
    BY Zenon DEF ReadInit, Fresh
  <2> QED  BY <2>1 DEF UbloxLocals
<1>2. l \in LogState(UbloxReqd) /\ l.cur = {} /\ l.svmeas = {} /\ l.measurements = << >>
  BY <1>1, LocalsState
<1>3. Saved = {} /\ Increasing("0215")
  BY <1>2 DEF Saved, Increasing, Ascending
<1>4. sec = 1 /\ todo = Sends(rx, svs)
  BY DEF ReadInit
<1> QED  BY <1>2, <1>3, <1>4 DEF UbloxInv, UbloxGather, UbloxAll

\* What was saved stays true
LEMMA UbloxMeasStays ==
  ASSUME sec \in Nat, sec' \in Nat, sec <= sec', harmed \subseteq harmed', NEW m, UbloxMeas(m)
  PROVE  UbloxMeas(m)'
<1>1. \A s : Harmed(s, "0215", {"lost"}) => Harmed(s, "0215", {"lost"})'
  BY WholeThen
<1> QED  BY <1>1 DEF UbloxMeas, UbloxOf

LEMMA UbloxNewLine ==
  ASSUME Logging, rx = "ublox", UbloxInv, NotLost, NEW it, NEW ln, Logs(it, ln)
  PROVE  UbloxInv' /\ NotLost'
<1>1. /\ progress = "reading" /\ todo # << >> /\ it \in todo[1] /\ todo' = Without(it)
      /\ ln.id = it[1] /\ ln.sec = sec /\ ln.svs = svs /\ ln.st = sec
      /\ harmed \subseteq harmed' /\ UNCHANGED <<rx, sec, svs, seen>>
      /\ l' = UbloxRead(l, ln)
  <2>1. l' = ReadLine(ln)
    BY DEF Logs, Handle
  <2>2. ReadLine(ln) = UbloxRead(l, ln)
    BY Zenon DEF ReadLine
  <2> QED  BY <2>1, <2>2 DEF Logs, Handle
<1>2. sec \in Nat /\ svs \subseteq SVs
  BY LogAssumption DEF Logging, Sec
<1>3. Whole(sec)' => ln.q = "ok"
  BY <1>1 DEF Logs, Whole
<1>4. /\ todo' # Sends(rx, svs) /\ Pending' = Pending \ {it} /\ it \in Pending
      /\ it = <<"0215", "-">> <=> todo = Sends(rx, svs)
      /\ it \in {<<i, "-">> : i \in UbloxReqd}
  BY <1>1, LogsLeft, UbloxHead, UbloxSends
<1>5. ln.id \in UbloxReqd /\ it = <<ln.id, "-">> /\ (ln.id = "0215" <=> todo = Sends(rx, svs))
  BY <1>1, <1>4
<1>6. todo = Sends(rx, svs) => Pending = {<<i, "-">> : i \in UbloxReqd}
  BY UbloxSends DEF Pending
<1>7. l \in LogState(UbloxReqd) /\ l.measurements \in Seq(MeasOf(UbloxReqd)) /\ l.svmeas \in SUBSET SVMeas
  BY DEF UbloxInv, LogState
<1>8. \A m \in Saved : UbloxMeas(m)'
  BY <1>1, <1>2, UbloxMeasStays DEF UbloxInv
<1>9. \A s : Harmed(s, "0215", {"lost"}) => Harmed(s, "0215", {"lost"})'
  BY <1>1, WholeThen
<1>10. Saved \subseteq Saved' /\ ~(todo = Sends(rx, svs)) => NotLost'
  BY <1>1, SameSecond
<1>11. todo' # Sends(rx, svs)'
  BY <1>1, <1>4
<1>12. CASE ln.q = "bad"
  <2>1. l' \in LogState(UbloxReqd) /\ l'.measurements = l.measurements /\ l'.cur = {} /\ l'.svmeas = {}
    BY <1>1, <1>2, <1>7, <1>12, UbloxReads
  <2>2. Saved' = Saved /\ Increasing("0215")'
    BY <2>1 DEF Saved, Increasing, UbloxInv
  <2>3. ~Whole(sec)'
    BY <1>3, <1>12
  <2>4. UbloxGather' /\ UbloxAll'
    BY <1>1, <1>11, <2>1, <2>3 DEF UbloxGather, UbloxAll, Whole
  <2>5. NotLost'
    <3>1. ~Due(sec - 1)'
      <4>1. (sec - 1) + 1 = sec
        BY <1>2
      <4> QED  BY <1>1, <2>3, <4>1 DEF Due, Whole
    <3> QED  BY <1>1, <2>2, <3>1, SameSecond
  <2> QED  BY <1>8, <2>1, <2>2, <2>4, <2>5 DEF UbloxInv
<1>13. CASE ln.q # "bad" /\ ln.id = "0215"
  <2> PICK e : e = New(l, l.svmeas)
    OBVIOUS
  <2>1. todo = Sends(rx, svs)
    BY <1>5, <1>13
  <2>2. /\ l' \in LogState(UbloxReqd)
        /\ l'.measurements = IF l.cur = UbloxReqd /\ l.svmeas # {}
                             THEN Append(l.measurements, e) ELSE l.measurements
        /\ \/ l'.cur = {} /\ l'.svmeas = {} /\ ~(ln.q = "ok" /\ ln.svs # {})
           \/ l'.cur = {"0215"} /\ l'.svmeas = UbloxRaw(ln) /\ l'.val["0215"] = From(ln)
    <3>1. l' = Ublox0215(l, ln)
      BY <1>1, <1>2, <1>7, <1>13, UbloxReads
    <3>2. ln.sec \in Nat /\ ln.st \in Nat /\ ln.svs \subseteq SVs
      BY <1>1, <1>2
    <3> QED  BY <1>7, <3>1, <3>2, UbloxHeader
  <2>3. e.val = l.val /\ e.meas = l.svmeas
    BY DEF New
  <2>4. e \in MeasOf(UbloxReqd)
    BY <1>7, PushState
  <2>5. ASSUME l.cur = UbloxReqd, l.svmeas # {}
        PROVE  /\ UbloxMeas(e)' /\ Saved' = Saved \cup {e} /\ Increasing("0215")'
               /\ \A m \in Saved' : m.val["0215"].sec < sec
    <3>1. /\ l.val["0215"].sec > 0 /\ l.val["0215"].sec < sec
          /\ \A v \in l.svmeas : v.sec = l.val["0215"].sec
          /\ \A i \in l.cur : UbloxOf(l.val[i].sec, l.val["0215"].sec)
          /\ \A m \in Saved : m.val["0215"].sec < l.val["0215"].sec
      BY <2>1, <2>5, UbloxHead DEF UbloxInv, UbloxGather
    <3>2. l.val["0215"].sec \in Nat
      BY <1>7, UbloxHead DEF LogState, Stamped
    <3>3. UbloxMeas(e)'
      BY <1>1, <1>9, <2>3, <2>5, <3>1, <3>2 DEF UbloxMeas, UbloxOf
    <3>4. l'.measurements = Append(l.measurements, e)
      BY <2>2, <2>5
    <3>5. Saved' = Saved \cup {e} /\ Increasing("0215")'
      BY <1>7, <2>3, <2>4, <3>1, <3>4, UbloxHead, SavedMore DEF UbloxInv
    <3>6. \A m \in Saved' : m.val["0215"].sec < sec
      BY <1>1, <1>8, <3>3, <3>5 DEF UbloxMeas
    <3> QED  BY <3>3, <3>5, <3>6
  <2>6. ASSUME ~(l.cur = UbloxReqd /\ l.svmeas # {})
        PROVE  Saved' = Saved /\ Increasing("0215")' /\ \A m \in Saved' : m.val["0215"].sec < sec
    <3>1. l'.measurements = l.measurements
      BY <2>2, <2>6
    <3>2. Saved' = Saved /\ Increasing("0215")'
      BY <3>1 DEF Saved, Increasing, UbloxInv
    <3> QED  BY <3>2 DEF UbloxInv, UbloxMeas
  <2>7. /\ \A m \in Saved' : UbloxMeas(m)'
        /\ Increasing("0215")' /\ Saved \subseteq Saved' /\ \A m \in Saved' : m.val["0215"].sec < sec
    BY <1>8, <2>5, <2>6
  <2>8. ASSUME l'.cur = {} /\ l'.svmeas = {} /\ ~(ln.q = "ok" /\ ln.svs # {})
        PROVE  UbloxGather' /\ UbloxAll'
    <3>1. ~Whole(sec)' \/ svs = {}
      BY <1>1, <1>3, <2>8
    <3> QED  BY <1>1, <1>11, <2>8, <3>1 DEF UbloxGather, UbloxAll, Whole
  <2>9. ASSUME l'.cur = {"0215"} /\ l'.svmeas = UbloxRaw(ln) /\ l'.val["0215"] = From(ln)
        PROVE  UbloxGather' /\ UbloxAll'
    <3>1. l'.val["0215"].sec = sec /\ l'.svmeas = RawOf(svs, sec)
      BY <1>1, <2>9 DEF From, UbloxRaw, RawOf
    <3>2. {i \in UbloxReqd : <<i, "-">> \notin Pending'} = {"0215"}
      BY <1>4, <1>5, <1>6, <2>1, UbloxHead
    <3>3. 1 \in Nat /\ sec > 0
      BY LogAssumption DEF Logging, Sec
    <3>4. UbloxGather'
      BY <1>1, <1>2, <1>11, <2>7, <2>9, <3>1, <3>3, RawOfSVs DEF UbloxGather, UbloxOf
    <3>5. UbloxAll'
      BY <1>1, <1>11, <2>9, <3>1, <3>2 DEF UbloxAll, Whole
    <3> QED  BY <3>4, <3>5
  <2>10. UbloxInv'
    BY <2>2, <2>7, <2>8, <2>9 DEF UbloxInv
  <2>11. ASSUME sec > 1, Due(sec - 1)' PROVE SavedWhole(sec - 1)'
    <3>1. Whole(sec - 1) /\ seen[sec - 1] # {}
      BY <1>1, <2>11, AllWanted DEF Due, Whole, Wanted
    <3>2. l.cur = UbloxReqd /\ l.val["0215"].sec = sec - 1
          /\ l.svmeas = RawOf(seen[sec - 1], sec - 1)
      BY <2>1, <2>11, <3>1 DEF UbloxInv, UbloxAll
    <3>3. e \in Saved'
      BY <2>5, <3>1, <3>2, RawOfSVs
    <3>4. SVsIn(e.meas) = seen[sec - 1] /\ e.val["0215"].sec = sec - 1
      BY <2>3, <3>2, RawOfSVs
    <3>5. \A m : SecondOf(m)' = m.val["0215"].sec
      BY <1>1, UbloxHead DEF SecondOf
    <3> QED  BY <1>1, <3>3, <3>4, <3>5 DEF SavedWhole, SVsIn, Wanted
  <2> QED  BY <1>1, <2>7, <2>10, <2>11, SameSecond
<1>14. CASE ln.q # "bad" /\ ln.id # "0215"
  <2>1. todo # Sends(rx, svs) /\ ln.id \in UbloxReqd \ {"0215"}
    BY <1>5, <1>14
  <2>2. /\ l' \in LogState(UbloxReqd) /\ l'.svmeas = l.svmeas /\ l'.measurements = l.measurements
        /\ l'.cur \in {l.cur, l.cur \cup {ln.id}}
        /\ \A i \in UbloxReqd \ {ln.id} : l'.val[i] = l.val[i]
        /\ l'.val[ln.id] \in {l.val[ln.id], From(ln)}
        /\ ln.id \in l'.cur \ l.cur => l'.val[ln.id] = From(ln)
        /\ ln.q = "ok" => l'.cur = l.cur \cup {ln.id} /\ l'.val[ln.id] = From(ln)
    <3>1. l' = Take(l, ln) /\ ln.id \in UbloxReqd /\ ln.sec \in Nat /\ ln.st \in Nat
      BY <1>1, <1>2, <1>7, <1>14, <2>1, UbloxReads
    <3> QED  BY <1>7, <3>1, TakeField
  <2>3. Saved' = Saved /\ Increasing("0215")'
    BY <2>2 DEF Saved, Increasing, UbloxInv
  <2>4. l'.val["0215"] = l.val["0215"] /\ ("0215" \in l'.cur <=> "0215" \in l.cur)
    BY <2>1, <2>2, UbloxHead
  <2>5. UbloxGather'
    <3>1. CASE "0215" \notin l.cur
      BY <2>2, <2>4, <3>1 DEF UbloxInv, UbloxGather
    <3>2. CASE "0215" \in l.cur
      <4> PICK a : a = l.val["0215"].sec
        OBVIOUS
      <4>1. /\ a > 0 /\ a <= sec
            /\ \A v \in l.svmeas : v.sec = a
            /\ \A i \in l.cur : UbloxOf(l.val[i].sec, a)
            /\ \A m \in Saved : m.val["0215"].sec < a
            /\ UbloxOf(sec, a)
        BY <2>1, <3>2 DEF UbloxInv, UbloxGather
      <4>2. ASSUME NEW i \in l'.cur PROVE UbloxOf(l.val[i].sec, a)'
        <5>1. From(ln).sec = sec
          BY <1>1 DEF From
        <5>2. UbloxOf(l'.val[i].sec, a)
          <6>1. l.cur \subseteq UbloxReqd /\ l'.cur \subseteq UbloxReqd
            BY <1>7, <2>2 DEF LogState
          <6> QED  BY <2>2, <4>1, <4>2, <5>1, <6>1
        <5> QED  BY <1>9, <5>2 DEF UbloxOf
      <4>3. UbloxOf(sec, a)'
        BY <1>1, <1>9, <4>1 DEF UbloxOf
      <4> QED  BY <1>1, <1>11, <2>2, <2>3, <2>4, <3>2, <4>1, <4>2, <4>3 DEF UbloxGather
    <3> QED  BY <3>1, <3>2
  <2>6. UbloxAll'
    <3>1. ASSUME Whole(sec)', svs # {}
          PROVE  /\ l'.cur = {i \in UbloxReqd : <<i, "-">> \notin Pending'} /\ l'.val["0215"].sec = sec
                 /\ l'.svmeas = RawOf(svs, sec)
      <4>1. Whole(sec) /\ ln.q = "ok"
        BY <1>1, <1>3, <3>1, WholeThen
      <4>2. /\ l.cur = {i \in UbloxReqd : <<i, "-">> \notin Pending} /\ l.val["0215"].sec = sec
            /\ l.svmeas = RawOf(svs, sec)
        BY <2>1, <3>1, <4>1 DEF UbloxInv, UbloxAll
      <4>3. {i \in UbloxReqd : <<i, "-">> \notin Pending'}
              = {i \in UbloxReqd : <<i, "-">> \notin Pending} \cup {ln.id}
        BY <1>4, <1>5
      <4> QED  BY <2>2, <2>4, <4>1, <4>2, <4>3
    <3> QED  BY <1>1, <1>11, <3>1 DEF UbloxAll, Whole
  <2> QED  BY <1>8, <1>10, <2>1, <2>2, <2>3, <2>5, <2>6 DEF UbloxInv
<1> QED  BY <1>12, <1>13, <1>14

LEMMA UbloxParameters ==
  ASSUME Logging, rx = "ublox", UbloxInv, NotLost, NEW ln, Informs(ln)
  PROVE  UbloxInv' /\ NotLost'
<1>1. /\ progress = "reading" /\ ln.id = "0b02" /\ ln.q = "ok" /\ ln.sec = sec /\ ln.st = stamp
      /\ Len(todo) = 1 /\ UNCHANGED <<todo, harmed, rx, sec, svs, seen>> /\ l' = UbloxRead(l, ln)
  <2>1. l' = ReadLine(ln)
    BY DEF Informs, Handle
  <2>2. ReadLine(ln) = UbloxRead(l, ln)
    BY Zenon DEF ReadLine
  <2> QED  BY <2>1, <2>2, UbloxHead DEF Informs, Handle
<1>2. sec \in Nat /\ stamp \in Nat
  BY LogAssumption DEF Logging, Sec
<1>3. /\ l' \in LogState(UbloxReqd) /\ l'.measurements = l.measurements
      /\ l'.cur = l.cur /\ l'.svmeas = l.svmeas /\ l'.val = l.val
  BY <1>1, <1>2, UbloxReads DEF UbloxInv
<1>4. Saved' = Saved /\ Increasing("0215")'
  BY <1>3 DEF Saved, Increasing, UbloxInv
<1>5. todo # Sends(rx, svs)
  BY <1>1, UbloxSends
<1>6. \A m \in Saved : UbloxMeas(m)'
  BY <1>1, <1>2, UbloxMeasStays DEF UbloxInv
<1>7. UbloxGather' /\ UbloxAll'
  BY <1>1, <1>3, <1>4 DEF UbloxInv, UbloxGather, UbloxOf, Harmed, UbloxAll, Whole, Pending
<1> QED  BY <1>1, <1>3, <1>4, <1>5, <1>6, <1>7, SameSecond DEF UbloxInv

\* What the loss of a line means
LEMMA Loses ==
  ASSUME Logging, NEW it \in todo[1], todo # << >>, todo' = Without(it), UNCHANGED <<rx, sec, svs>>,
         harmed' = harmed \cup {[sec |-> sec, id |-> it[1], how |-> "lost"]}
  PROVE  harmed \subseteq harmed' /\ ~Whole(sec)' /\ Harmed(sec, it[1], {"lost"})'
<1> DEFINE h == [sec |-> sec, id |-> it[1], how |-> "lost"]
<1>1. h \in harmed' /\ h.sec = sec /\ h.id = it[1] /\ h.how = "lost" /\ harmed \subseteq harmed'
  OBVIOUS
<1> HIDE DEF h
<1>2. PICK g : g = h
  OBVIOUS
<1>3. g \in harmed' /\ g.sec = sec' /\ g.id = it[1] /\ g.how \in {"lost"}
  BY <1>1, <1>2
<1>4. ~Whole(sec)'
  BY <1>3 DEF Whole
<1>5. Harmed(sec, it[1], {"lost"})'
  BY <1>3 DEF Harmed
<1> QED  BY <1>1, <1>4, <1>5

LEMMA UbloxLost ==
  ASSUME Logging, rx = "ublox", UbloxInv, NotLost, Lose
  PROVE  UbloxInv' /\ NotLost'
<1>1. PICK it \in todo[1] : /\ todo' = Without(it)
                            /\ harmed' = harmed \cup {[sec |-> sec, id |-> it[1], how |-> "lost"]}
  BY DEF Lose
<1>2. progress = "reading" /\ todo # << >> /\ UNCHANGED <<rx, sec, svs, stamp, seen, progress, l>>
  BY DEF Lose
<1>3. harmed \subseteq harmed' /\ ~Whole(sec)' /\ Harmed(sec, it[1], {"lost"})'
  BY <1>1, <1>2, Loses
<1>4. todo' # Sends(rx, svs) /\ (it = <<"0215", "-">> <=> todo = Sends(rx, svs))
  BY <1>1, <1>2, LogsLeft, UbloxHead
<1>5. sec \in Nat
  BY LogAssumption DEF Logging, Sec
<1>6. Saved' = Saved /\ Increasing("0215")'
  BY <1>2 DEF Saved, Increasing, UbloxInv
<1>7. \A m \in Saved : UbloxMeas(m)'
  BY <1>2, <1>3, <1>5, UbloxMeasStays DEF UbloxInv
<1>8. \A s : Harmed(s, "0215", {"lost"}) => Harmed(s, "0215", {"lost"})'
  BY <1>3, WholeThen
<1>9. todo' # Sends(rx, svs)'
  BY <1>2, <1>4
<1>10. UbloxAll'
  BY <1>2, <1>3, <1>9 DEF UbloxAll, Whole
<1>11. todo = Sends(rx, svs) => Harmed(sec, "0215", {"lost"})'
  BY <1>3, <1>4
<1>12. UbloxGather'
  <2>1. CASE "0215" \in l.cur
    <3>1. PICK a : a = l.val["0215"].sec
      OBVIOUS
    <3>2. /\ a > 0 /\ a <= sec
          /\ \A v \in l.svmeas : v.sec = a
          /\ \A i \in l.cur : UbloxOf(l.val[i].sec, a)
          /\ \A m \in Saved : m.val["0215"].sec < a
          /\ todo = Sends(rx, svs) \/ UbloxOf(sec, a)
      BY <2>1, <3>1 DEF UbloxInv, UbloxGather
    <3>3. a <= sec /\ \A i \in l.cur : UbloxOf(l.val[i].sec, a)'
      BY <1>2, <1>8, <3>2 DEF UbloxOf
    <3>4. UbloxOf(sec, a)'
      BY <1>2, <1>8, <1>11, <3>2 DEF UbloxOf
    <3> QED  BY <1>2, <1>6, <1>9, <2>1, <3>1, <3>2, <3>3, <3>4 DEF UbloxGather
  <2>2. CASE "0215" \notin l.cur
    BY <1>2, <2>2 DEF UbloxGather, UbloxInv
  <2> QED  BY <2>1, <2>2
<1>13. NotLost'
  <2>1. ~Due(sec - 1)'
    <3>1. (sec - 1) + 1 = sec
      BY <1>5
    <3> QED  BY <1>2, <1>3, <3>1 DEF Due, Whole
  <2> QED  BY <1>2, <1>3, <1>6, <2>1, SameSecond
<1> QED  BY <1>2, <1>6, <1>7, <1>10, <1>12, <1>13 DEF UbloxInv

LEMMA UbloxNextSec ==
  ASSUME Logging, rx = "ublox", UbloxInv, NextSec
  PROVE  UbloxInv'
<1>1. /\ sec \in Nat /\ sec' = sec + 1 /\ todo = << >> /\ todo' = Sends(rx, svs)' /\ UNCHANGED <<rx, harmed, l>>
  BY LogAssumption DEF Logging, Sec, NextSec
<1>2. seen' = Append(seen, svs') /\ seen \in Seq(SUBSET SVs) /\ Len(seen) = sec /\ seen[sec] = svs /\ sec > 0
  BY LogAssumption DEF Logging, NextSec, Sec
<1>3. seen'[sec] = svs /\ sec' - 1 = sec
  BY <1>1, <1>2
<1>4. todo # Sends(rx, svs) /\ Pending = {}
  BY <1>1, UbloxSends DEF Pending, AllOf
<1>5. Saved' = Saved /\ Increasing("0215")'
  BY <1>1 DEF Saved, Increasing, UbloxInv
<1>6. \A m \in Saved : UbloxMeas(m)'
  BY <1>1, UbloxMeasStays DEF UbloxInv
<1>7. {i \in UbloxReqd : <<i, "-">> \notin Pending} = UbloxReqd
  BY <1>4
<1>8. UbloxAll'
  BY <1>1, <1>3, <1>4, <1>7 DEF UbloxAll, UbloxInv, Whole
<1>9. UbloxGather'
  <2>1. CASE "0215" \in l.cur
    <3>1. PICK a : a = l.val["0215"].sec
      OBVIOUS
    <3>2. /\ a > 0 /\ a <= sec
          /\ \A v \in l.svmeas : v.sec = a
          /\ \A i \in l.cur : UbloxOf(l.val[i].sec, a)
          /\ \A m \in Saved : m.val["0215"].sec < a
      BY <2>1, <3>1 DEF UbloxInv, UbloxGather
    <3>3. a \in Nat
      BY <3>1, UbloxHead DEF UbloxInv, LogState, Stamped
    <3>4. a < sec' /\ a <= sec'
      BY <1>1, <3>2, <3>3
    <3>5. \A i \in l.cur : UbloxOf(l.val[i].sec, a)'
      BY <1>1, <3>2 DEF UbloxOf, Harmed
    <3> QED  BY <1>1, <1>5, <2>1, <3>1, <3>2, <3>4, <3>5 DEF UbloxGather
  <2>2. CASE "0215" \notin l.cur
    BY <1>1, <2>2 DEF UbloxGather, UbloxInv
  <2> QED  BY <2>1, <2>2
<1> QED  BY <1>1, <1>5, <1>6, <1>8, <1>9 DEF UbloxInv

-----------------------------------------------------------------------------
(* Resolution *)

LEMMA RawOfCardinality ==
  ASSUME NEW S, IsFiniteSet(S), NEW c
  PROVE  Cardinality(RawOf(S, c)) = Cardinality(S)
<1> DEFINE f == [x \in S |-> [sv |-> x, sec |-> c]]
           R == RawOf(S, c)
<1>1. f \in [S -> R] /\ \A x \in S : f[x] = [sv |-> x, sec |-> c] /\ f[x].sv = x
  BY DEF RawOf
<1>2. \A r \in R : \E x \in S : r = [sv |-> x, sec |-> c]
  BY DEF RawOf
<1> HIDE DEF f, R
<1>3. f \in Surjection(S, R)
  BY <1>1, <1>2 DEF Surjection
<1>4. f \in Injection(S, R)
  BY <1>1 DEF Injection, IsInjective
<1> QED  BY <1>3, <1>4, FS_Surjection DEF R

LEMMA ResolutionHeader ==
  ASSUME NEW b \in LogState(ResolutionIds), NEW ln, ln.sec \in Nat, ln.st \in Nat
  PROVE  LET c == Resolution8fab(b, ln)
         IN  /\ c \in LogState(ResolutionIds) /\ c.svmeas = {}
             /\ c.measurements = IF ResolutionComplete(b)
                                 THEN Append(b.measurements, New(b, b.svmeas)) ELSE b.measurements
             /\ \/ ln.q = "outlier" /\ c.useData = FALSE /\ c.val = b.val
                \/ ln.q # "outlier" /\ c.useData = TRUE /\ c.cur = {} /\ c.val["8fab"] = From(ln)
<1>1. b.svmeas \in SUBSET SVMeas
  BY DEF LogState
<1> DEFINE p == Push(b, b.svmeas)
           s == IF ResolutionComplete(b) THEN [p EXCEPT !.cur = {}] ELSE b
           v == [s.val EXCEPT !["8fab"] = From(ln)]
<1>2. /\ p \in LogState(ResolutionIds) /\ p.val = b.val
      /\ p.measurements = Append(b.measurements, New(b, b.svmeas))
  BY <1>1, PushState
<1>3. Resolution8fab(b, ln) =
        IF ln.q = "outlier"
        THEN [s EXCEPT !.useData = FALSE, !.svmeas = {}]
        ELSE [s EXCEPT !.useData = TRUE, !.svmeas = {}, !.cur = {},
                       !.pctime = ln.st, !.val["8fab"] = From(ln)]
  BY DEF Resolution8fab
<1> HIDE DEF p
<1>4. /\ s \in LogState(ResolutionIds) /\ s.val = b.val
      /\ s.measurements = IF ResolutionComplete(b)
                          THEN Append(b.measurements, New(b, b.svmeas)) ELSE b.measurements
  BY <1>2 DEF LogState
<1> HIDE DEF s
<1>5. v \in [ResolutionIds -> Stamped] /\ v["8fab"] = From(ln)
  BY <1>4 DEF LogState, ResolutionIds, From, Stamped
<1>6. CASE ln.q = "outlier"
  <2>1. Resolution8fab(b, ln) = [s EXCEPT !.useData = FALSE, !.svmeas = {}]
    BY <1>3, <1>6
  <2> QED  BY <1>4, <1>6, <2>1 DEF LogState
<1>7. CASE ln.q # "outlier"
  <2>1. Resolution8fab(b, ln) = [s EXCEPT !.useData = TRUE, !.svmeas = {}, !.cur = {},
                                          !.pctime = ln.st, !.val = v]
    BY <1>3, <1>4, <1>7
  <2> HIDE DEF v
  <2> QED  BY <1>4, <1>5, <1>7, <2>1 DEF LogState
<1> QED  BY <1>6, <1>7

LEMMA ResolutionRange ==
  ASSUME NEW b \in LogState(ResolutionIds), NEW ln, ln.sec \in Nat, ln.sv \in SVs
  PROVE  LET c == Resolution5a(b, ln)
         IN  /\ c \in LogState(ResolutionIds)
             /\ c.val = b.val /\ c.cur = b.cur /\ c.measurements = b.measurements
             /\ c.useData => b.useData
             /\ \/ c.svmeas = {} /\ c.useData = FALSE /\ \E m \in b.svmeas : m.sv = ln.sv
                \/ /\ ln.sv \in GPSSVs /\ \A m \in b.svmeas : m.sv # ln.sv
                   /\ c.svmeas = b.svmeas \cup {[sv |-> ln.sv, sec |-> ln.sec]}
                   /\ b.useData /\ Cardinality(b.svmeas) < MaxChannels => c.useData
                \/ /\ ln.sv \notin GPSSVs /\ c.svmeas = b.svmeas
                   /\ b.useData /\ Cardinality(b.svmeas) < MaxChannels => c.useData
<1> DEFINE few == Cardinality(b.svmeas) < MaxChannels
           n == [b EXCEPT !.useData = @ /\ few]
           more == b.svmeas \cup {[sv |-> ln.sv, sec |-> ln.sec]}
<1>1. few \in BOOLEAN /\ b.useData \in BOOLEAN
  BY DEF LogState
<1>2. more \in SUBSET SVMeas
  BY DEF LogState, SVMeas
<1>3. Resolution5a(b, ln) = IF ln.sv \notin GPSSVs THEN n
                            ELSE IF \E m \in b.svmeas : m.sv = ln.sv
                            THEN [n EXCEPT !.useData = FALSE, !.svmeas = {}]
                            ELSE [n EXCEPT !.svmeas = @ \cup {[sv |-> ln.sv, sec |-> ln.sec]}]
  BY DEF Resolution5a
<1> HIDE DEF few
<1>4. /\ n \in LogState(ResolutionIds) /\ n.val = b.val /\ n.cur = b.cur
      /\ n.measurements = b.measurements /\ n.svmeas = b.svmeas
  BY <1>1 DEF LogState
<1>5. (n.useData => b.useData) /\ (b.useData /\ few => n.useData)
  <2>1. n.useData = (b.useData /\ few)
    BY DEF LogState
  <2> QED  BY <2>1
<1> HIDE DEF n, more
<1>6. CASE ln.sv \in GPSSVs /\ \E m \in b.svmeas : m.sv = ln.sv
  <2>1. Resolution5a(b, ln) = [n EXCEPT !.useData = FALSE, !.svmeas = {}]
    BY <1>3, <1>6
  <2> QED  BY <1>4, <1>6, <2>1 DEF LogState
<1>7. CASE ln.sv \in GPSSVs /\ ~ \E m \in b.svmeas : m.sv = ln.sv
  <2>1. Resolution5a(b, ln) = [n EXCEPT !.svmeas = more]
    BY <1>3, <1>4, <1>7 DEF more
  <2>2. /\ Resolution5a(b, ln) \in LogState(ResolutionIds)
        /\ Resolution5a(b, ln).val = b.val /\ Resolution5a(b, ln).cur = b.cur
        /\ Resolution5a(b, ln).measurements = b.measurements /\ Resolution5a(b, ln).svmeas = more
    BY <1>2, <1>4, <2>1 DEF LogState
  <2>3. Resolution5a(b, ln).useData = n.useData
    BY <1>4, <2>1 DEF LogState
  <2> QED  BY <1>5, <1>7, <2>2, <2>3 DEF few, more
<1>8. CASE ln.sv \notin GPSSVs
  BY <1>3, <1>4, <1>5, <1>8 DEF few
<1> QED  BY <1>6, <1>7, <1>8

LEMMA ResolutionReads ==
  ASSUME NEW b \in LogState(ResolutionIds), NEW ln,
         ln = [id |-> ln.id, sec |-> ln.sec, q |-> ln.q, sv |-> ln.sv, svs |-> ln.svs, st |-> ln.st]
  PROVE  LET c == ResolutionRead(b, ln)
         IN  /\ ln.q = "bad" => c = b
             /\ ln.q = "short" /\ ln.id \in {"8fab", "5a", "8fac"} => c = [b EXCEPT !.abort = TRUE]
             /\ ln.q \notin {"bad", "short"} =>
                  /\ ln.id = "8fab" => c = Resolution8fab(b, ln)
                  /\ ln.id = "5a" => c = Resolution5a(b, ln)
                  /\ ln.id = "8fac" => c = Take(b, [ln EXCEPT !.q = "ok"])
             /\ ln.q = "ok" /\ ln.id \in {"580204", "580205"} =>
                  /\ c \in LogState(ResolutionIds) /\ c.measurements = b.measurements /\ c.val = b.val
                  /\ c.cur = b.cur /\ c.svmeas = b.svmeas /\ c.useData = b.useData
<1>1. ln.q = "bad" => ResolutionRead(b, ln) = b
  BY Zenon DEF ResolutionRead
<1>2. ln.q = "short" /\ ln.id \in {"8fab", "5a", "8fac"} => ResolutionRead(b, ln) = [b EXCEPT !.abort = TRUE]
  <2>1. ln.q = "short" => ln.q # "bad"
    OBVIOUS
  <2> QED  BY <2>1, Zenon DEF ResolutionRead
<1>3. ln.q \notin {"bad", "short"} /\ ln.id = "8fab" => ResolutionRead(b, ln) = Resolution8fab(b, ln)
  BY Zenon DEF ResolutionRead
<1>4. ln.q \notin {"bad", "short"} /\ ln.id = "5a" => ResolutionRead(b, ln) = Resolution5a(b, ln)
  BY Zenon DEF ResolutionRead
<1>5. ln.q \notin {"bad", "short"} /\ ln.id = "8fac" => ResolutionRead(b, ln) = Take(b, [ln EXCEPT !.q = "ok"])
  BY Zenon DEF ResolutionRead, Resolution8fac
<1>6. ln.q = "ok" /\ ln.id = "580204" => ResolutionRead(b, ln) = [b EXCEPT !.got = b.got \cup {"iono"}]
  <2>1. ln.q = "ok" /\ ln.id = "580204" => ResolutionRead(b, ln) = Resolution580204(b, ln)
    BY Zenon DEF ResolutionRead
  <2> QED  BY <2>1 DEF Resolution580204
<1>7. ln.q = "ok" /\ ln.id = "580205" => ResolutionRead(b, ln) = [b EXCEPT !.got = b.got \cup {"utc"}]
  <2>1. ln.q = "ok" /\ ln.id = "580205" => ResolutionRead(b, ln) = Resolution580205(b, ln)
    BY Zenon DEF ResolutionRead
  <2> QED  BY <2>1 DEF Resolution580205
<1>8. ASSUME NEW g \in {"iono", "utc"}
      PROVE  LET c == [b EXCEPT !.got = b.got \cup {g}]
             IN  /\ c \in LogState(ResolutionIds) /\ c.measurements = b.measurements /\ c.val = b.val
                 /\ c.cur = b.cur /\ c.svmeas = b.svmeas /\ c.useData = b.useData
  BY DEF LogState
<1> QED  BY <1>1, <1>2, <1>3, <1>4, <1>5, <1>6, <1>7, <1>8

\* A second other than that of the 8fab: only when its own 8fab was not read
ResolutionOf(s, a) == s = a \/ Gone(s, "8fab")

ResolutionMeas(m) ==
  /\ m.meas # {} /\ m.val["8fab"].sec < sec
  /\ \A v \in m.meas : v.sec < sec /\ ResolutionOf(v.sec, m.val["8fab"].sec)
  /\ \A v, w \in m.meas : v.sv = w.sv => v = w
  /\ ResolutionOf(m.val["8fac"].sec, m.val["8fab"].sec)

\* What is gathered is later than all that was saved, and of one second while it is to be used
ResolutionGather ==
  LET a == l.val["8fab"].sec
      begun == todo # Sends(rx, svs)
  IN  /\ a <= sec /\ (~begun => a < sec)
      /\ \A v \in l.svmeas :
            /\ v.sec <= sec /\ (~begun => v.sec < sec)
            /\ l.useData => ResolutionOf(v.sec, a)
            /\ \A m \in Saved : \A w \in m.meas : w.sec < v.sec
      /\ \A v, w \in l.svmeas : v.sv = w.sv => v = w
      /\ l.useData /\ "8fac" \in l.cur => ResolutionOf(l.val["8fac"].sec, a)
      /\ progress = "reading" /\ l.useData /\ begun => ResolutionOf(sec, a)

\* The satellites S can be more than there is room for
Spoils(S) == Cardinality(S) > MaxChannels /\ Cardinality(S \cap GPSSVs) >= MaxChannels

\* The satellites whose pseudoranges were logged so far
Ranged == {v \in svs \cap GPSSVs : <<"5a", v>> \notin Pending}

\* All of a whole second that was logged so far was gathered
ResolutionAll ==
  IF todo = Sends(rx, svs)
  THEN sec > 1 /\ Whole(sec - 1) /\ seen[sec - 1] \cap GPSSVs # {} /\ ~Spoils(seen[sec - 1]) =>
         /\ l.useData /\ "8fac" \in l.cur /\ l.val["8fab"].sec = sec - 1
         /\ l.svmeas = RawOf(seen[sec - 1] \cap GPSSVs, sec - 1)
  ELSE Whole(sec) /\ ~Spoils(svs) =>
         /\ l.useData /\ (<<"8fac", "-">> \notin Pending => "8fac" \in l.cur) /\ l.val["8fab"].sec = sec
         /\ l.svmeas = RawOf(Ranged, sec)

ResolutionInv ==
  /\ l \in LogState(ResolutionIds)
  /\ \A m \in Saved : ResolutionMeas(m)
  /\ UsedOnce
  /\ ResolutionGather
  /\ ResolutionAll

LEMMA ResolutionHead ==
  /\ Header("resolution") = "8fab" /\ {"8fab", "8fac"} = ResolutionIds
  /\ Parameters("resolution") = {"580204", "580205"}
  /\ rx = "resolution" => \A m : SecondOf(m) = m.val["8fab"].sec
<1>1. Header("resolution") = "8fab" /\ Parameters("resolution") = {"580204", "580205"}
  BY Zenon DEF Header, Parameters
<1> QED  BY <1>1 DEF ResolutionIds, SecondOf, Anchor

LEMMA ResolutionStart == ASSUME rx = "resolution", ReadInit PROVE ResolutionInv
<1>1. l = Locals(ResolutionIds)
  <2>1. l = Fresh(rx) /\ Fresh("resolution") = ResolutionLocals
    BY Zenon DEF ReadInit, Fresh
  <2> QED  BY <2>1 DEF ResolutionLocals
<1>2. /\ l \in LogState(ResolutionIds) /\ l.cur = {} /\ l.svmeas = {} /\ l.measurements = << >>
      /\ l.val["8fab"].sec = 0
  BY <1>1, LocalsState, ResolutionHead
<1>3. Saved = {} /\ UsedOnce
  BY <1>2 DEF Saved, UsedOnce
<1>4. sec = 1 /\ todo = Sends(rx, svs)
  BY DEF ReadInit
<1> QED  BY <1>2, <1>3, <1>4 DEF ResolutionInv, ResolutionGather, ResolutionAll

\* What was saved stays true
LEMMA ResolutionMeasStays ==
  ASSUME sec \in Nat, sec' \in Nat, sec <= sec', harmed \subseteq harmed', l \in LogState(ResolutionIds),
         NEW m \in Saved, ResolutionMeas(m)
  PROVE  ResolutionMeas(m)'
<1>1. \A s : Gone(s, "8fab") => Gone(s, "8fab")'
  BY WholeThen DEF Gone
<1>2. m \in MeasOf(ResolutionIds)
  BY DEF Saved, LogState
<1>3. m.val["8fab"].sec \in Nat /\ \A v \in m.meas : v.sec \in Nat
  BY <1>2, ResolutionHead DEF MeasOf, Stamped, SVMeas
<1> QED  BY <1>1, <1>3 DEF ResolutionMeas, ResolutionOf

\* A line that is lost, or that cannot be read, leaves things as they are
LEMMA ResolutionStays ==
  ASSUME Logging, rx = "resolution", ResolutionInv, NotLost, progress = "reading",
         UNCHANGED <<rx, sec, svs, seen>>, harmed \subseteq harmed', ~Whole(sec)', todo' # Sends(rx, svs),
         progress' = "reading" /\ todo = Sends(rx, svs) => Gone(sec, "8fab")',
         l' \in LogState(ResolutionIds), l'.cur = l.cur, l'.svmeas = l.svmeas, l'.val = l.val,
         l'.useData = l.useData, l'.measurements = l.measurements
  PROVE  ResolutionInv' /\ NotLost'
<1>1. sec \in Nat
  BY LogAssumption DEF Logging, Sec
<1>2. Saved' = Saved /\ UsedOnce'
  BY DEF Saved, UsedOnce, ResolutionInv
<1>3. \A m \in Saved : ResolutionMeas(m)'
  BY <1>1, ResolutionMeasStays DEF ResolutionInv
<1>4. \A s : Gone(s, "8fab") => Gone(s, "8fab")'
  BY WholeThen DEF Gone
<1>5. todo' # Sends(rx, svs)'
  OBVIOUS
<1>6. ResolutionAll'
  BY <1>5 DEF ResolutionAll, Whole
<1>7. ResolutionGather'
  <2>1. \A s, a : ResolutionOf(s, a) => ResolutionOf(s, a)'
    BY <1>4 DEF ResolutionOf
  <2>2. PICK a : a = l.val["8fab"].sec
    OBVIOUS
  <2>3. /\ a <= sec
        /\ \A v \in l.svmeas :
              /\ v.sec <= sec
              /\ l.useData => ResolutionOf(v.sec, a)
              /\ \A m \in Saved : \A w \in m.meas : w.sec < v.sec
        /\ \A v, w \in l.svmeas : v.sv = w.sv => v = w
        /\ l.useData /\ "8fac" \in l.cur => ResolutionOf(l.val["8fac"].sec, a)
        /\ l.useData /\ todo # Sends(rx, svs) => ResolutionOf(sec, a)
    BY <2>2 DEF ResolutionInv, ResolutionGather
  <2>4. progress' = "reading" /\ l.useData => ResolutionOf(sec, a)'
    BY <2>1, <2>3 DEF ResolutionOf
  <2>5. l.useData /\ "8fac" \in l.cur => ResolutionOf(l.val["8fac"].sec, a)'
    BY <2>1, <2>3 DEF ResolutionOf
  <2>6. \A v \in l.svmeas : l.useData => ResolutionOf(v.sec, a)'
    BY <2>1, <2>3
  <2> QED  BY <1>2, <1>5, <2>2, <2>3, <2>4, <2>5, <2>6 DEF ResolutionGather
<1>8. NotLost'
  <2>1. ~Due(sec - 1)'
    <3>1. (sec - 1) + 1 = sec
      BY <1>1
    <3> QED  BY <3>1 DEF Due, Whole
  <2> QED  BY <1>2, <2>1, SameSecond
<1> QED  BY <1>2, <1>3, <1>6, <1>7, <1>8 DEF ResolutionInv

LEMMA ResolutionLost ==
  ASSUME Logging, rx = "resolution", ResolutionInv, NotLost, Lose
  PROVE  ResolutionInv' /\ NotLost'
<1>1. PICK it \in todo[1] : /\ todo' = Without(it)
                            /\ harmed' = harmed \cup {[sec |-> sec, id |-> it[1], how |-> "lost"]}
  BY DEF Lose
<1>2. progress = "reading" /\ todo # << >> /\ UNCHANGED <<rx, sec, svs, stamp, seen, progress, l>>
  BY DEF Lose
<1>3. harmed \subseteq harmed' /\ ~Whole(sec)' /\ Harmed(sec, it[1], {"lost"})'
  BY <1>1, <1>2, Loses
<1>4. todo' # Sends(rx, svs) /\ (it = <<"8fab", "-">> <=> todo = Sends(rx, svs))
  BY <1>1, <1>2, LogsLeft, ResolutionHead
<1>5. todo = Sends(rx, svs) => Gone(sec, "8fab")'
  BY <1>3, <1>4 DEF Gone, Harmed
<1> QED  BY <1>2, <1>3, <1>4, <1>5, ResolutionStays DEF ResolutionInv

LEMMA ResolutionParameters ==
  ASSUME Logging, rx = "resolution", ResolutionInv, NotLost, NEW ln, Informs(ln)
  PROVE  ResolutionInv' /\ NotLost'
<1>1. /\ progress = "reading" /\ ln.id \in {"580204", "580205"} /\ ln.q = "ok"
      /\ ln = [id |-> ln.id, sec |-> ln.sec, q |-> ln.q, sv |-> ln.sv, svs |-> ln.svs, st |-> ln.st]
      /\ Len(todo) = 1 /\ UNCHANGED <<todo, harmed, rx, sec, svs, seen>> /\ l' = ResolutionRead(l, ln)
  <2>1. l' = ReadLine(ln)
    BY DEF Informs, Handle
  <2>2. ReadLine(ln) = ResolutionRead(l, ln)
    BY Zenon DEF ReadLine
  <2> QED  BY <2>1, <2>2, ResolutionHead DEF Informs, Handle
<1>2. sec \in Nat
  BY LogAssumption DEF Logging, Sec
<1>3. /\ l' \in LogState(ResolutionIds) /\ l'.measurements = l.measurements /\ l'.useData = l.useData
      /\ l'.cur = l.cur /\ l'.svmeas = l.svmeas /\ l'.val = l.val
  BY <1>1, ResolutionReads DEF ResolutionInv
<1>4. Saved' = Saved /\ UsedOnce'
  BY <1>3 DEF Saved, UsedOnce, ResolutionInv
<1>5. todo # Sends(rx, svs)
  <2>1. Groups(Sends(rx, svs)) /\ Sends(rx, svs)[1] = {<<"8fab", "-">>}
        /\ <<"8fac", "-">> \in AllOf(Sends(rx, svs))
    BY ResolutionSends, ResolutionHead
  <2>2. PICK k \in DOMAIN Sends(rx, svs) : <<"8fac", "-">> \in Sends(rx, svs)[k]
    BY <2>1 DEF AllOf
  <2>3. k # 1
    BY <2>1, <2>2
  <2>4. DOMAIN Sends(rx, svs) = 1 .. Len(Sends(rx, svs)) /\ Len(Sends(rx, svs)) \in Nat
    BY <2>1 DEF Groups
  <2> QED  BY <1>1, <2>2, <2>3, <2>4
<1>6. \A m \in Saved : ResolutionMeas(m)'
  BY <1>1, <1>2, ResolutionMeasStays DEF ResolutionInv
<1>7. ResolutionGather' /\ ResolutionAll'
  BY <1>1, <1>3, <1>4 DEF ResolutionInv, ResolutionGather, ResolutionOf, Gone, Harmed, ResolutionAll, Whole, Pending, Ranged
<1> QED  BY <1>1, <1>3, <1>4, <1>5, <1>6, <1>7, SameSecond DEF ResolutionInv

LEMMA ResolutionNewLine ==
  ASSUME Logging, rx = "resolution", ResolutionInv, NotLost, NEW it, NEW ln, Logs(it, ln)
  PROVE  ResolutionInv' /\ NotLost'
<1>1. /\ progress = "reading" /\ todo # << >> /\ it \in todo[1] /\ todo' = Without(it)
      /\ ln.id = it[1] /\ ln.sec = sec /\ ln.sv = it[2] /\ ln.st = sec
      /\ ln = [id |-> ln.id, sec |-> ln.sec, q |-> ln.q, sv |-> ln.sv, svs |-> ln.svs, st |-> ln.st]
      /\ harmed \subseteq harmed' /\ UNCHANGED <<rx, sec, svs, seen>>
      /\ progress' = IF l'.abort THEN "aborted" ELSE "reading"
      /\ l' = ResolutionRead(l, ln)
  <2>1. l' = ReadLine(ln)
    BY DEF Logs, Handle
  <2>2. ReadLine(ln) = ResolutionRead(l, ln)
    BY Zenon DEF ReadLine
  <2> QED  BY <2>1, <2>2 DEF Logs, Handle
<1>2. sec \in Nat /\ sec > 0 /\ svs \subseteq SVs
  BY LogAssumption DEF Logging, Sec
<1>3. Whole(sec)' => ln.q = "ok"
  BY <1>1 DEF Logs, Whole
<1>4. /\ todo' # Sends(rx, svs) /\ Pending' = Pending \ {it} /\ it \in Pending
      /\ it = <<"8fab", "-">> <=> todo = Sends(rx, svs)
      /\ it \in {<<i, "-">> : i \in ResolutionIds} \cup {<<"5a", v>> : v \in svs}
  BY <1>1, LogsLeft, ResolutionHead, ResolutionSends
<1>5. /\ ln.id = "8fab" <=> todo = Sends(rx, svs)
      /\ ln.id \in {"8fab", "5a", "8fac"}
      /\ ln.id = "5a" => it = <<"5a", ln.sv>> /\ ln.sv \in svs
      /\ ln.id = "8fac" => it = <<"8fac", "-">>
  BY <1>1, <1>4 DEF ResolutionIds
<1>6. l \in LogState(ResolutionIds) /\ l.measurements \in Seq(MeasOf(ResolutionIds)) /\ l.svmeas \in SUBSET SVMeas
  BY DEF ResolutionInv, LogState
<1>7. \A m \in Saved : ResolutionMeas(m)'
  BY <1>1, <1>2, ResolutionMeasStays DEF ResolutionInv
<1>8. \A s, a : ResolutionOf(s, a) => ResolutionOf(s, a)'
  BY <1>1, WholeThen DEF ResolutionOf, Gone
<1>9. todo' # Sends(rx, svs)'
  BY <1>1, <1>4
<1>10. PICK a : a = l.val["8fab"].sec
  OBVIOUS
<1>11. /\ a <= sec /\ (todo = Sends(rx, svs) => a < sec)
       /\ \A v \in l.svmeas :
             /\ v.sec <= sec /\ (todo = Sends(rx, svs) => v.sec < sec)
             /\ l.useData => ResolutionOf(v.sec, a)
             /\ \A m \in Saved : \A w \in m.meas : w.sec < v.sec
       /\ \A v, w \in l.svmeas : v.sv = w.sv => v = w
       /\ l.useData /\ "8fac" \in l.cur => ResolutionOf(l.val["8fac"].sec, a)
       /\ l.useData /\ todo # Sends(rx, svs) => ResolutionOf(sec, a)
  BY <1>1, <1>10 DEF ResolutionInv, ResolutionGather
<1>12. \A m \in Saved : \A w \in m.meas : w.sec < sec
  BY DEF ResolutionInv, ResolutionMeas
<1>13. CASE ln.q = "bad"
  <2>1. l' = l
    BY <1>1, <1>6, <1>13, ResolutionReads
  <2>2. todo = Sends(rx, svs) => Gone(sec, "8fab")'
    <3>1. Harm("8fab", "bad") = "lost"
      BY ResolutionHead DEF Harm
    <3>2. ASSUME todo = Sends(rx, svs) PROVE [sec |-> sec, id |-> "8fab", how |-> "lost"] \in harmed'
      BY <1>1, <1>5, <1>13, <3>1, <3>2 DEF Logs
    <3> DEFINE h == [sec |-> sec, id |-> "8fab", how |-> "lost"]
    <3>3. h.sec = sec /\ h.id = "8fab" /\ h.how \in {"lost", "bad"}
      OBVIOUS
    <3> HIDE DEF h
    <3>4. PICK g : g = h
      OBVIOUS
    <3> QED  BY <1>1, <3>2, <3>3, <3>4 DEF Gone, Harmed, h
  <2>3. ~Whole(sec)'
    BY <1>3, <1>13
  <2> QED  BY <1>1, <1>4, <1>6, <2>1, <2>2, <2>3, ResolutionStays
<1>14. CASE ln.q = "short"
  <2>1. l' = [l EXCEPT !.abort = TRUE]
    BY <1>1, <1>5, <1>6, <1>14, ResolutionReads
  <2>2. /\ l' \in LogState(ResolutionIds) /\ l'.cur = l.cur /\ l'.svmeas = l.svmeas /\ l'.val = l.val
        /\ l'.useData = l.useData /\ l'.measurements = l.measurements /\ l'.abort = TRUE
    BY <1>6, <2>1 DEF LogState
  <2>3. ~Whole(sec)'
    BY <1>3, <1>14
  <2>4. progress' # "reading"
    BY <1>1, <2>2
  <2> QED  BY <1>1, <1>4, <2>2, <2>3, <2>4, ResolutionStays
<1>15. CASE ln.q \notin {"bad", "short"} /\ ln.id = "8fab"
  <2> PICK e : e = New(l, l.svmeas)
    OBVIOUS
  <2>1. todo = Sends(rx, svs)
    BY <1>5, <1>15
  <2>2. /\ l' \in LogState(ResolutionIds) /\ l'.svmeas = {}
        /\ l'.measurements = IF ResolutionComplete(l) THEN Append(l.measurements, e) ELSE l.measurements
        /\ \/ ln.q = "outlier" /\ l'.useData = FALSE /\ l'.val = l.val
           \/ ln.q # "outlier" /\ l'.useData = TRUE /\ l'.cur = {} /\ l'.val["8fab"] = From(ln)
    <3>1. l' = Resolution8fab(l, ln)
      BY <1>1, <1>6, <1>15, ResolutionReads
    <3>2. ln.sec \in Nat /\ ln.st \in Nat
      BY <1>1, <1>2
    <3> QED  BY <1>6, <3>1, <3>2, ResolutionHeader
  <2>3. e.val = l.val /\ e.meas = l.svmeas
    BY DEF New
  <2>4. e \in MeasOf(ResolutionIds)
    BY <1>6, PushState
  <2>5. ASSUME ResolutionComplete(l)
        PROVE  ResolutionMeas(e)' /\ Saved' = Saved \cup {e} /\ UsedOnce'
    <3>1. l.svmeas # {} /\ l.useData /\ "8fac" \in l.cur
      BY <2>5 DEF ResolutionComplete
    <3>2. ResolutionMeas(e)
      BY <1>10, <1>11, <2>1, <2>3, <3>1 DEF ResolutionMeas
    <3>3. ResolutionMeas(e)'
      BY <1>1, <1>8, <3>2 DEF ResolutionMeas
    <3>4. l'.measurements = Append(l.measurements, e)
      BY <2>2, <2>5
    <3>5. \A m \in Saved : m.meas \cap e.meas = {}
      <4> SUFFICES ASSUME NEW m \in Saved, NEW w \in m.meas, w \in e.meas PROVE FALSE
        OBVIOUS
      <4>1. w.sec < w.sec /\ w \in SVMeas
        BY <1>6, <1>11, <2>3
      <4>2. w.sec \in Nat
        BY <4>1 DEF SVMeas
      <4> QED  BY <4>1, <4>2
    <3>6. Saved' = Saved \cup {e} /\ UsedOnce'
      BY <1>6, <2>4, <3>4, <3>5, ResolutionHead, SavedMore DEF ResolutionInv
    <3> QED  BY <3>3, <3>6
  <2>6. ASSUME ~ResolutionComplete(l)
        PROVE  Saved' = Saved /\ UsedOnce'
    <3>1. l'.measurements = l.measurements
      BY <2>2, <2>6
    <3> QED  BY <3>1 DEF Saved, UsedOnce, ResolutionInv
  <2>7. (\A m \in Saved' : ResolutionMeas(m)') /\ UsedOnce' /\ Saved \subseteq Saved'
    BY <1>7, <2>5, <2>6
  <2>8. ResolutionGather'
    <3>1. CASE ln.q = "outlier" /\ l'.useData = FALSE /\ l'.val = l.val
      BY <1>1, <1>9, <1>10, <1>11, <2>2, <3>1 DEF ResolutionGather
    <3>2. CASE ln.q # "outlier" /\ l'.useData = TRUE /\ l'.cur = {} /\ l'.val["8fab"] = From(ln)
      <4>1. l'.val["8fab"].sec = sec
        BY <1>1, <3>2 DEF From
      <4> QED  BY <1>1, <1>2, <1>9, <2>2, <3>2, <4>1 DEF ResolutionGather, ResolutionOf
    <3> QED  BY <2>2, <3>1, <3>2
  <2>9. ResolutionAll'
    <3>1. ASSUME Whole(sec)'
          PROVE  /\ l'.useData /\ <<"8fac", "-">> \in Pending' /\ l'.val["8fab"].sec = sec
                 /\ l'.svmeas = RawOf(Ranged', sec)
      <4>1. ln.q = "ok"
        BY <1>3, <3>1
      <4>2. l'.useData = TRUE /\ l'.val["8fab"].sec = sec
        BY <1>1, <2>2, <4>1 DEF From
      <4>3. Pending = {<<i, "-">> : i \in ResolutionIds} \cup {<<"5a", v>> : v \in svs}
        BY <2>1, ResolutionSends DEF Pending
      <4>4. <<"8fac", "-">> \in Pending' /\ \A v \in svs : <<"5a", v>> \in Pending'
        BY <1>4, <2>1, <4>3 DEF ResolutionIds
      <4>5. Ranged' = {}
        BY <1>1, <4>4 DEF Ranged
      <4>6. RawOf({}, sec) = {}
        BY RawOfSVs
      <4> QED  BY <2>2, <4>2, <4>4, <4>5, <4>6
    <3> QED  BY <1>1, <1>9, <3>1 DEF ResolutionAll, Whole
  <2>10. ResolutionInv'
    BY <2>2, <2>7, <2>8, <2>9 DEF ResolutionInv
  <2>11. ASSUME sec > 1, Due(sec - 1)' PROVE SavedWhole(sec - 1)'
    <3>1. Whole(sec - 1) /\ seen[sec - 1] \cap GPSSVs # {} /\ ~Spoils(seen[sec - 1])
      BY <1>1, <2>11 DEF Due, Whole, Wanted, Crowded, Spoils
    <3>2. /\ l.useData /\ "8fac" \in l.cur /\ l.val["8fab"].sec = sec - 1
          /\ l.svmeas = RawOf(seen[sec - 1] \cap GPSSVs, sec - 1)
      BY <2>1, <2>11, <3>1 DEF ResolutionInv, ResolutionAll
    <3>3. e \in Saved'
      <4>1. l.svmeas # {}
        BY <3>1, <3>2, RawOfSVs
      <4> QED  BY <2>5, <3>2, <4>1 DEF ResolutionComplete
    <3>4. SVsIn(e.meas) = seen[sec - 1] \cap GPSSVs /\ e.val["8fab"].sec = sec - 1
      BY <2>3, <3>2, RawOfSVs
    <3>5. \A m : SecondOf(m)' = m.val["8fab"].sec
      BY <1>1, ResolutionHead DEF SecondOf
    <3> QED  BY <1>1, <3>3, <3>4, <3>5 DEF SavedWhole, SVsIn, Wanted
  <2> QED  BY <1>1, <2>7, <2>10, <2>11, SameSecond
<1>16. CASE ln.q \notin {"bad", "short"} /\ ln.id = "5a"
  <2> DEFINE x == [sv |-> ln.sv, sec |-> ln.sec]
  <2>1. todo # Sends(rx, svs) /\ ln.sv \in svs /\ it = <<"5a", ln.sv>>
    BY <1>5, <1>16
  <2>2. /\ l' \in LogState(ResolutionIds)
        /\ l'.val = l.val /\ l'.cur = l.cur /\ l'.measurements = l.measurements
        /\ l'.useData => l.useData
        /\ \/ l'.svmeas = {} /\ l'.useData = FALSE /\ \E m \in l.svmeas : m.sv = ln.sv
           \/ /\ ln.sv \in GPSSVs /\ \A m \in l.svmeas : m.sv # ln.sv
              /\ l'.svmeas = l.svmeas \cup {x}
              /\ l.useData /\ Cardinality(l.svmeas) < MaxChannels => l'.useData
           \/ /\ ln.sv \notin GPSSVs /\ l'.svmeas = l.svmeas
              /\ l.useData /\ Cardinality(l.svmeas) < MaxChannels => l'.useData
    <3>1. l' = Resolution5a(l, ln)
      BY <1>1, <1>6, <1>16, ResolutionReads
    <3>2. ln.sec \in Nat /\ ln.sv \in SVs
      BY <1>1, <1>2, <2>1
    <3> QED  BY <1>6, <3>1, <3>2, ResolutionRange, ZenonT(40)
  <2>3. Saved' = Saved /\ UsedOnce'
    BY <2>2 DEF Saved, UsedOnce, ResolutionInv
  <2>4. x.sv = ln.sv /\ x.sec = sec
    BY <1>1
  <2> HIDE DEF x
  <2>5. ResolutionGather'
    <3>1. ASSUME NEW v \in l'.svmeas
          PROVE  /\ v.sec <= sec /\ (l'.useData => ResolutionOf(v.sec, a)')
                 /\ \A m \in Saved : \A w \in m.meas : w.sec < v.sec
      <4>1. CASE v \in l.svmeas
        BY <1>8, <1>11, <2>2, <4>1
      <4>2. CASE v = x
        BY <1>2, <1>8, <1>11, <1>12, <2>1, <2>2, <2>4, <4>2
      <4> QED  BY <2>2, <3>1, <4>1, <4>2
    <3>2. \A v, w \in l'.svmeas : v.sv = w.sv => v = w
      BY <1>11, <2>2, <2>4
    <3>3. l'.useData /\ "8fac" \in l.cur => ResolutionOf(l.val["8fac"].sec, a)'
      BY <1>8, <1>11, <2>2 DEF ResolutionOf
    <3>4. l'.useData => ResolutionOf(sec, a)'
      BY <1>1, <1>8, <1>11, <2>1, <2>2 DEF ResolutionOf
    <3> QED  BY <1>1, <1>9, <1>10, <1>11, <2>2, <2>3, <3>1, <3>2, <3>3, <3>4 DEF ResolutionGather
  <2>6. ResolutionAll'
    <3>1. ASSUME Whole(sec)', ~Spoils(svs)
          PROVE  /\ l'.useData /\ (<<"8fac", "-">> \notin Pending' => "8fac" \in l'.cur)
                 /\ l'.val["8fab"].sec = sec /\ l'.svmeas = RawOf(Ranged', sec)
      <4> PICK T, U : T = Ranged /\ U = Ranged'
        OBVIOUS
      <4>1. Whole(sec)
        BY <1>1, <3>1, WholeThen
      <4>2. /\ l.useData /\ (<<"8fac", "-">> \notin Pending => "8fac" \in l.cur) /\ l.val["8fab"].sec = sec
            /\ l.svmeas = RawOf(T, sec)
        BY <2>1, <3>1, <4>1 DEF ResolutionInv, ResolutionAll
      <4>3. /\ U = T \cup ({ln.sv} \cap GPSSVs) /\ ln.sv \notin T /\ ln.sv \in svs
            /\ T \subseteq svs \cap GPSSVs
        BY <1>1, <1>4, <2>1 DEF Ranged
      <4>4. <<"8fac", "-">> \notin Pending' => <<"8fac", "-">> \notin Pending
        BY <1>4, <2>1
      <4>5. Cardinality(RawOf(T, sec)) < MaxChannels
        <5>1. IsFiniteSet(svs) /\ MaxChannels \in Nat
          BY <1>2, LogAssumption, ChannelsAssumption, FS_Subset
        <5>2. IsFiniteSet(svs \cap GPSSVs)
          BY <5>1, FS_Subset
        <5>3. IsFiniteSet(T) /\ Cardinality(T) <= Cardinality(svs) /\ Cardinality(T) # Cardinality(svs)
          BY <4>3, <5>1, FS_Subset
        <5>4. Cardinality(T) <= Cardinality(svs \cap GPSSVs)
          BY <4>3, <5>2, FS_Subset
        <5>5. /\ Cardinality(T) \in Nat /\ Cardinality(svs) \in Nat
              /\ Cardinality(svs \cap GPSSVs) \in Nat
          BY <5>1, <5>2, <5>3, FS_CardinalityType
        <5>6. Cardinality(T) < MaxChannels
          BY <3>1, <5>1, <5>3, <5>4, <5>5 DEF Spoils
        <5> QED  BY <5>3, <5>6, RawOfCardinality
      <4>6. \A m \in l.svmeas : m.sv # ln.sv
        BY <4>2, <4>3 DEF RawOf
      <4>7. CASE ln.sv \in GPSSVs
        <5>1. l'.svmeas = l.svmeas \cup {x} /\ l'.useData
          BY <2>2, <4>2, <4>5, <4>6, <4>7
        <5>2. RawOf(U, sec) = RawOf(T, sec) \cup {x}
          BY <1>1, <4>3, <4>7 DEF RawOf, x
        <5> QED  BY <2>2, <4>2, <4>4, <5>1, <5>2
      <4>8. CASE ln.sv \notin GPSSVs
        <5>1. l'.svmeas = l.svmeas /\ l'.useData
          BY <2>2, <4>2, <4>5, <4>6, <4>8
        <5>2. U = T
          BY <4>3, <4>8
        <5> QED  BY <2>2, <4>2, <4>4, <5>1, <5>2
      <4> QED  BY <4>7, <4>8
    <3> QED  BY <1>1, <1>9, <3>1 DEF ResolutionAll, Whole
  <2> QED  BY <1>1, <1>7, <2>1, <2>2, <2>3, <2>5, <2>6, SameSecond DEF ResolutionInv
<1>17. CASE ln.q \notin {"bad", "short"} /\ ln.id = "8fac"
  <2>1. todo # Sends(rx, svs) /\ it = <<"8fac", "-">>
    BY <1>5, <1>17
  <2>2. /\ l' \in LogState(ResolutionIds) /\ l'.svmeas = l.svmeas /\ l'.measurements = l.measurements
        /\ l'.useData = l.useData /\ l'.cur = l.cur \cup {"8fac"}
        /\ l'.val["8fab"] = l.val["8fab"] /\ l'.val["8fac"].sec = sec
    <3> DEFINE n == [ln EXCEPT !.q = "ok"]
    <3>1. l' = Take(l, n)
      BY <1>1, <1>6, <1>17, ResolutionReads
    <3>2. n.id = "8fac" /\ n.q = "ok" /\ n.sec = sec /\ n.st = sec
      BY <1>1, <1>17
    <3> HIDE DEF n
    <3>3. From(n).sec = sec /\ n.id \in ResolutionIds /\ "8fab" \in ResolutionIds \ {n.id}
      BY <3>2, ResolutionHead DEF From
    <3> QED  BY <1>2, <1>6, <3>1, <3>2, <3>3, TakeField
  <2>3. Saved' = Saved /\ UsedOnce'
    BY <2>2 DEF Saved, UsedOnce, ResolutionInv
  <2>4. ResolutionGather'
    <3>1. \A v \in l.svmeas : l.useData => ResolutionOf(v.sec, a)'
      BY <1>8, <1>11
    <3>2. l.useData => ResolutionOf(sec, a)'
      BY <1>1, <1>8, <1>11, <2>1 DEF ResolutionOf
    <3> QED  BY <1>1, <1>9, <1>10, <1>11, <2>2, <2>3, <3>1, <3>2 DEF ResolutionGather, ResolutionOf
  <2>5. ResolutionAll'
    <3>1. ASSUME Whole(sec)', ~Spoils(svs)
          PROVE  /\ l'.useData /\ "8fac" \in l'.cur /\ l'.val["8fab"].sec = sec
                 /\ l'.svmeas = RawOf(Ranged', sec)
      <4>1. Whole(sec)
        BY <1>1, <3>1, WholeThen
      <4>2. /\ l.useData /\ l.val["8fab"].sec = sec
            /\ l.svmeas = RawOf(Ranged, sec)
        BY <2>1, <3>1, <4>1 DEF ResolutionInv, ResolutionAll
      <4>3. Ranged' = Ranged
        BY <1>1, <1>4, <2>1 DEF Ranged
      <4> QED  BY <2>2, <4>2, <4>3
    <3> QED  BY <1>1, <1>9, <3>1 DEF ResolutionAll, Whole
  <2> QED  BY <1>1, <1>7, <2>1, <2>2, <2>3, <2>4, <2>5, SameSecond DEF ResolutionInv
<1> QED  BY <1>5, <1>13, <1>14, <1>15, <1>16, <1>17

LEMMA ResolutionNextSec ==
  ASSUME Logging, rx = "resolution", ResolutionInv, NextSec
  PROVE  ResolutionInv'
<1>1. /\ sec \in Nat /\ sec' = sec + 1 /\ todo = << >> /\ todo' = Sends(rx, svs)'
      /\ UNCHANGED <<rx, harmed, progress, l>>
  BY LogAssumption DEF Logging, Sec, NextSec
<1>2. seen' = Append(seen, svs') /\ seen \in Seq(SUBSET SVs) /\ Len(seen) = sec /\ seen[sec] = svs /\ sec > 0
  BY LogAssumption DEF Logging, NextSec, Sec
<1>3. seen'[sec] = svs /\ sec' - 1 = sec
  BY <1>1, <1>2
<1>4. todo # Sends(rx, svs) /\ Pending = {}
  <2>1. Groups(Sends(rx, svs))
    BY ResolutionSends
  <2>2. todo # Sends(rx, svs)
    BY <1>1, <2>1 DEF Groups
  <2> QED  BY <1>1, <2>2 DEF Pending, AllOf
<1>5. Saved' = Saved /\ UsedOnce'
  BY <1>1 DEF Saved, UsedOnce, ResolutionInv
<1>6. \A m \in Saved : ResolutionMeas(m)'
  BY <1>1, ResolutionMeasStays DEF ResolutionInv
<1>7. Ranged = svs \cap GPSSVs /\ <<"8fac", "-">> \notin Pending
  BY <1>4 DEF Ranged
<1>8. ResolutionAll'
  BY <1>1, <1>3, <1>4, <1>7 DEF ResolutionAll, ResolutionInv, Whole
<1>9. ResolutionGather'
  <2>1. l.val["8fab"].sec \in Nat /\ \A v \in l.svmeas : v.sec \in Nat
    BY ResolutionHead DEF ResolutionInv, LogState, Stamped, SVMeas
  <2>2. \A s, a : ResolutionOf(s, a) => ResolutionOf(s, a)'
    BY <1>1 DEF ResolutionOf, Gone, Harmed
  <2>3. PICK a : a = l.val["8fab"].sec
    OBVIOUS
  <2>4. /\ a <= sec
        /\ \A v \in l.svmeas :
              /\ v.sec <= sec
              /\ l.useData => ResolutionOf(v.sec, a)
              /\ \A m \in Saved : \A w \in m.meas : w.sec < v.sec
        /\ \A v, w \in l.svmeas : v.sv = w.sv => v = w
        /\ l.useData /\ "8fac" \in l.cur => ResolutionOf(l.val["8fac"].sec, a)
    BY <2>3 DEF ResolutionInv, ResolutionGather
  <2>5. a <= sec' /\ a < sec' /\ \A v \in l.svmeas : v.sec <= sec' /\ v.sec < sec'
    BY <1>1, <2>1, <2>3, <2>4
  <2>6. l.useData /\ "8fac" \in l.cur => ResolutionOf(l.val["8fac"].sec, a)'
    BY <1>1, <2>2, <2>4 DEF ResolutionOf
  <2>7. \A v \in l.svmeas : l.useData => ResolutionOf(v.sec, a)'
    BY <2>2, <2>4
  <2> QED  BY <1>1, <1>5, <2>3, <2>4, <2>5, <2>6, <2>7 DEF ResolutionGather
<1> QED  BY <1>1, <1>5, <1>6, <1>8, <1>9 DEF ResolutionInv

-----------------------------------------------------------------------------
(* NVS *)

NVSFull(b) == b.cur = NVSReqd /\ ~b.dup

LEMMA NVSStamps ==
  ASSUME NEW b \in LogState(NVSReqd), NEW ln, ln.st \in Nat
  PROVE  LET n == NVSNewStamp(b, ln)
         IN  /\ n \in LogState(NVSReqd) /\ n.val = b.val /\ n.pctime = ln.st
             /\ ln.st = b.pctime => n = b
             /\ n.measurements = IF ln.st # b.pctime /\ NVSFull(b) /\ b.svmeas # {}
                                 THEN Append(b.measurements, New(b, b.svmeas)) ELSE b.measurements
             /\ \/ n.cur = {} /\ n.svmeas = {} /\ n.dup = FALSE
                \/ /\ n.cur = b.cur /\ n.svmeas = b.svmeas /\ n.dup = b.dup
                   /\ ln.st = b.pctime \/ b.pctime = 0 \/ (NVSFull(b) /\ b.svmeas = {})
<1> DEFINE p == Push(b, b.svmeas)
           d == NVSDiscard(b)
           e == NVSDiscard(p)
           s == IF NVSFull(b)
                THEN IF b.svmeas # {} THEN e ELSE b
                ELSE IF b.pctime # 0 THEN d ELSE b
<1>1. b.svmeas \in SUBSET SVMeas
  BY DEF LogState
<1>2. /\ p \in LogState(NVSReqd) /\ p.val = b.val /\ p.pctime = b.pctime
      /\ p.measurements = Append(b.measurements, New(b, b.svmeas))
  BY <1>1, PushState
<1>3. NVSNewStamp(b, ln) = IF ln.st = b.pctime THEN b ELSE [s EXCEPT !.pctime = ln.st]
  BY DEF NVSNewStamp, NVSFull
<1> HIDE DEF p
<1>4. /\ d \in LogState(NVSReqd) /\ d.val = b.val /\ d.measurements = b.measurements
      /\ d.cur = {} /\ d.svmeas = {} /\ d.dup = FALSE
  BY DEF NVSDiscard, deleteMeasurements, LogState
<1>5. /\ e \in LogState(NVSReqd) /\ e.val = b.val /\ e.measurements = p.measurements
      /\ e.cur = {} /\ e.svmeas = {} /\ e.dup = FALSE
  BY <1>2 DEF NVSDiscard, deleteMeasurements, LogState
<1> HIDE DEF d, e
<1>6. s \in LogState(NVSReqd) /\ s.val = b.val
  BY <1>4, <1>5
<1>7. CASE ln.st = b.pctime
  BY <1>3, <1>7
<1>8. CASE ln.st # b.pctime
  <2> DEFINE n == [s EXCEPT !.pctime = ln.st]
  <2>1. NVSNewStamp(b, ln) = n
    BY <1>3, <1>8
  <2> HIDE DEF s
  <2>2. /\ n \in LogState(NVSReqd) /\ n.val = s.val /\ n.pctime = ln.st /\ n.measurements = s.measurements
        /\ n.cur = s.cur /\ n.svmeas = s.svmeas /\ n.dup = s.dup
    BY <1>6 DEF LogState
  <2> HIDE DEF n
  <2>3. /\ s.measurements = IF NVSFull(b) /\ b.svmeas # {}
                            THEN Append(b.measurements, New(b, b.svmeas)) ELSE b.measurements
        /\ \/ s.cur = {} /\ s.svmeas = {} /\ s.dup = FALSE
           \/ /\ s.cur = b.cur /\ s.svmeas = b.svmeas /\ s.dup = b.dup
              /\ b.pctime = 0 \/ (NVSFull(b) /\ b.svmeas = {})
    BY <1>2, <1>4, <1>5 DEF s
  <2> QED  BY <1>6, <1>8, <2>1, <2>2, <2>3
<1> QED  BY <1>7, <1>8

\* What becomes of a message that there is room for
NVSGathered(n, ln, c) ==
  \/ /\ ln.id \in n.cur /\ c.dup = TRUE
     /\ c.cur = n.cur /\ c.svmeas = n.svmeas /\ c.val = n.val
  \/ /\ ln.id \notin n.cur /\ c.dup = n.dup
     /\ c.cur \in {n.cur, n.cur \cup {ln.id}} /\ (ln.q = "ok" => ln.id \in c.cur)
     /\ \A i \in NVSReqd \ {ln.id} : c.val[i] = n.val[i]
     /\ ln.id \in c.cur => c.val[ln.id] = From(ln)
     /\ c.svmeas = IF ln.id = "F5" /\ ln.q = "ok" THEN n.svmeas \cup RawOf(ln.svs, ln.sec) ELSE n.svmeas
     /\ ln.id = "F5" /\ ln.q # "ok" => c.cur = n.cur

\* What becomes of pseudoranges that there is no room for
NVSMany(n, ln, c) ==
  /\ ln.id = "F5" /\ ln.q = "ok" /\ ln.id \notin n.cur
  /\ Cardinality(n.svmeas \cup RawOf(ln.svs, ln.sec)) >= MaxRaw
  /\ c.cur = n.cur /\ c.dup = n.dup /\ c.svmeas = {}
  /\ \A i \in NVSReqd \ {ln.id} : c.val[i] = n.val[i]

NVSTaken(n, ln, c) == NVSGathered(n, ln, c) \/ NVSMany(n, ln, c)

LEMMA NVSTakes ==
  ASSUME NEW n \in LogState(NVSReqd), NEW ln, ln.id \in NVSReqd, ln.sec \in Nat, ln.st \in Nat, ln.svs \subseteq SVs,
         NEW raw, raw = n.svmeas \cup RawOf(ln.svs, ln.sec), NEW c,
         c = IF ln.id \in n.cur THEN [n EXCEPT !.dup = TRUE]
             ELSE IF ln.id # "F5" THEN Take(n, ln)
             ELSE IF ln.q # "ok" THEN n
             ELSE IF Cardinality(raw) >= MaxRaw
             THEN [deleteMeasurements(n) EXCEPT !.val["F5"] = From(ln)]
             ELSE [Take(n, ln) EXCEPT !.svmeas = raw]
  PROVE  /\ c \in LogState(NVSReqd) /\ c.measurements = n.measurements /\ c.pctime = n.pctime
         /\ NVSTaken(n, ln, c)
<1>1. CASE ln.id \in n.cur
  <2>1. c = [n EXCEPT !.dup = TRUE]
    BY <1>1
  <2>2. /\ c \in LogState(NVSReqd) /\ c.measurements = n.measurements /\ c.pctime = n.pctime
        /\ c.dup = TRUE /\ c.cur = n.cur /\ c.svmeas = n.svmeas /\ c.val = n.val
    BY <2>1 DEF LogState
  <2> QED  BY <1>1, <2>2 DEF NVSTaken, NVSGathered
<1> DEFINE u == Take(n, ln)
           R == RawOf(ln.svs, ln.sec)
<1>2. /\ u \in LogState(NVSReqd) /\ u.svmeas = n.svmeas /\ u.measurements = n.measurements
      /\ u.pctime = n.pctime /\ u.dup = n.dup
      /\ u.cur \in {n.cur, n.cur \cup {ln.id}}
      /\ \A i \in NVSReqd \ {ln.id} : u.val[i] = n.val[i]
      /\ ln.id \in u.cur \ n.cur => u.val[ln.id] = From(ln)
      /\ ln.q = "ok" => u.cur = n.cur \cup {ln.id} /\ u.val[ln.id] = From(ln)
  BY TakeField
<1>3. R \in SUBSET SVMeas
  BY RawOfSVs
<1>4. ln.id = "F5" /\ ln.q = "ok" /\ ln.id \notin n.cur /\ ~(Cardinality(raw) >= MaxRaw)
        => c = [u EXCEPT !.svmeas = n.svmeas \cup R]
  BY <1>2
<1>5. ln.id # "F5" /\ ln.id \notin n.cur => c = u
  OBVIOUS
<1> HIDE DEF u, R
<1>6. CASE ln.id = "F5" /\ ln.q = "ok" /\ ln.id \notin n.cur /\ ~(Cardinality(raw) >= MaxRaw)
  <2>1. /\ c \in LogState(NVSReqd) /\ c.measurements = u.measurements /\ c.pctime = u.pctime
        /\ c.dup = u.dup /\ c.cur = u.cur /\ c.val = u.val /\ c.svmeas = n.svmeas \cup R
    <3>1. n.svmeas \cup R \in SUBSET SVMeas
      BY <1>3 DEF LogState
    <3> QED  BY <1>2, <1>4, <1>6, <3>1, ZenonT(40) DEF LogState
  <2> QED  BY <1>2, <1>6, <2>1 DEF NVSTaken, NVSGathered, R
<1>7. CASE ln.id = "F5" /\ ln.q # "ok" /\ ln.id \notin n.cur
  <2>1. c = n
    BY <1>7
  <2> QED  BY <1>7, <2>1 DEF NVSTaken, NVSGathered
<1>8. CASE ln.id # "F5" /\ ln.id \notin n.cur
  BY <1>2, <1>5, <1>8 DEF NVSTaken, NVSGathered
<1>9. CASE ln.id = "F5" /\ ln.q = "ok" /\ ln.id \notin n.cur /\ Cardinality(raw) >= MaxRaw
  <2> DEFINE d == deleteMeasurements(n)
             v == [n.val EXCEPT !["F5"] = From(ln)]
  <2>1. /\ d \in LogState(NVSReqd) /\ d.svmeas = {} /\ d.val = n.val /\ d.cur = n.cur
        /\ d.dup = n.dup /\ d.measurements = n.measurements /\ d.pctime = n.pctime
    BY DEF deleteMeasurements, LogState
  <2>2. From(ln) \in Stamped
    BY DEF From, Stamped
  <2>3. v \in [NVSReqd -> Stamped] /\ \A i \in NVSReqd \ {"F5"} : v[i] = n.val[i]
    BY <2>2 DEF LogState
  <2>4. c = [d EXCEPT !.val = v]
    BY <1>9, <2>1
  <2> HIDE DEF d, v
  <2>5. /\ c \in LogState(NVSReqd) /\ c.svmeas = {} /\ c.val = v /\ c.cur = n.cur
        /\ c.dup = n.dup /\ c.measurements = n.measurements /\ c.pctime = n.pctime
    BY <2>1, <2>3, <2>4 DEF LogState
  <2> QED  BY <1>9, <2>3, <2>5 DEF NVSTaken, NVSMany
<1> QED  BY <1>1, <1>6, <1>7, <1>8, <1>9

LEMMA NVSReads ==
  ASSUME NEW b \in LogState(NVSReqd), NEW ln, ln.sec \in Nat, ln.st \in Nat, ln.svs \subseteq SVs
  PROVE  LET c == NVSRead(b, ln)
             n == NVSNewStamp(b, ln)
         IN  /\ ln.q = "bad" => /\ c \in LogState(NVSReqd) /\ c.measurements = b.measurements
                                /\ c.pctime = b.pctime /\ c.cur = {} /\ c.svmeas = {} /\ c.dup = FALSE
             /\ ln.q # "bad" /\ ln.id \in NVSReqd =>
                  /\ c \in LogState(NVSReqd) /\ c.measurements = n.measurements /\ c.pctime = n.pctime
                  /\ NVSTaken(n, ln, c)
             /\ ln.q = "ok" /\ ln.id \in {"4A", "4B"} =>
                  /\ c \in LogState(NVSReqd) /\ c.measurements = n.measurements /\ c.pctime = n.pctime
                  /\ c.cur = n.cur /\ c.svmeas = n.svmeas /\ c.dup = n.dup /\ c.val = n.val
<1> DEFINE n == NVSNewStamp(b, ln)
<1>1. n \in LogState(NVSReqd)
  BY NVSStamps
<1>2. ln.q = "bad" => NVSRead(b, ln) = NVSDiscard(b)
  BY Zenon DEF NVSRead
<1>3. ln.q # "bad" /\ ln.id = "F5" => NVSRead(b, ln) = NVSF5(n, ln)
  BY Zenon DEF NVSRead
<1>4. ln.q # "bad" /\ ln.id = "46" => NVSRead(b, ln) = NVS46(n, ln)
  BY Zenon DEF NVSRead
<1>5. ln.q # "bad" /\ ln.id = "72" => NVSRead(b, ln) = NVS72(n, ln)
  BY Zenon DEF NVSRead
<1>6. ln.q # "bad" /\ ln.id = "74" => NVSRead(b, ln) = NVS74(n, ln)
  BY Zenon DEF NVSRead
<1>7. ln.q # "bad" /\ ln.id = "4A" => NVSRead(b, ln) = NVS4A(n, ln)
  BY Zenon DEF NVSRead
<1>8. ln.q # "bad" /\ ln.id = "4B" => NVSRead(b, ln) = NVS4B(n, ln)
  BY Zenon DEF NVSRead
<1> HIDE DEF n
<1> PICK raw : raw = n.svmeas \cup RawOf(ln.svs, ln.sec)
  OBVIOUS
<1>9. ln.q # "bad" /\ ln.id \in NVSReqd =>
        NVSRead(b, ln) = IF ln.id \in n.cur THEN [n EXCEPT !.dup = TRUE]
             ELSE IF ln.id # "F5" THEN Take(n, ln)
             ELSE IF ln.q # "ok" THEN n
             ELSE IF Cardinality(raw) >= MaxRaw
             THEN [deleteMeasurements(n) EXCEPT !.val["F5"] = From(ln)]
             ELSE [Take(n, ln) EXCEPT !.svmeas = raw]
  <2>1. raw = n.svmeas \cup {[sv |-> s, sec |-> ln.sec] : s \in ln.svs}
    BY DEF RawOf
  <2>2. NVSF5(n, ln) = IF ln.id \in n.cur THEN [n EXCEPT !.dup = TRUE]
                       ELSE IF ln.q # "ok" THEN n
                       ELSE IF Cardinality(raw) >= MaxRaw
                       THEN [deleteMeasurements(n) EXCEPT !.val["F5"] = From(ln)]
                       ELSE [Take(n, ln) EXCEPT !.svmeas = raw]
    BY <2>1 DEF NVSF5, NVSOnce
  <2> QED  BY <1>3, <1>4, <1>5, <1>6, <2>2 DEF NVSReqd, NVSOnce, NVS46, NVS72, NVS74
<1>10. ln.q # "bad" /\ ln.id \in NVSReqd =>
        LET c == NVSRead(b, ln)
        IN  /\ c \in LogState(NVSReqd) /\ c.measurements = n.measurements /\ c.pctime = n.pctime
            /\ NVSTaken(n, ln, c)
  BY <1>1, <1>9, NVSTakes
<1>11. ln.q = "bad" =>
         LET c == NVSRead(b, ln)
         IN  /\ c \in LogState(NVSReqd) /\ c.measurements = b.measurements
             /\ c.pctime = b.pctime /\ c.cur = {} /\ c.svmeas = {} /\ c.dup = FALSE
  BY <1>2 DEF NVSDiscard, deleteMeasurements, LogState
<1>12. ASSUME NEW g \in {"iono", "utc"}
      PROVE  LET c == [n EXCEPT !.got = @ \cup {g}]
             IN  /\ c \in LogState(NVSReqd) /\ c.measurements = n.measurements /\ c.pctime = n.pctime
                 /\ c.cur = n.cur /\ c.svmeas = n.svmeas /\ c.dup = n.dup /\ c.val = n.val
  BY <1>1 DEF LogState
<1>13. /\ ln.q = "ok" /\ ln.id = "4A" => NVSRead(b, ln) = [n EXCEPT !.got = @ \cup {"iono"}]
       /\ ln.q = "ok" /\ ln.id = "4B" => NVSRead(b, ln) = [n EXCEPT !.got = @ \cup {"utc"}]
  BY <1>7, <1>8 DEF NVS4A, NVS4B
<1> QED  BY <1>10, <1>11, <1>12, <1>13 DEF n

\* Every field came with lines of the PC time it is filed under
NVSMeas(m) ==
  /\ m.meas # {} /\ m.val["F5"].sec <= sec
  /\ <<"F5", "-">> \in Pending => m.val["F5"].sec < sec
  /\ \A v \in m.meas : v.sec = m.val["F5"].sec
  /\ \A i \in NVSReqd : m.val[i].st = m.pc

\* What is gathered by locals b: one F5 at most, later than those of all that was saved
NVSGather(b) ==
  /\ \A i \in DOMAIN b.measurements : NVSMeas(b.measurements[i])
  /\ Ascending(b.measurements, "F5")
  /\ b.pctime = 0 => b.cur = {} /\ b.svmeas = {} /\ ~b.dup
  /\ b.svmeas # {} =>
        /\ "F5" \in b.cur /\ b.val["F5"].sec <= sec
        /\ <<"F5", "-">> \in Pending => b.val["F5"].sec < sec
        /\ \A v \in b.svmeas : v.sec = b.val["F5"].sec
        /\ \A i \in DOMAIN b.measurements : b.measurements[i].val["F5"].sec < b.val["F5"].sec
  /\ b.svmeas # {} \/ b.cur # NVSReqd => \A i \in b.cur : b.val[i].st = b.pctime

\* The satellites S are more than there is room for
NVSCrowd(S) == Cardinality(S) >= MaxRaw

\* The second before was whole and had a satellite: this one is gathered anew
NVSAfter(s) == s = 1 \/ (Whole(s - 1) /\ seen[s - 1] # {})

\* What a whole second left, and what it leaves so far
NVSAll ==
  IF todo = Sends(rx, svs)
  THEN /\ sec = 1 => l.pctime = 0
       /\ sec > 1 /\ Whole(sec - 1) =>
            /\ l.pctime = sec - 1
            /\ seen[sec - 1] # {} => l.dup \/ l.svmeas # {} \/ "F5" \notin l.cur
            /\ NVSAfter(sec - 1) /\ ~NVSCrowd(seen[sec - 1]) =>
                  /\ NVSFull(l) /\ l.svmeas = RawOf(seen[sec - 1], sec - 1)
                  /\ l.val["F5"].sec = sec - 1
  ELSE Whole(sec) =>
         /\ stamp = sec /\ l.pctime = sec
         /\ <<"F5", "-">> \notin Pending /\ svs # {} => l.dup \/ l.svmeas # {} \/ "F5" \notin l.cur
         /\ NVSAfter(sec) /\ ~NVSCrowd(svs) =>
               /\ ~l.dup /\ l.cur = {i \in NVSReqd : <<i, "-">> \notin Pending}
               /\ l.svmeas = RawOf(IF <<"F5", "-">> \in Pending THEN {} ELSE svs, sec)
               /\ <<"F5", "-">> \notin Pending => l.val["F5"].sec = sec

NVSInv == l \in LogState(NVSReqd) /\ NVSGather(l) /\ NVSAll

LEMMA NVSHead ==
  /\ "F5" \in NVSReqd /\ Parameters("nvs") = {"4A", "4B"}
  /\ rx = "nvs" => \A m : SecondOf(m) = m.val["F5"].sec
<1>1. Header("nvs") = "F5" /\ Parameters("nvs") = {"4A", "4B"}
  BY Zenon DEF Header, Parameters
<1> QED  BY <1>1 DEF NVSReqd, SecondOf, Anchor

LEMMA NVSStart == ASSUME rx = "nvs", ReadInit PROVE NVSInv
<1>1. l = Locals(NVSReqd)
  <2>1. l = Fresh(rx) /\ Fresh("nvs") = NVSLocals
    BY Zenon DEF ReadInit, Fresh
  <2> QED  BY <2>1 DEF NVSLocals
<1>2. /\ l \in LogState(NVSReqd) /\ l.cur = {} /\ l.svmeas = {} /\ l.measurements = << >>
      /\ l.pctime = 0 /\ ~l.dup
  BY <1>1, LocalsState
<1>3. sec = 1 /\ todo = Sends(rx, svs)
  BY DEF ReadInit
<1> QED  BY <1>2, <1>3 DEF NVSInv, NVSGather, Ascending, NVSAll

\* The step of the PC time
LEMMA NVSStampKeeps ==
  ASSUME NEW b \in LogState(NVSReqd), NVSGather(b), NEW ln, ln.st \in Nat, ln.st # 0,
         NEW n, n = NVSNewStamp(b, ln)
  PROVE  /\ NVSGather(n)
         /\ \A i \in DOMAIN b.measurements : i \in DOMAIN n.measurements /\ n.measurements[i] = b.measurements[i]
<1> DEFINE e == New(b, b.svmeas)
           full == ln.st # b.pctime /\ NVSFull(b) /\ b.svmeas # {}
<1>1. /\ n \in LogState(NVSReqd) /\ n.val = b.val /\ n.pctime = ln.st
      /\ n.measurements = IF full THEN Append(b.measurements, e) ELSE b.measurements
      /\ \/ n.cur = {} /\ n.svmeas = {} /\ n.dup = FALSE
         \/ /\ n.cur = b.cur /\ n.svmeas = b.svmeas /\ n.dup = b.dup
            /\ ln.st = b.pctime \/ b.pctime = 0 \/ (NVSFull(b) /\ b.svmeas = {})
  BY NVSStamps
<1>2. e \in MeasOf(NVSReqd) /\ e.val = b.val /\ e.meas = b.svmeas /\ e.pc = b.pctime
  <2>1. b.svmeas \in SUBSET SVMeas
    BY DEF LogState
  <2> QED  BY <2>1, PushState DEF New
<1> HIDE DEF e
<1>3. b.measurements \in Seq(MeasOf(NVSReqd))
  BY DEF LogState
<1>4. ASSUME full
      PROVE  /\ \A i \in DOMAIN n.measurements : NVSMeas(n.measurements[i])
             /\ Ascending(n.measurements, "F5")
             /\ \A i \in DOMAIN b.measurements : i \in DOMAIN n.measurements /\ n.measurements[i] = b.measurements[i]
  <2>1. NVSMeas(e)
    BY <1>2, <1>4 DEF NVSMeas, NVSGather, NVSFull
  <2>2. Ascending(n.measurements, "F5")
    BY <1>1, <1>2, <1>3, <1>4, MoreInOrder, SMTT(30) DEF NVSGather
  <2>3. /\ DOMAIN n.measurements = DOMAIN b.measurements \cup {Len(n.measurements)}
        /\ n.measurements[Len(n.measurements)] = e
        /\ \A i \in DOMAIN b.measurements : n.measurements[i] = b.measurements[i]
    BY <1>1, <1>2, <1>3, <1>4, OneMore
  <2> QED  BY <2>1, <2>2, <2>3 DEF NVSGather
<1>5. ASSUME ~full
      PROVE  /\ \A i \in DOMAIN n.measurements : NVSMeas(n.measurements[i])
             /\ Ascending(n.measurements, "F5") /\ n.measurements = b.measurements
  BY <1>1, <1>5 DEF NVSGather
<1> HIDE DEF full
<1>6. CASE n.cur = {} /\ n.svmeas = {} /\ n.dup = FALSE
  BY <1>1, <1>4, <1>5, <1>6 DEF NVSGather
<1>7. CASE /\ n.cur = b.cur /\ n.svmeas = b.svmeas /\ n.dup = b.dup
           /\ ln.st = b.pctime \/ b.pctime = 0 \/ (NVSFull(b) /\ b.svmeas = {})
  <2>1. n.svmeas # {} => ~full
    BY <1>7 DEF NVSGather, full
  <2>2. n.svmeas # {} \/ n.cur # NVSReqd => \A i \in n.cur : n.val[i].st = n.pctime
    BY <1>1, <1>7 DEF NVSGather, NVSFull
  <2>3. n.pctime # 0
    BY <1>1
  <2> QED  BY <1>1, <1>4, <1>5, <1>7, <2>1, <2>2, <2>3 DEF NVSGather
<1> QED  BY <1>1, <1>4, <1>5, <1>6, <1>7

\* The step of the message
LEMMA NVSMessageKeeps ==
  ASSUME sec \in Nat, NEW n \in LogState(NVSReqd), NVSGather(n), NEW ln, ln.id \in NVSReqd, ln.sec = sec,
         ln.st = n.pctime, n.pctime # 0, ln.svs \subseteq SVs,
         NEW c \in LogState(NVSReqd), c.measurements = n.measurements, c.pctime = n.pctime,
         NVSTaken(n, ln, c),
         sec' = sec, <<ln.id, "-">> \in Pending, Pending' = Pending \ {<<ln.id, "-">>}
  PROVE  NVSGather(c)'
<1>1. \A i \in DOMAIN c.measurements : NVSMeas(c.measurements[i])'
  BY DEF NVSGather, NVSMeas
<1>2. CASE ln.id \in n.cur /\ c.dup = TRUE /\ c.cur = n.cur /\ c.svmeas = n.svmeas /\ c.val = n.val
  BY <1>1, <1>2 DEF NVSGather
<1>3. CASE /\ ln.id \notin n.cur /\ c.dup = n.dup
           /\ c.cur \in {n.cur, n.cur \cup {ln.id}} /\ (ln.q = "ok" => ln.id \in c.cur)
           /\ \A i \in NVSReqd \ {ln.id} : c.val[i] = n.val[i]
           /\ ln.id \in c.cur => c.val[ln.id] = From(ln)
           /\ c.svmeas = IF ln.id = "F5" /\ ln.q = "ok" THEN n.svmeas \cup RawOf(ln.svs, ln.sec) ELSE n.svmeas
           /\ ln.id = "F5" /\ ln.q # "ok" => c.cur = n.cur
  <2>1. From(ln).sec = sec /\ From(ln).st = n.pctime
    BY DEF From
  <2>2. n.cur # NVSReqd
    BY <1>3
  <2>3. n.cur \subseteq NVSReqd /\ c.cur \subseteq NVSReqd
    BY DEF LogState
  <2>4. \A i \in c.cur : c.val[i].st = c.pctime
    BY <1>3, <2>1, <2>2, <2>3 DEF NVSGather
  <2>5. CASE ln.id = "F5" /\ ln.q = "ok"
    <3>1. n.svmeas = {} /\ c.svmeas = RawOf(ln.svs, sec) /\ "F5" \in c.cur /\ c.val["F5"].sec = sec
      BY <1>3, <2>1, <2>5 DEF NVSGather
    <3>2. \A v \in c.svmeas : v.sec = sec
      BY <3>1, RawOfSVs
    <3>3. \A i \in DOMAIN n.measurements : n.measurements[i].val["F5"].sec < sec
      BY <2>5 DEF NVSGather, NVSMeas
    <3>4. <<"F5", "-">> \notin Pending'
      BY <2>5
    <3> QED  BY <1>1, <2>4, <3>1, <3>2, <3>3, <3>4 DEF NVSGather
  <2>6. CASE ~(ln.id = "F5" /\ ln.q = "ok")
    <3>1. c.svmeas = n.svmeas
      BY <1>3, <2>6
    <3>2. c.svmeas # {} => "F5" \in n.cur /\ "F5" \in c.cur /\ c.val["F5"] = n.val["F5"]
      BY <1>3, <3>1, NVSHead DEF NVSGather
    <3>3. \A x : x \in Pending' => x \in Pending
      OBVIOUS
    <3> QED  BY <1>1, <2>4, <3>1, <3>2, <3>3 DEF NVSGather
  <2> QED  BY <2>5, <2>6
<1>4. CASE NVSMany(n, ln, c)
  <2>1. n.cur # NVSReqd /\ c.cur = n.cur /\ c.svmeas = {} /\ \A i \in c.cur : c.val[i] = n.val[i]
    BY <1>4 DEF NVSMany, LogState
  <2> QED  BY <1>1, <2>1 DEF NVSGather
<1> QED  BY <1>2, <1>3, <1>4 DEF NVSTaken, NVSGathered

LEMMA NVSNewLine ==
  ASSUME Logging, rx = "nvs", NVSInv, NotLost, NEW it, NEW ln, Logs(it, ln)
  PROVE  NVSInv' /\ NotLost'
<1>1. /\ progress = "reading" /\ todo # << >> /\ it \in todo[1] /\ todo' = Without(it)
      /\ ln.id = it[1] /\ ln.sec = sec /\ ln.svs = svs /\ ln.st \in {sec, sec + 1}
      /\ harmed \subseteq harmed' /\ UNCHANGED <<rx, sec, svs, seen>> /\ stamp' = ln.st
      /\ l' = NVSRead(l, ln)
  <2>1. l' = ReadLine(ln)
    BY DEF Logs, Handle
  <2>2. ReadLine(ln) = NVSRead(l, ln)
    BY Zenon DEF ReadLine
  <2> QED  BY <2>1, <2>2 DEF Logs, Handle
<1>2. sec \in Nat /\ sec > 0 /\ svs \subseteq SVs /\ ln.st \in Nat /\ ln.st # 0
  BY <1>1, LogAssumption DEF Logging, Sec
<1>3. Whole(sec)' => ln.q = "ok" /\ ln.st = sec
  BY <1>1 DEF Logs, Whole
<1>4. /\ todo' # Sends(rx, svs) /\ Pending' = Pending \ {it} /\ it \in Pending
      /\ it \in {<<i, "-">> : i \in NVSReqd}
  BY <1>1, LogsLeft, NVSSends
<1>5. ln.id \in NVSReqd /\ it = <<ln.id, "-">>
  BY <1>1, <1>4
<1>6. todo = Sends(rx, svs) => Pending = {<<i, "-">> : i \in NVSReqd}
  BY NVSSends DEF Pending
<1>7. l \in LogState(NVSReqd) /\ NVSGather(l)
  BY DEF NVSInv
<1>8. todo' # Sends(rx, svs)'
  BY <1>1, <1>4
<1> PICK c : c = l'
  OBVIOUS
<1> PICK n : n = NVSNewStamp(l, ln)
  OBVIOUS
<1>9. CASE ln.q = "bad"
  <2>1. /\ c \in LogState(NVSReqd) /\ c.measurements = l.measurements
        /\ c.pctime = l.pctime /\ c.cur = {} /\ c.svmeas = {} /\ c.dup = FALSE
    BY <1>1, <1>2, <1>7, <1>9, NVSReads
  <2>2. ~Whole(sec)'
    BY <1>3, <1>9
  <2>3. \A m : NVSMeas(m) => NVSMeas(m)'
    <3>1. \A x : x \in Pending' => x \in Pending
      BY <1>4
    <3> QED  BY <1>1, <3>1 DEF NVSMeas
  <2>4. NVSGather(c)'
    BY <1>7, <2>1, <2>3 DEF NVSGather
  <2>5. NVSAll'
    BY <1>8, <2>2 DEF NVSAll, Whole
  <2>6. Saved' = Saved
    BY <2>1 DEF Saved
  <2>7. ~Due(sec - 1)'
    <3>1. (sec - 1) + 1 = sec
      BY <1>2
    <3> QED  BY <1>1, <2>2, <3>1 DEF Due, Whole
  <2>8. NotLost'
    BY <1>1, <2>6, <2>7, SameSecond
  <2> QED  BY <2>1, <2>4, <2>5, <2>8 DEF NVSInv
<1>10. CASE ln.q # "bad"
  <2>1. /\ n \in LogState(NVSReqd) /\ n.val = l.val /\ n.pctime = ln.st
        /\ ln.st = l.pctime => n = l
        /\ n.measurements = IF ln.st # l.pctime /\ NVSFull(l) /\ l.svmeas # {}
                            THEN Append(l.measurements, New(l, l.svmeas)) ELSE l.measurements
        /\ \/ n.cur = {} /\ n.svmeas = {} /\ n.dup = FALSE
           \/ /\ n.cur = l.cur /\ n.svmeas = l.svmeas /\ n.dup = l.dup
              /\ ln.st = l.pctime \/ l.pctime = 0 \/ (NVSFull(l) /\ l.svmeas = {})
    BY <1>2, <1>7, NVSStamps
  <2>2. /\ c \in LogState(NVSReqd) /\ c.measurements = n.measurements /\ c.pctime = n.pctime
        /\ NVSTaken(n, ln, c)
    BY <1>1, <1>2, <1>5, <1>7, <1>10, NVSReads
  <2>3. /\ NVSGather(n)
        /\ \A i \in DOMAIN l.measurements : i \in DOMAIN n.measurements /\ n.measurements[i] = l.measurements[i]
    BY <1>2, <1>7, NVSStampKeeps
  <2>4. NVSGather(c)'
    BY <1>1, <1>2, <1>4, <1>5, <2>1, <2>2, <2>3, NVSMessageKeeps
  <2>5. Saved \subseteq Saved'
    BY <2>2, <2>3 DEF Saved
  <2> DEFINE room == ~NVSCrowd(svs)
  <2>5a. room => NVSGathered(n, ln, c)
    <3> SUFFICES ASSUME room, NVSMany(n, ln, c) PROVE FALSE
      BY <2>2 DEF NVSTaken
    <3>1. n.svmeas = {}
      BY <2>3 DEF NVSGather, NVSMany
    <3>2. Cardinality(RawOf(svs, sec)) >= MaxRaw
      BY <1>1, <3>1 DEF NVSMany
    <3>3. IsFiniteSet(svs)
      BY <1>2, LogAssumption, FS_Subset
    <3> QED  BY <3>2, <3>3, RawOfCardinality DEF NVSCrowd
  <2> HIDE DEF room
  <2>6. ASSUME Whole(sec)'
        PROVE  /\ stamp' = sec /\ c.pctime = sec
               /\ <<"F5", "-">> \notin Pending' /\ svs # {} => c.dup \/ c.svmeas # {} \/ "F5" \notin c.cur
               /\ NVSAfter(sec)' /\ room =>
                     /\ ~c.dup /\ c.cur = {i \in NVSReqd : <<i, "-">> \notin Pending'}
                     /\ c.svmeas = RawOf(IF <<"F5", "-">> \in Pending' THEN {} ELSE svs, sec)
                     /\ <<"F5", "-">> \notin Pending' => c.val["F5"].sec = sec
    <3>1. ln.q = "ok" /\ ln.st = sec /\ Whole(sec) /\ stamp' = sec /\ c.pctime = sec
      BY <1>1, <1>3, <2>1, <2>2, <2>6, WholeThen
    <3>2. NVSAfter(sec)' => NVSAfter(sec)
      BY <1>1, WholeThen DEF NVSAfter
    <3>3. /\ RawOf(svs, sec) = {} <=> svs = {}
          /\ RawOf({}, sec) = {}
      BY RawOfSVs
    <3>4. From(ln).sec = sec
      BY <1>1 DEF From
    <3>5. CASE todo = Sends(rx, svs)
      <4>1. \A i \in NVSReqd : <<i, "-">> \notin Pending' <=> i = ln.id
        BY <1>4, <1>5, <1>6, <3>5
      <4>2. <<"F5", "-">> \notin Pending' /\ svs # {} => c.dup \/ c.svmeas # {} \/ "F5" \notin c.cur
        BY <1>1, <2>2, <3>1, <3>3, <4>1, NVSHead DEF NVSTaken, NVSGathered, NVSMany
      <4>3. ASSUME NVSAfter(sec) PROVE n.cur = {} /\ n.svmeas = {} /\ n.dup = FALSE
        <5>1. CASE sec = 1
          <6>1. l.pctime = 0
            BY <3>5, <5>1 DEF NVSInv, NVSAll
          <6>2. l.cur = {} /\ l.svmeas = {} /\ l.dup = FALSE
            BY <1>7, <6>1 DEF NVSGather, LogState
          <6> QED  BY <2>1, <6>2
        <5>2. CASE sec # 1
          <6>1. Whole(sec - 1) /\ seen[sec - 1] # {} /\ sec > 1
            BY <1>2, <4>3, <5>2 DEF NVSAfter
          <6>2. l.pctime = sec - 1 /\ (l.dup \/ l.svmeas # {} \/ "F5" \notin l.cur)
            BY <3>5, <6>1 DEF NVSInv, NVSAll
          <6>3. l.pctime # 0 /\ l.pctime # ln.st
            BY <1>2, <3>1, <6>1, <6>2
          <6> QED  BY <2>1, <6>2, <6>3, NVSHead DEF NVSFull
        <5> QED  BY <5>1, <5>2
      <4>4. ASSUME NVSAfter(sec), room
            PROVE  /\ ~c.dup /\ c.cur = {i \in NVSReqd : <<i, "-">> \notin Pending'}
                   /\ c.svmeas = RawOf(IF <<"F5", "-">> \in Pending' THEN {} ELSE svs, sec)
                   /\ <<"F5", "-">> \notin Pending' => c.val["F5"].sec = sec
        <5>1. /\ c.dup = FALSE /\ c.cur = {ln.id} /\ c.val[ln.id] = From(ln)
              /\ c.svmeas = IF ln.id = "F5" THEN RawOf(svs, sec) ELSE {}
          BY <1>1, <2>5a, <3>1, <4>3, <4>4 DEF NVSGathered
        <5>2. {i \in NVSReqd : <<i, "-">> \notin Pending'} = {ln.id}
          BY <1>5, <4>1
        <5>3. <<"F5", "-">> \notin Pending' <=> ln.id = "F5"
          BY <4>1, NVSHead
        <5> QED  BY <3>3, <3>4, <5>1, <5>2, <5>3
      <4> QED  BY <3>1, <3>2, <4>2, <4>4
    <3>6. CASE todo # Sends(rx, svs)
      <4>1. /\ l.pctime = sec
            /\ <<"F5", "-">> \notin Pending /\ svs # {} => l.dup \/ l.svmeas # {} \/ "F5" \notin l.cur
            /\ NVSAfter(sec) /\ room =>
                                /\ ~l.dup /\ l.cur = {i \in NVSReqd : <<i, "-">> \notin Pending}
                                /\ l.svmeas = RawOf(IF <<"F5", "-">> \in Pending THEN {} ELSE svs, sec)
                                /\ <<"F5", "-">> \notin Pending => l.val["F5"].sec = sec
        BY <3>1, <3>6 DEF NVSInv, NVSAll, room
      <4>2. n = l
        BY <2>1, <3>1, <4>1
      <4>3. <<"F5", "-">> \notin Pending' <=> (ln.id = "F5" \/ <<"F5", "-">> \notin Pending)
        BY <1>4, <1>5
      <4>4. <<"F5", "-">> \notin Pending' /\ svs # {} => c.dup \/ c.svmeas # {} \/ "F5" \notin c.cur
        BY <1>1, <2>2, <3>1, <3>3, <4>1, <4>2, <4>3 DEF NVSTaken, NVSGathered, NVSMany
      <4>5. ASSUME NVSAfter(sec), room
            PROVE  /\ ~c.dup /\ c.cur = {i \in NVSReqd : <<i, "-">> \notin Pending'}
                   /\ c.svmeas = RawOf(IF <<"F5", "-">> \in Pending' THEN {} ELSE svs, sec)
                   /\ <<"F5", "-">> \notin Pending' => c.val["F5"].sec = sec
        <5>1. ln.id \notin l.cur
          BY <1>4, <1>5, <4>1, <4>5
        <5>2. /\ c.dup = l.dup /\ c.cur = l.cur \cup {ln.id} /\ c.val[ln.id] = From(ln)
              /\ \A i \in NVSReqd \ {ln.id} : c.val[i] = l.val[i]
              /\ c.svmeas = IF ln.id = "F5" THEN l.svmeas \cup RawOf(svs, sec) ELSE l.svmeas
          <6>1. c.cur = l.cur \cup {ln.id}
            BY <2>5a, <3>1, <4>2, <4>5, <5>1 DEF NVSGathered
          <6> QED  BY <1>1, <2>5a, <3>1, <4>2, <4>5, <5>1, <6>1 DEF NVSGathered
        <5>3. {i \in NVSReqd : <<i, "-">> \notin Pending'}
                = {i \in NVSReqd : <<i, "-">> \notin Pending} \cup {ln.id}
          BY <1>4, <1>5
        <5>4. ln.id = "F5" => <<"F5", "-">> \in Pending
          BY <1>4, <1>5
        <5>5. CASE ln.id = "F5"
          <6>1. l.svmeas = {}
            BY <3>3, <4>1, <4>5, <5>4, <5>5
          <6> QED  BY <3>4, <4>1, <4>3, <4>5, <5>2, <5>3, <5>5, <6>1
        <5>6. CASE ln.id # "F5"
          <6>1. c.val["F5"] = l.val["F5"] /\ c.svmeas = l.svmeas
            BY <5>2, <5>6, NVSHead
          <6> QED  BY <4>1, <4>3, <4>5, <5>2, <5>3, <5>6, <6>1
        <5> QED  BY <5>5, <5>6
      <4> QED  BY <3>1, <3>2, <4>4, <4>5
    <3> QED  BY <3>5, <3>6
  <2>7. NVSAll'
    BY <1>1, <1>8, <2>6 DEF NVSAll, Whole, NVSAfter, room
  <2>8. ASSUME sec > 1, todo = Sends(rx, svs), Due(sec - 1)' PROVE SavedWhole(sec - 1)'
    <3>1. Whole(sec - 1) /\ Whole(sec)' /\ seen[sec - 1] # {}
      <4>1. (sec - 1) + 1 = sec
        BY <1>2
      <4> QED  BY <1>1, <2>8, <4>1 DEF Due, Whole, Wanted
    <3>2. NVSAfter(sec - 1) /\ ~NVSCrowd(seen[sec - 1])
      BY <1>1, <2>8 DEF Due, Whole, NVSAfter, Crowded, NVSCrowd
    <3>3. NVSFull(l) /\ l.svmeas = RawOf(seen[sec - 1], sec - 1) /\ l.val["F5"].sec = sec - 1 /\ l.pctime = sec - 1
      BY <2>8, <3>1, <3>2 DEF NVSInv, NVSAll
    <3>4. ln.st # l.pctime /\ l.svmeas # {}
      BY <1>2, <1>3, <3>1, <3>3, RawOfSVs
    <3> PICK e : e = New(l, l.svmeas)
      OBVIOUS
    <3>5. c.measurements = Append(l.measurements, e)
      BY <2>1, <2>2, <3>3, <3>4
    <3>6. l.measurements \in Seq(MeasOf(NVSReqd)) /\ l.svmeas \in SUBSET SVMeas
      BY <1>7 DEF LogState
    <3>7. e \in MeasOf(NVSReqd) /\ e.val = l.val /\ e.meas = l.svmeas
      BY <1>7, <3>6, PushState DEF New
    <3>8. Saved' = Saved \cup {e}
      BY <3>5, <3>6, <3>7, NVSHead, SavedMore
    <3>9. SVsIn(e.meas) = seen[sec - 1] /\ e.val["F5"].sec = sec - 1
      BY <3>3, <3>7, RawOfSVs
    <3>10. \A m : SecondOf(m)' = m.val["F5"].sec
      BY <1>1, NVSHead DEF SecondOf
    <3> QED  BY <1>1, <3>8, <3>9, <3>10 DEF SavedWhole, SVsIn, Wanted
  <2>9. NotLost'
    BY <1>1, <2>5, <2>8, SameSecond
  <2> QED  BY <2>2, <2>4, <2>7, <2>9 DEF NVSInv
<1> QED  BY <1>9, <1>10

LEMMA NVSParameters ==
  ASSUME Logging, rx = "nvs", NVSInv, NotLost, NEW ln, Informs(ln)
  PROVE  NVSInv' /\ NotLost'
<1>1. /\ progress = "reading" /\ ln.id \in {"4A", "4B"} /\ ln.q = "ok" /\ ln.sec = sec /\ ln.svs = svs
      /\ ln.st = stamp /\ Len(todo) = 1 /\ UNCHANGED <<todo, harmed, rx, sec, svs, seen>>
      /\ stamp' = stamp /\ l' = NVSRead(l, ln)
  <2>1. l' = ReadLine(ln)
    BY DEF Informs, Handle
  <2>2. ReadLine(ln) = NVSRead(l, ln)
    BY Zenon DEF ReadLine
  <2> QED  BY <2>1, <2>2, NVSHead DEF Informs, Handle
<1>2. sec \in Nat /\ sec > 0 /\ stamp \in Nat /\ stamp # 0 /\ svs \subseteq SVs
  BY LogAssumption DEF Logging, Sec
<1>3. l \in LogState(NVSReqd) /\ NVSGather(l)
  BY DEF NVSInv
<1> PICK c : c = l'
  OBVIOUS
<1> PICK n : n = NVSNewStamp(l, ln)
  OBVIOUS
<1>4. n \in LogState(NVSReqd) /\ n.pctime = ln.st /\ (ln.st = l.pctime => n = l)
  BY <1>1, <1>2, <1>3, NVSStamps
<1>5. /\ c \in LogState(NVSReqd) /\ c.measurements = n.measurements /\ c.pctime = n.pctime
      /\ c.cur = n.cur /\ c.svmeas = n.svmeas /\ c.dup = n.dup /\ c.val = n.val
  BY <1>1, <1>2, <1>3, NVSReads
<1>6. /\ NVSGather(n)
      /\ \A i \in DOMAIN l.measurements : i \in DOMAIN n.measurements /\ n.measurements[i] = l.measurements[i]
  BY <1>1, <1>2, <1>3, NVSStampKeeps
<1>7. Saved \subseteq Saved'
  BY <1>5, <1>6 DEF Saved
<1>8. todo # Sends(rx, svs)
  <2>1. << {<<"46", "-">>, <<"F5", "-">>}, {<<"72", "-">>, <<"74", "-">>} >> = Sends(rx, svs)
    BY Zenon DEF Sends
  <2> QED  BY <1>1, <2>1
<1>9. NVSGather(c)'
  BY <1>1, <1>5, <1>6 DEF NVSGather, NVSMeas, Pending
<1>10. NVSAll'
  <2>1. Whole(sec) => c.cur = l.cur /\ c.svmeas = l.svmeas /\ c.dup = l.dup /\ c.val = l.val
                      /\ c.pctime = l.pctime
    BY <1>1, <1>4, <1>5, <1>8 DEF NVSInv, NVSAll
  <2> QED  BY <1>1, <1>8, <2>1 DEF NVSInv, NVSAll, NVSAfter, Whole, Pending
<1> QED  BY <1>1, <1>5, <1>7, <1>8, <1>9, <1>10, SameSecond DEF NVSInv

LEMMA NVSLost ==
  ASSUME Logging, rx = "nvs", NVSInv, NotLost, Lose
  PROVE  NVSInv' /\ NotLost'
<1>1. PICK it \in todo[1] : /\ todo' = Without(it)
                            /\ harmed' = harmed \cup {[sec |-> sec, id |-> it[1], how |-> "lost"]}
  BY DEF Lose
<1>2. progress = "reading" /\ todo # << >> /\ UNCHANGED <<rx, sec, svs, stamp, seen, progress, l>>
  BY DEF Lose
<1>3. harmed \subseteq harmed' /\ ~Whole(sec)'
  BY <1>1, <1>2, Loses
<1>4. todo' # Sends(rx, svs)' /\ Pending' = Pending \ {it}
  BY <1>1, <1>2, LogsLeft
<1>5. sec \in Nat
  BY LogAssumption DEF Logging, Sec
<1>6. \A m : NVSMeas(m) => NVSMeas(m)'
  <2>1. \A x : x \in Pending' => x \in Pending
    BY <1>4
  <2> QED  BY <1>2, <2>1 DEF NVSMeas
<1>7. NVSGather(l)'
  <2>1. \A x : x \in Pending' => x \in Pending
    BY <1>4
  <2> QED  BY <1>2, <1>6, <2>1 DEF NVSInv, NVSGather
<1>8. NVSAll'
  BY <1>2, <1>3, <1>4 DEF NVSAll, Whole
<1>9. NotLost'
  <2>1. ~Due(sec - 1)'
    <3>1. (sec - 1) + 1 = sec
      BY <1>5
    <3> QED  BY <1>2, <1>3, <3>1 DEF Due, Whole
  <2>2. Saved' = Saved
    BY <1>2 DEF Saved
  <2> QED  BY <1>2, <1>3, <2>1, <2>2, SameSecond
<1> QED  BY <1>2, <1>7, <1>8, <1>9 DEF NVSInv

LEMMA NVSNextSec ==
  ASSUME Logging, rx = "nvs", NVSInv, NextSec
  PROVE  NVSInv'
<1>1. /\ sec \in Nat /\ sec' = sec + 1 /\ todo = << >> /\ todo' = Sends(rx, svs)'
      /\ UNCHANGED <<rx, harmed, progress, l>>
  BY LogAssumption DEF Logging, Sec, NextSec
<1>2. seen' = Append(seen, svs') /\ seen \in Seq(SUBSET SVs) /\ Len(seen) = sec /\ seen[sec] = svs /\ sec > 0
  BY LogAssumption DEF Logging, NextSec, Sec
<1>3. \A t \in 1 .. sec : seen'[t] = seen[t]
  BY <1>1, <1>2
<1>4. seen'[sec] = svs /\ sec' - 1 = sec /\ sec' > 1 /\ sec' # 1
  BY <1>1, <1>2, <1>3
<1>5. todo # Sends(rx, svs) /\ Pending = {}
  <2>1. Groups(Sends(rx, svs))
    BY NVSSends
  <2>2. todo # Sends(rx, svs)
    BY <1>1, <2>1 DEF Groups
  <2> QED  BY <1>1, <2>2 DEF Pending, AllOf
<1>6. NVSGather(l)'
  <2>1. l.measurements \in Seq(MeasOf(NVSReqd)) /\ l.val["F5"].sec \in Nat
    BY NVSHead DEF NVSInv, LogState, Stamped
  <2>2. ASSUME NEW i \in DOMAIN l.measurements PROVE NVSMeas(l.measurements[i])'
    <3> DEFINE m == l.measurements[i]
    <3>1. m \in MeasOf(NVSReqd)
      BY <2>1
    <3>2. m.val["F5"].sec \in Nat
      BY <3>1, NVSHead DEF MeasOf, Stamped
    <3>3. NVSMeas(m)
      BY DEF NVSInv, NVSGather
    <3> HIDE DEF m
    <3>4. m.val["F5"].sec <= sec' /\ m.val["F5"].sec < sec'
      BY <1>1, <3>2, <3>3 DEF NVSMeas
    <3>5. m' = m
      BY <1>1 DEF m
    <3> QED  BY <3>3, <3>4, <3>5 DEF NVSMeas, m
  <2>3. l.svmeas # {} => l.val["F5"].sec <= sec' /\ l.val["F5"].sec < sec'
    BY <1>1, <2>1 DEF NVSInv, NVSGather
  <2> QED  BY <1>1, <2>2, <2>3 DEF NVSInv, NVSGather
<1>7. NVSAll'
  <2>1. NVSAfter(sec - 1)' => NVSAfter(sec)
    <3>1. (sec # 1 => sec - 1 \in 1 .. sec) /\ (sec' - 1) - 1 = sec - 1
      BY <1>1, <1>2
    <3> QED  BY <1>1, <1>3, <1>4, <3>1 DEF NVSAfter, Whole
  <2>2. {i \in NVSReqd : <<i, "-">> \notin Pending} = NVSReqd
    BY <1>5
  <2>3. Whole(sec) =>
          /\ l.pctime = sec
          /\ svs # {} => l.dup \/ l.svmeas # {} \/ "F5" \notin l.cur
          /\ NVSAfter(sec) /\ ~NVSCrowd(svs) =>
                NVSFull(l) /\ l.svmeas = RawOf(svs, sec) /\ l.val["F5"].sec = sec
    BY <1>5, <2>2 DEF NVSInv, NVSAll, NVSFull
  <2>4. Whole(sec - 1)' => Whole(sec)
    BY <1>1, <1>4 DEF Whole
  <2> QED  BY <1>1, <1>4, <2>1, <2>3, <2>4 DEF NVSAll, NVSFull
<1> QED  BY <1>1, <1>6, <1>7 DEF NVSInv

-----------------------------------------------------------------------------
(* Javad *)

LEMMA JavadSets ==
  /\ {"rc", "RC"} \in JavadSignals /\ {"rc", "RC"} \subseteq JavadRanges
  /\ ~DualFrequency => JavadRanges = {"rc", "RC"}
  /\ JavadRanges \subseteq {"rc", "RC", "R1", "r1", "1R", "1r", "R2", "r2", "2R", "2r"}
  /\ \A S \in JavadSignals : S \subseteq JavadRanges
  /\ \A r \in JavadRanges : \E S \in JavadSignals : r \in S
  /\ \A S \in JavadSignals : \A r \in S : JavadFull(r) \subseteq S
<1>1. /\ JavadSignal("rc") = {"rc", "RC"}
      /\ JavadSignal("R1") = {"R1", "r1", "1R", "1r"}
      /\ JavadSignal("R2") = {"R2", "r2", "2R", "2r"}
  <2>1. JavadSignal("rc") = {"rc", "RC"}
    BY Zenon DEF JavadSignal
  <2>2. JavadSignal("R1") = {"R1", "r1", "1R", "1r"}
    BY Zenon DEF JavadSignal
  <2>3. JavadSignal("R2") = {"R2", "r2", "2R", "2r"}
    BY Zenon DEF JavadSignal
  <2> QED  BY <2>1, <2>2, <2>3
<1>2. /\ JavadFull("rc") = {"RC"} /\ JavadFull("r1") = {"R1"} /\ JavadFull("r2") = {"R2"}
      /\ JavadFull("1r") = {"1R"} /\ JavadFull("2r") = {"2R"}
  <2>1. JavadFull("rc") = {"RC"}
    BY Zenon DEF JavadFull
  <2>2. JavadFull("r1") = {"R1"}
    BY Zenon DEF JavadFull
  <2>3. JavadFull("r2") = {"R2"}
    BY Zenon DEF JavadFull
  <2>4. JavadFull("1r") = {"1R"}
    BY Zenon DEF JavadFull
  <2>5. JavadFull("2r") = {"2R"}
    BY Zenon DEF JavadFull
  <2> QED  BY <2>1, <2>2, <2>3, <2>4, <2>5
<1>3. \A i : i \notin {"rc", "r1", "1r", "r2", "2r"} => JavadFull(i) = {}
  <2> SUFFICES ASSUME NEW i, i \notin {"rc", "r1", "1r", "r2", "2r"} PROVE JavadFull(i) = {}
    OBVIOUS
  <2>1. i # "rc" /\ i # "r1" /\ i # "1r" /\ i # "r2" /\ i # "2r"
    OBVIOUS
  <2> QED  BY <2>1, Zenon DEF JavadFull
<1>4. JavadSignals = {{"rc", "RC"}} \cup
        IF DualFrequency THEN {{"R1", "r1", "1R", "1r"}, {"R2", "r2", "2R", "2r"}} ELSE {}
  BY <1>1 DEF JavadSignals
<1>5. \A r : r \in JavadRanges <=> \E S \in JavadSignals : r \in S
  BY DEF JavadRanges
<1>6. JavadRanges \subseteq {"rc", "RC", "R1", "r1", "1R", "1r", "R2", "r2", "2R", "2r"}
  BY <1>4, <1>5
<1>7. {"rc", "RC"} \in JavadSignals /\ {"rc", "RC"} \subseteq JavadRanges
  BY <1>4, <1>5
<1>8. ~DualFrequency => JavadRanges = {"rc", "RC"}
  BY <1>4, <1>5
<1>9. ASSUME NEW S \in JavadSignals, NEW r \in S PROVE JavadFull(r) \subseteq S
  <2>1. S \in {{"rc", "RC"}, {"R1", "r1", "1R", "1r"}, {"R2", "r2", "2R", "2r"}}
    BY <1>4
  <2>2. CASE S = {"rc", "RC"}
    BY <1>2, <1>3, <2>2
  <2>3. CASE S = {"R1", "r1", "1R", "1r"}
    BY <1>2, <1>3, <2>3
  <2>4. CASE S = {"R2", "r2", "2R", "2r"}
    BY <1>2, <1>3, <2>4
  <2> QED  BY <2>1, <2>2, <2>3, <2>4
<1> QED  BY <1>5, <1>6, <1>7, <1>8, <1>9

LEMMA JavadKinds ==
  /\ JavadIds = {"RD", "SI"} \cup JavadOffsets \cup JavadSized \cup JavadRanges
  /\ "RD" \notin JavadOffsets /\ "SI" \notin JavadOffsets
  /\ "RD" \notin JavadSized /\ "SI" \notin JavadSized /\ JavadOffsets \cap JavadSized = {}
  /\ "RD" \notin JavadRanges /\ "SI" \notin JavadRanges /\ JavadOffsets \cap JavadRanges = {}
  /\ JavadSized \cap JavadRanges = {}
  /\ Parameters("javad") \cap JavadIds = {} /\ Parameters("javad") = {"IO", "UO"}
<1>1. Parameters("javad") = {"IO", "UO"}
  BY Zenon DEF Parameters
<1>2. JavadSized \subseteq {"SS", "EL", "AZ", "FC", "F1", "F2"}
  BY DEF JavadSized
<1> QED  BY <1>1, <1>2, JavadSets DEF JavadIds, JavadOffsets

LEMMA JavadStarts ==
  ASSUME NEW b \in LogState(JavadIds), NEW ln, ln.st \in Nat
  PROVE  LET c == JavadStart(b, ln)
         IN  /\ c \in LogState(JavadIds) /\ c.cur = {} /\ c.svmeas = b.svmeas /\ c.val = b.val
             /\ c.measurements = b.measurements /\ c.pctime = IF ln.id = "RD" THEN ln.st ELSE b.pctime
             /\ \A i \in JavadIds : c.cnt[i] = 0
<1> DEFINE z == [i \in JavadIds |-> 0]
<1>1. z \in [JavadIds -> Nat] /\ \A i \in JavadIds : z[i] = 0
  OBVIOUS
<1>2. JavadStart(b, ln) = [b EXCEPT !.cur = {}, !.cnt = z, !.pctime = IF ln.id = "RD" THEN ln.st ELSE b.pctime]
  BY DEF JavadStart, LogState
<1> HIDE DEF z
<1> QED  BY <1>1, <1>2 DEF LogState

JavadMany(b) == ~JavadOnce(b, JavadRanges)
JavadEnds(b) == JavadComplete(b) /\ JavadOnce(b, {"rc", "RC"})

\* The message of the C/A pseudoranges
JavadCA(b) == IF "RC" \in b.cur THEN "RC" ELSE "rc"

LEMMA JavadHeader ==
  ASSUME NEW b \in LogState(JavadIds), NEW ln, ln.id = "RD", ln.sec \in Nat, ln.st \in Nat
  PROVE  LET c == JavadRD(b, ln)
             R == RawOf(SVsIn(b.svmeas), b.val[JavadCA(b)].sec)
         IN  /\ c \in LogState(JavadIds) /\ c.cur = {} /\ c.pctime = ln.st
             /\ \A i \in JavadIds : c.cnt[i] = 0
             /\ R \in SUBSET SVMeas /\ New(b, R) \in MeasOf(JavadIds)
             /\ c.measurements = IF JavadEnds(b) /\ ~JavadMany(b) /\ b.svmeas # {} /\ b.pctime # 0
                                 THEN Append(b.measurements, New(b, R)) ELSE b.measurements
             /\ ln.q = "ok" /\ ~(JavadEnds(b) /\ JavadMany(b)) => c.val["RD"] = From(ln)
             /\ c.svmeas = b.svmeas /\ \A i \in JavadIds \ {"RD"} : c.val[i] = b.val[i]
<1> DEFINE R == RawOf(SVsIn(b.svmeas), b.val[JavadCA(b)].sec)
           p == Push(b, R)
           full == JavadEnds(b)
           many == full /\ JavadMany(b)
           s == IF full /\ ~many /\ b.svmeas # {} /\ b.pctime # 0 THEN p ELSE b
           v == [s.val EXCEPT !["RD"] = From(ln)]
           d == IF ln.q = "ok" /\ ~many THEN [s EXCEPT !.val["RD"] = From(ln)] ELSE s
<1>1. JavadRanged(b) = R
  BY DEF JavadRanged, RawOf, SVsIn, JavadCA
<1>2. R \in SUBSET SVMeas
  <2>1. JavadCA(b) \in JavadIds
    BY JavadSets, JavadKinds DEF JavadCA
  <2>2. b.val[JavadCA(b)].sec \in Nat
    BY <2>1 DEF LogState, Stamped
  <2>3. SVsIn(b.svmeas) \subseteq SVs
    BY DEF LogState, SVMeas, SVsIn
  <2> QED  BY <2>2, <2>3, RawOfSVs
<1>3. JavadRD(b, ln) = JavadStart(d, ln)
  BY <1>1 DEF JavadRD, JavadEnds, JavadMany
<1> HIDE DEF R
<1>4. /\ p \in LogState(JavadIds) /\ p.val = b.val /\ p.svmeas = b.svmeas /\ New(b, R) \in MeasOf(JavadIds)
      /\ p.measurements = Append(b.measurements, New(b, R))
  BY <1>2, PushState
<1> HIDE DEF p, full
<1>5. /\ s \in LogState(JavadIds) /\ s.val = b.val /\ s.svmeas = b.svmeas
      /\ s.measurements = IF full /\ ~many /\ b.svmeas # {} /\ b.pctime # 0
                          THEN Append(b.measurements, New(b, R)) ELSE b.measurements
  BY <1>4
<1> HIDE DEF s, many
<1>6. /\ v \in [JavadIds -> Stamped] /\ v["RD"] = From(ln)
      /\ \A i \in JavadIds \ {"RD"} : v[i] = b.val[i]
  BY <1>5, JavadKinds DEF LogState, From, Stamped
<1>7. ln.q = "ok" /\ ~many => d = [s EXCEPT !.val = v]
  BY <1>5
<1>8. ~(ln.q = "ok" /\ ~many) => d = s
  OBVIOUS
<1> HIDE DEF d, v
<1>9. /\ d \in LogState(JavadIds) /\ d.measurements = s.measurements
      /\ ln.q = "ok" /\ ~many => d.val["RD"] = From(ln)
      /\ d.svmeas = b.svmeas /\ \A i \in JavadIds \ {"RD"} : d.val[i] = b.val[i]
  BY <1>5, <1>6, <1>7, <1>8, ZenonT(40) DEF LogState
<1>10. LET c == JavadStart(d, ln)
       IN  /\ c \in LogState(JavadIds) /\ c.cur = {} /\ c.val = d.val /\ c.svmeas = d.svmeas
           /\ c.measurements = d.measurements /\ c.pctime = ln.st
           /\ \A i \in JavadIds : c.cnt[i] = 0
  BY <1>9, JavadStarts
<1>11. full /\ ~many <=> JavadEnds(b) /\ ~JavadMany(b)
  BY DEF full, many
<1> QED  BY <1>2, <1>3, <1>4, <1>5, <1>9, <1>10, <1>11 DEF R, many, full

LEMMA JavadIndices ==
  ASSUME NEW b \in LogState(JavadIds), NEW ln, ln.id = "SI", ln.sec \in Nat, ln.st \in Nat,
         ln.svs \subseteq SVs,
         ln = [id |-> ln.id, sec |-> ln.sec, q |-> ln.q, sv |-> ln.sv, svs |-> ln.svs, st |-> ln.st]
  PROVE  LET c == JavadSI(b, ln)
         IN  /\ c \in LogState(JavadIds) /\ c.measurements = b.measurements /\ c.pctime = b.pctime
             /\ "SI" \in b.cur => /\ c.cur = {} /\ c.val = b.val
                                  /\ \A i \in JavadIds : c.cnt[i] = 0
             /\ "SI" \notin b.cur => /\ c.cur = b.cur \cup {"SI"} /\ c.val["SI"] = From(ln)
                                     /\ \A i \in JavadIds \ {"SI"} : c.val[i] = b.val[i]
                                     /\ c.cnt = b.cnt /\ c.svmeas = RawOf(ln.svs, ln.sec)
<1>1. CASE "SI" \in b.cur
  <2>1. JavadSI(b, ln) = JavadStart(b, ln) /\ ln.id # "RD"
    BY <1>1 DEF JavadSI
  <2> QED  BY <1>1, <2>1, JavadStarts
<1>2. CASE "SI" \notin b.cur
  <2> DEFINE n == [ln EXCEPT !.q = "ok"]
             t == Take(b, n)
             R == RawOf(ln.svs, ln.sec)
  <2>1. n.id = "SI" /\ n.sec = ln.sec /\ n.st = ln.st /\ n.q = "ok" /\ From(n) = From(ln)
    BY DEF From
  <2> HIDE DEF n
  <2>2. "SI" \in JavadIds
    BY JavadKinds
  <2>3. /\ t \in LogState(JavadIds) /\ t.measurements = b.measurements /\ t.pctime = b.pctime /\ t.cnt = b.cnt
        /\ t.cur = b.cur \cup {"SI"} /\ t.val["SI"] = From(ln)
        /\ \A i \in JavadIds \ {"SI"} : t.val[i] = b.val[i]
    BY <2>1, <2>2, TakeField
  <2>4. R \in SUBSET SVMeas
    BY RawOfSVs
  <2>5. JavadSI(b, ln) = [t EXCEPT !.svmeas = R]
    BY <1>2 DEF JavadSI, RawOf, n
  <2> HIDE DEF t, R
  <2>6. LET c == [t EXCEPT !.svmeas = R]
        IN  /\ c \in LogState(JavadIds) /\ c.measurements = t.measurements /\ c.pctime = t.pctime
            /\ c.cnt = t.cnt /\ c.cur = t.cur /\ c.val = t.val /\ c.svmeas = R
    BY <2>3, <2>4 DEF LogState
  <2> QED  BY <1>2, <2>3, <2>5, <2>6 DEF R
<1> QED  BY <1>1, <1>2

\* What a message of one field may change
JavadTaken(b, ln, c) ==
  /\ c.svmeas = b.svmeas /\ c.measurements = b.measurements /\ c.pctime = b.pctime
  /\ c.cur \in {b.cur, b.cur \cup {ln.id}}
  /\ \A i \in JavadIds \ {ln.id} : c.val[i] = b.val[i] /\ c.cnt[i] = b.cnt[i]
  /\ c.val[ln.id] \in {b.val[ln.id], From(ln)}
  /\ ln.id \in c.cur \ b.cur => c.val[ln.id] = From(ln)
  /\ \/ c.cnt[ln.id] = b.cnt[ln.id]
     \/ c.cnt[ln.id] = b.cnt[ln.id] + 1 /\ ln.id \in c.cur /\ "SI" \in b.cur /\ ln.id \in JavadRanges

LEMMA JavadNotTaken ==
  ASSUME NEW b, NEW ln
  PROVE  JavadTaken(b, ln, b)
BY DEF JavadTaken

LEMMA JavadPlain ==
  ASSUME NEW b \in LogState(JavadIds), NEW ln, ln.id \in JavadIds, ln.sec \in Nat, ln.st \in Nat
  PROVE  /\ Take(b, ln) \in LogState(JavadIds) /\ JavadTaken(b, ln, Take(b, ln))
         /\ ln.q = "ok" => ln.id \in Take(b, ln).cur
BY TakeField DEF JavadTaken

LEMMA JavadRanging ==
  ASSUME NEW b \in LogState(JavadIds), NEW ln, ln.id \in JavadRanges, ln.sec \in Nat, ln.st \in Nat,
         "SI" \in b.cur
  PROVE  LET c == JavadRange(b, ln)
         IN  /\ c \in LogState(JavadIds) /\ JavadTaken(b, ln, c)
             /\ JavadFits(b, ln) => ln.id \in c.cur \/ \E i \in JavadFull(ln.id) : b.cnt[i] # 0
<1>1. ln.id \in JavadIds
  BY JavadKinds
<1>2. CASE (\A i \in JavadFull(ln.id) : b.cnt[i] = 0) /\ JavadFits(b, ln)
  <2> DEFINE t == Take(b, ln)
             n == [b.cnt EXCEPT ![ln.id] = b.cnt[ln.id] + 1]
  <2>1. ln.q = "ok"
    BY <1>2 DEF JavadFits
  <2>2. /\ t \in LogState(JavadIds) /\ t.svmeas = b.svmeas /\ t.measurements = b.measurements
        /\ t.pctime = b.pctime /\ t.cnt = b.cnt /\ t.cur = b.cur \cup {ln.id}
        /\ t.val[ln.id] = From(ln) /\ \A i \in JavadIds \ {ln.id} : t.val[i] = b.val[i]
    BY <1>1, <2>1, TakeField
  <2>3. JavadRange(b, ln) = [t EXCEPT !.cnt[ln.id] = @ + 1]
    BY <1>2 DEF JavadRange
  <2> HIDE DEF t
  <2>4. b.cnt \in [JavadIds -> Nat]
    BY DEF LogState
  <2>5. /\ n \in [JavadIds -> Nat] /\ n[ln.id] = b.cnt[ln.id] + 1
        /\ \A i \in JavadIds \ {ln.id} : n[i] = b.cnt[i]
    BY <1>1, <2>4
  <2>6. [t EXCEPT !.cnt[ln.id] = @ + 1] = [t EXCEPT !.cnt = n]
    BY <2>2 DEF LogState
  <2> HIDE DEF n
  <2>7. LET c == [t EXCEPT !.cnt = n]
        IN  /\ c \in LogState(JavadIds) /\ c.measurements = t.measurements /\ c.pctime = t.pctime
            /\ c.cnt = n /\ c.cur = t.cur /\ c.val = t.val /\ c.svmeas = t.svmeas
    BY <2>2, <2>5 DEF LogState
  <2> QED  BY <2>2, <2>3, <2>5, <2>6, <2>7 DEF JavadTaken
<1>3. CASE ~((\A i \in JavadFull(ln.id) : b.cnt[i] = 0) /\ JavadFits(b, ln))
  <2>1. JavadRange(b, ln) = b
    BY <1>3 DEF JavadRange
  <2> QED  BY <1>3, <2>1, JavadNotTaken
<1> QED  BY <1>2, <1>3

\* The messages apart from RD and SI
JavadFields == JavadOffsets \cup JavadSized \cup JavadRanges

LEMMA JavadReads ==
  ASSUME NEW b \in LogState(JavadIds), NEW ln, ln.sec \in Nat, ln.st \in Nat
  PROVE  LET c == JavadRead(b, ln)
             passed == ln.q = "bad" \/ ln.st \notin ReadFrom .. ReadTo
         IN  /\ passed => c = b
             /\ ~passed /\ ln.id = "RD" => c = JavadRD(b, ln)
             /\ ~passed /\ ln.id = "SI" => c = JavadSI(b, ln)
             /\ ln.id \in JavadFields => c \in LogState(JavadIds) /\ JavadTaken(b, ln, c)
             /\ ~passed /\ ln.q = "ok" /\ ln.id \in JavadOffsets => ln.id \in c.cur
             /\ ~passed /\ "SI" \in b.cur /\ JavadFits(b, ln) =>
                  /\ ln.id \in JavadSized => ln.id \in c.cur
                  /\ ln.id \in JavadRanges => ln.id \in c.cur \/ \E i \in JavadFull(ln.id) : b.cnt[i] # 0
             /\ ln.id \in {"IO", "UO"} =>
                  /\ c \in LogState(JavadIds) /\ c.measurements = b.measurements /\ c.val = b.val
                  /\ c.cur = b.cur /\ c.svmeas = b.svmeas /\ c.pctime = b.pctime /\ c.cnt = b.cnt
<1> DEFINE c == JavadRead(b, ln)
           passed == ln.q = "bad" \/ ln.st \notin ReadFrom .. ReadTo
<1>1. passed => c = b
  BY Zenon DEF JavadRead
<1>2. ~passed /\ ln.id = "RD" => c = JavadRD(b, ln)
  <2>1. ln.id = "RD" => ln.id # "SI" /\ ln.id \notin JavadOffsets
    BY JavadKinds
  <2> QED  BY <2>1, Zenon DEF JavadRead
<1>3. ~passed /\ ln.id = "SI" => c = JavadSI(b, ln)
  <2>1. ln.id = "SI" => ln.id # "RD" /\ ln.id \notin JavadOffsets
    BY JavadKinds
  <2> QED  BY <2>1, Zenon DEF JavadRead
<1>4. ~passed /\ ln.id \in JavadOffsets => c = Take(b, ln)
  <2>1. ln.id \in JavadOffsets => ln.id # "RD" /\ ln.id # "SI"
    BY JavadKinds
  <2> QED  BY <2>1, Zenon DEF JavadRead, JavadOffset
<1>5. ~passed /\ ln.id \in JavadSized \cup JavadRanges \cup {"IO", "UO"} =>
        c = IF "SI" \in b.cur THEN JavadListed(b, ln) ELSE b
  <2>1. ln.id \in JavadSized \cup JavadRanges \cup {"IO", "UO"} =>
          ln.id # "RD" /\ ln.id # "SI" /\ ln.id \notin JavadOffsets
    BY JavadKinds DEF JavadOffsets
  <2> QED  BY <2>1, Zenon DEF JavadRead
<1>6. ln.id \in JavadSized => JavadListed(b, ln) = JavadSizedMsg(b, ln)
  <2>1. ln.id \in JavadSized => ln.id \notin JavadRanges /\ ln.id # "IO" /\ ln.id # "UO"
    BY JavadKinds
  <2> QED  BY <2>1, Zenon DEF JavadListed
<1>7. ln.id \in JavadRanges => JavadListed(b, ln) = JavadRange(b, ln)
  <2>1. ln.id \in JavadRanges => ln.id \notin JavadSized /\ ln.id # "IO" /\ ln.id # "UO"
    BY JavadKinds
  <2> QED  BY <2>1, Zenon DEF JavadListed
<1>8. ln.id \in {"IO", "UO"} =>
        JavadListed(b, ln) \in {b, [b EXCEPT !.got = b.got \cup {"iono"}], [b EXCEPT !.got = b.got \cup {"utc"}]}
  <2>1. ln.id \in {"IO", "UO"} => ln.id \notin JavadSized /\ ln.id \notin JavadRanges
    BY JavadKinds
  <2>2. ln.id = "IO" => JavadListed(b, ln) = JavadIO(b, ln)
    BY <2>1, Zenon DEF JavadListed
  <2>3. ln.id = "UO" => JavadListed(b, ln) = JavadUO(b, ln)
    BY <2>1, Zenon DEF JavadListed
  <2> QED  BY <2>2, <2>3 DEF JavadIO, JavadUO
<1> HIDE DEF c, passed
<1>9. ASSUME NEW d \in {b, [b EXCEPT !.got = b.got \cup {"iono"}], [b EXCEPT !.got = b.got \cup {"utc"}]}
      PROVE  /\ d \in LogState(JavadIds) /\ d.measurements = b.measurements /\ d.val = b.val
             /\ d.cur = b.cur /\ d.svmeas = b.svmeas /\ d.pctime = b.pctime /\ d.cnt = b.cnt
  BY DEF LogState
<1>10. ln.id \in {"IO", "UO"} =>
         c \in {b, [b EXCEPT !.got = b.got \cup {"iono"}], [b EXCEPT !.got = b.got \cup {"utc"}]}
  BY <1>1, <1>5, <1>8
<1>11. ln.id \in JavadFields => ln.id \in JavadIds
  BY JavadKinds DEF JavadFields
<1>12. ln.id \in JavadIds => /\ Take(b, ln) \in LogState(JavadIds) /\ JavadTaken(b, ln, Take(b, ln))
                             /\ ln.q = "ok" => ln.id \in Take(b, ln).cur
  BY JavadPlain
<1>13. JavadTaken(b, ln, b)
  BY JavadNotTaken
<1>14. ln.id \in JavadOffsets => /\ c \in LogState(JavadIds) /\ JavadTaken(b, ln, c)
                                 /\ ~passed /\ ln.q = "ok" => ln.id \in c.cur
  BY <1>1, <1>4, <1>11, <1>12, <1>13 DEF JavadFields
<1>15. ln.id \in JavadSized => /\ c \in LogState(JavadIds) /\ JavadTaken(b, ln, c)
                               /\ ~passed /\ "SI" \in b.cur /\ JavadFits(b, ln) => ln.id \in c.cur
  BY <1>1, <1>5, <1>6, <1>11, <1>12, <1>13 DEF JavadFields, JavadSizedMsg, JavadFits
<1>16. ln.id \in JavadRanges =>
         /\ c \in LogState(JavadIds) /\ JavadTaken(b, ln, c)
         /\ ~passed /\ "SI" \in b.cur /\ JavadFits(b, ln)
              => ln.id \in c.cur \/ \E i \in JavadFull(ln.id) : b.cnt[i] # 0
  BY <1>1, <1>5, <1>7, <1>13, JavadRanging
<1>17. ln.id \in JavadFields => c \in LogState(JavadIds) /\ JavadTaken(b, ln, c)
  BY <1>14, <1>15, <1>16 DEF JavadFields
<1> QED  BY <1>1, <1>2, <1>3, <1>9, <1>10, <1>14, <1>15, <1>16, <1>17 DEF c, passed

-----------------------------------------------------------------------------
(* What is gathered from a Javad *)

Waits(id) == <<id, "-">> \in Pending

\* Message id of second t was not read, so far
Yet(t, id) == Gone(t, id) \/ (t = sec /\ Waits(id))

Begun == todo # Sends(rx, svs)

\* What FreshDate says of a measurement of second a
DateLost(a) == Gone(a, "RD") /\ (Gone(a - 1, "SI") \/ Gone(a - 1, "RD"))
DateLate(a) == Harmed(a, "RD", {"size"}) \/ (DualFrequency /\ Gone(a - 1, "RD") /\ Gone(a - 1, "SI"))

JavadMeas(m) ==
  LET a == m.val["SI"].sec
  IN  /\ m.meas # {} /\ a < sec
      /\ \A v \in m.meas : v.sec < sec /\ (v.sec = a \/ JavadMixes(v.sec, a))
      /\ \A i \in {"SI"} \cup JavadOffsets \cup JavadSized : m.val[i].sec = a \/ JavadMixes(m.val[i].sec, a)
      /\ m.val["RD"].sec # a => DateLost(a) \/ DateLate(a)
      /\ m.pc # a => DateLost(a)

\* The SI of second a was read and not voided
JavadListing(b) ==
  LET a == b.val["SI"].sec
  IN  /\ \A t \in a + 1 .. sec : Yet(t, "RD") /\ Yet(t, "SI")
      /\ \A i \in b.cur : b.val[i].sec < a => JavadMixes(b.val[i].sec, a)
      /\ b.pctime <= a /\ (b.pctime # 0 /\ b.pctime + 1 = a => Gone(a - 1, "SI"))
      /\ a = sec => ~Waits("SI")
      /\ \A r \in JavadRanges :
            /\ b.cnt[r] > 0 /\ a = sec => ~Waits(r)
            /\ b.cnt[r] > 1 => a < sec /\ (Begun \/ a + 1 < sec)

\* There is no SI of this second, or none yet
JavadUnlisted(b) ==
  /\ \A i \in b.cur : /\ \A t \in b.val[i].sec + 1 .. sec : Yet(t, "RD")
                      /\ Yet(b.val[i].sec, "SI") \/ Gone(b.val[i].sec, "RD")
  /\ sec >= ReadFrom => Yet(sec, "SI") \/ Gone(sec, "RD")
  /\ b.pctime = sec => Yet(sec, "SI")
  /\ b.pctime # 0 /\ b.pctime + 1 = sec /\ Waits("SI") => Gone(b.pctime, "SI")
  /\ \A r \in JavadRanges : b.cnt[r] = 0

\* All that is saved is of seconds before s
Older(b, s) == \A k \in DOMAIN b.measurements : \A v \in b.measurements[k].meas : v.sec < s

JavadGather(b) ==
  /\ sec < ReadFrom => b.cur = {} /\ b.pctime = 0
  /\ \A i \in b.cur :
        /\ b.val[i].sec <= sec /\ (Begun \/ b.val[i].sec < sec)
        /\ Older(b, b.val[i].sec)
  /\ b.pctime <= sec /\ (Begun \/ b.pctime < sec)
  /\ b.pctime # 0 => /\ \A t \in b.pctime + 1 .. sec : Yet(t, "RD")
                     /\ b.val["RD"].sec = b.pctime \/ DateLate(b.pctime)
  /\ "SI" \in b.cur => JavadListing(b)
  /\ "SI" \notin b.cur => JavadUnlisted(b)

\* What a whole second left, and what it leaves so far
JavadAll(b) ==
  /\ ~Begun /\ sec > 1 /\ Whole(sec - 1) /\ sec - 1 >= ReadFrom =>
        /\ JavadComplete(b) /\ \A r \in JavadRanges : b.cnt[r] <= 1
        /\ b.svmeas = RawOf(seen[sec - 1], sec - 1) /\ b.val["SI"].sec = sec - 1 /\ b.pctime = sec - 1
  /\ Begun /\ Whole(sec) /\ sec >= ReadFrom =>
        /\ b.pctime = sec /\ \A i \in b.cur : ~Waits(i)
        /\ Waits("SI") \/ ("SI" \in b.cur /\ b.svmeas = RawOf(svs, sec) /\ b.val["SI"].sec = sec)
        /\ \A i \in JavadOffsets \cup JavadSized : Waits(i) \/ i \in b.cur
        /\ \A S \in JavadSignals : \A r \in S : r \in Range(JavadOrder) => Waits(r) \/ S \cap b.cur # {}
        /\ \A r \in JavadRanges : b.cnt[r] <= 1 /\ (b.cnt[r] # 0 => r \in b.cur)

JavadInv ==
  /\ l \in LogState(JavadIds)
  /\ \A m \in Saved : JavadMeas(m)
  /\ UsedOnce
  /\ sec <= ReadTo => JavadGather(l) /\ JavadAll(l)

LEMMA JavadHead ==
  /\ Header("javad") = "RD"
  /\ rx = "javad" => \A m : SecondOf(m) = m.val["SI"].sec
<1>1. Header("javad") = "RD"
  BY Zenon DEF Header
<1> QED  BY <1>1 DEF SecondOf, Anchor

LEMMA JavadOrdered ==
  /\ Range(JavadOrder) \subseteq JavadIds
  /\ {"RD", "SI"} \cup JavadOffsets \cup JavadSized \subseteq Range(JavadOrder)
<1>1. Range(JavadOrder) \subseteq JavadIds
  BY JavadOrderAssumption DEF Range
<1>2. "RD" \in Range(JavadOrder)
  <2>1. 1 \in DOMAIN JavadOrder /\ JavadOrder[1] = "RD"
    BY JavadOrderAssumption
  <2> QED  BY <2>1 DEF Range
<1>3. {"SI"} \cup JavadOffsets \cup JavadSized \subseteq Range(JavadOrder)
  BY JavadOrderAssumption
<1> QED  BY <1>1, <1>2, <1>3

LEMMA JavadFresh == ASSUME rx = "javad", ReadInit PROVE JavadInv
<1>1. l = Locals(JavadIds)
  <2>1. l = Fresh(rx) /\ Fresh("javad") = JavadLocals
    BY Zenon DEF ReadInit, Fresh
  <2> QED  BY <2>1 DEF JavadLocals
<1>2. /\ l \in LogState(JavadIds) /\ l.cur = {} /\ l.pctime = 0 /\ l.measurements = << >>
      /\ \A i \in JavadIds : l.cnt[i] = 0
  BY <1>1, LocalsState
<1>3. Saved = {} /\ UsedOnce
  BY <1>2 DEF Saved, UsedOnce
<1>4. sec = 1 /\ todo = Sends(rx, svs) /\ ~Begun
  BY DEF ReadInit, Begun
<1>5. Waits("SI")
  <2>1. <<"SI", "-">> \in AllOf(Sends(rx, svs))
    BY JavadSends, JavadOrdered
  <2> QED  BY <1>4, <2>1 DEF Waits, Pending
<1>6. JavadUnlisted(l)
  BY <1>2, <1>4, <1>5, JavadKinds DEF JavadUnlisted, Yet
<1>7. JavadGather(l)
  BY <1>2, <1>4, <1>6 DEF JavadGather
<1>8. JavadAll(l)
  BY <1>4 DEF JavadAll
<1> QED  BY <1>2, <1>3, <1>7, <1>8 DEF JavadInv

\* What the state of a log has for values
LEMMA JavadNumbers ==
  ASSUME Logging, NEW b \in LogState(JavadIds)
  PROVE  /\ sec \in Nat /\ sec > 0 /\ svs \subseteq SVs /\ ReadFrom \in Nat /\ ReadTo \in Nat
         /\ b.pctime \in Nat /\ b.cur \subseteq JavadIds
         /\ \A i \in JavadIds : b.val[i].sec \in Nat /\ b.cnt[i] \in Nat
         /\ \A k \in DOMAIN b.measurements : b.measurements[k] \in MeasOf(JavadIds)
<1>1. sec \in Nat /\ sec > 0 /\ svs \subseteq SVs
  BY LogAssumption DEF Logging, Sec
<1>2. ReadFrom \in Nat /\ ReadTo \in Nat
  BY ReadAssumption
<1> QED  BY <1>1, <1>2 DEF LogState, Stamped

LEMMA MeasNumbers ==
  ASSUME NEW ids, NEW m \in MeasOf(ids)
  PROVE  (\A v \in m.meas : v.sec \in Nat) /\ (\A i \in ids : m.val[i].sec \in Nat) /\ m.pc \in Nat
BY DEF MeasOf, SVMeas, Stamped

\* A step within a second that reads or loses it
OneLine(it) ==
  /\ progress = "reading" /\ todo # << >> /\ it \in todo[1] /\ todo' = Without(it)
  /\ UNCHANGED <<rx, sec, svs, seen>> /\ harmed \subseteq harmed'

LEMMA JavadWaits ==
  ASSUME Logging, rx = "javad", NEW it, OneLine(it)
  PROVE  /\ it = <<it[1], "-">> /\ it[1] \in Range(JavadOrder) /\ it[1] \in JavadIds
         /\ Waits(it[1]) /\ ~Waits(it[1])' /\ \A i : i # it[1] => (Waits(i)' <=> Waits(i))
         /\ Begun' /\ ~Waits("RD")' /\ (it[1] = "RD" <=> ~Begun) /\ (Begun => ~Waits("RD"))
         /\ ~Begun => \A i : Waits(i) <=> i \in Range(JavadOrder)
         /\ it[1] \in JavadSized \cup JavadRanges => ~Waits("SI")
<1> DEFINE S == Sends(rx, svs)
<1>1. /\ todo' # S /\ it \in AllOf(S) /\ it \in Pending /\ Pending' = Pending \ {it}
      /\ it = <<"RD", "-">> <=> todo = S
      /\ <<"RD", "-">> \notin Pending'
  BY LogsLeft, JavadHead DEF OneLine
<1>2. AllOf(S) = {<<i, "-">> : i \in Range(JavadOrder)} /\ Groups(S) /\ S[1] = {<<"RD", "-">>}
      /\ DOMAIN S = DOMAIN JavadOrder /\ \A i \in DOMAIN JavadOrder : S[i] = {<<JavadOrder[i], "-">>}
  BY JavadSends
<1>3. S' = S
  BY DEF OneLine
<1> HIDE DEF S
<1>4. it = <<it[1], "-">> /\ it[1] \in Range(JavadOrder) /\ it[1] \in JavadIds
  BY <1>1, <1>2, JavadOrdered
<1>5. Waits(it[1]) /\ ~Waits(it[1])' /\ \A i : i # it[1] => (Waits(i)' <=> Waits(i))
  <2>1. \A i : <<i, "-">> = it <=> i = it[1]
    BY <1>4
  <2> QED  BY <1>1, <2>1 DEF Waits
<1>6. Begun' /\ ~Waits("RD")' /\ (it[1] = "RD" <=> ~Begun)
  BY <1>1, <1>3, <1>4 DEF Begun, Waits, S
<1>7. Begun => ~Waits("RD")
  <2>1. LeftOf(S, todo)
    BY DEF Logging, S
  <2>2. Waits("RD") => todo = S
    BY <1>2, <2>1, FirstLeft DEF Waits, Pending
  <2> QED  BY <2>2 DEF Begun, S
<1>8. ~Begun => \A i : Waits(i) <=> i \in Range(JavadOrder)
  BY <1>2 DEF Begun, Waits, Pending, S
<1>9. ASSUME it[1] \in JavadSized \cup JavadRanges PROVE ~Waits("SI")
  <2>1. PICK i \in DOMAIN JavadOrder : JavadOrder[i] = "SI"
    BY JavadOrdered DEF Range
  <2>2. PICK j \in DOMAIN JavadOrder : JavadOrder[j] = it[1]
    BY <1>4 DEF Range
  <2>3. i < j
    BY <1>9, <2>1, <2>2, JavadOrderAssumption
  <2>4. it \in S[j] /\ <<"SI", "-">> \in S[i] /\ LeftOf(S, todo)
    BY <1>2, <1>4, <2>1, <2>2 DEF Logging, S
  <2> QED  BY <1>2, <2>3, <2>4, BeforeLeft DEF Waits, Pending, OneLine
<1> QED  BY <1>4, <1>5, <1>6, <1>7, <1>8, <1>9

LEMMA JavadYet ==
  ASSUME Logging, rx = "javad", NEW it, OneLine(it)
  PROVE  /\ \A t, i : Gone(t, i) => Gone(t, i)'
         /\ \A t, i : Yet(t, i) /\ (i # it[1] \/ t # sec \/ Gone(t, i)') => Yet(t, i)'
         /\ \A t, i : Yet(t, i) /\ t # sec => Gone(t, i) /\ Gone(t, i)'
         /\ \A t : Yet(t, "RD") /\ Begun => Gone(t, "RD") /\ Gone(t, "RD")'
         /\ \A s, a : JavadMixes(s, a) => JavadMixes(s, a)'
         /\ \A a : (DateLost(a) => DateLost(a)') /\ (DateLate(a) => DateLate(a)')
         /\ Whole(sec)' => Whole(sec)
<1>1. \A s, id, hows : Harmed(s, id, hows) => Harmed(s, id, hows)'
  BY WholeThen DEF OneLine
<1>2. \A t, i : Gone(t, i) => Gone(t, i)'
  BY <1>1 DEF Gone
<1>3. sec' = sec
  BY DEF OneLine
<1>4. \A t, i : Yet(t, i) /\ (i # it[1] \/ t # sec \/ Gone(t, i)') => Yet(t, i)'
  BY <1>2, <1>3, JavadWaits DEF Yet
<1>5. \A t, i : Yet(t, i) /\ t # sec => Gone(t, i) /\ Gone(t, i)'
  BY <1>2 DEF Yet
<1>6. \A t : Yet(t, "RD") /\ Begun => Gone(t, "RD") /\ Gone(t, "RD")'
  BY <1>2, JavadWaits DEF Yet
<1>7. \A s, a : JavadMixes(s, a) => JavadMixes(s, a)'
  BY <1>2 DEF JavadMixes
<1>8. \A a : (DateLost(a) => DateLost(a)') /\ (DateLate(a) => DateLate(a)')
  BY <1>1, <1>2 DEF DateLost, DateLate
<1>9. Whole(sec)' => Whole(sec)
  BY <1>3, WholeThen DEF OneLine
<1> QED  BY <1>2, <1>4, <1>5, <1>6, <1>7, <1>8, <1>9

LEMMA JavadMeasStays ==
  ASSUME sec \in Nat, sec' \in Nat, sec <= sec', harmed \subseteq harmed',
         NEW m \in MeasOf(JavadIds), JavadMeas(m)
  PROVE  JavadMeas(m)'
<1>1. \A s, id, hows : Harmed(s, id, hows) => Harmed(s, id, hows)'
  BY WholeThen
<1>2. \A s, id : Gone(s, id) => Gone(s, id)'
  BY <1>1 DEF Gone
<1>3. \A s, a : JavadMixes(s, a) => JavadMixes(s, a)'
  BY <1>2 DEF JavadMixes
<1>4. \A a : (DateLost(a) => DateLost(a)') /\ (DateLate(a) => DateLate(a)')
  BY <1>1, <1>2 DEF DateLost, DateLate
<1>5. m.val["SI"].sec \in Nat /\ \A v \in m.meas : v.sec \in Nat
  BY MeasNumbers, JavadKinds
<1> QED  BY <1>3, <1>4, <1>5 DEF JavadMeas

\* A line that was lost, or that is not in the time wanted, leaves what is gathered
LEMMA JavadPasses ==
  ASSUME Logging, rx = "javad", NEW it, OneLine(it), NEW b \in LogState(JavadIds), JavadGather(b),
         it[1] \in {"RD", "SI"} => sec < ReadFrom \/ Gone(sec, it[1])'
  PROVE  JavadGather(b)'
<1>1. /\ sec \in Nat /\ sec > 0 /\ ReadFrom \in Nat /\ b.pctime \in Nat /\ b.cur \subseteq JavadIds
      /\ \A i \in JavadIds : b.val[i].sec \in Nat /\ b.cnt[i] \in Nat
  BY JavadNumbers
<1>2. sec' = sec /\ Begun'
  BY JavadWaits DEF OneLine
<1>3. \A i : Waits(i)' => Waits(i)
  BY JavadWaits
<1>4. /\ \A t, i : Gone(t, i) => Gone(t, i)'
      /\ \A t, i : Yet(t, i) /\ (i # it[1] \/ t # sec \/ Gone(t, i)') => Yet(t, i)'
      /\ \A s, a : JavadMixes(s, a) => JavadMixes(s, a)'
      /\ \A a : DateLate(a) => DateLate(a)'
  BY JavadYet
<1>5. CASE sec < ReadFrom
  <2>1. b.cur = {} /\ b.pctime = 0 /\ \A r \in JavadRanges : b.cnt[r] = 0
    BY <1>5 DEF JavadGather, JavadUnlisted
  <2>2. JavadUnlisted(b)'
    BY <1>1, <1>2, <1>5, <2>1 DEF JavadUnlisted
  <2> QED  BY <1>1, <1>2, <2>1, <2>2 DEF JavadGather
<1>6. CASE ~(sec < ReadFrom)
  <2>1. \A t, i : i \in {"RD", "SI"} /\ Yet(t, i) => Yet(t, i)'
    BY <1>2, <1>4, <1>6
  <2>2. ASSUME "SI" \in b.cur PROVE JavadListing(b)'
    <3>1. JavadListing(b)
      BY <2>2 DEF JavadGather
    <3> QED  BY <1>2, <1>3, <1>4, <2>1, <3>1 DEF JavadListing
  <2>3. ASSUME "SI" \notin b.cur PROVE JavadUnlisted(b)'
    <3>1. JavadUnlisted(b)
      BY <2>3 DEF JavadGather
    <3> QED  BY <1>2, <1>3, <1>4, <2>1, <3>1 DEF JavadUnlisted
  <2>4. \A i \in b.cur : b.val[i].sec <= sec /\ Older(b, b.val[i].sec)
    BY DEF JavadGather
  <2>5. b.pctime <= sec /\ b.pctime # 0 => /\ \A t \in b.pctime + 1 .. sec : Yet(t, "RD")'
                                           /\ b.val["RD"].sec = b.pctime \/ DateLate(b.pctime)'
    BY <1>4, <2>1 DEF JavadGather
  <2>6. b.pctime <= sec
    BY DEF JavadGather
  <2> QED  BY <1>2, <1>6, <2>2, <2>3, <2>4, <2>5, <2>6 DEF JavadGather, Older
<1> QED  BY <1>5, <1>6

\* A message of one field
LEMMA JavadTakenKeeps ==
  ASSUME Logging, rx = "javad", NEW it, OneLine(it), it[1] \in JavadFields,
         NEW b \in LogState(JavadIds), NEW c \in LogState(JavadIds), NEW ln, ln.id = it[1], ln.sec = sec,
         JavadTaken(b, ln, c), JavadGather(b), Older(b, sec), sec < ReadFrom => c = b
  PROVE  JavadGather(c)'
<1>1. CASE sec < ReadFrom
  <2>1. it[1] \notin {"RD", "SI"}
    BY JavadKinds DEF JavadFields
  <2> QED  BY <1>1, <2>1, JavadPasses
<1>2. CASE ~(sec < ReadFrom)
  <2>1. /\ sec \in Nat /\ sec > 0 /\ ReadFrom \in Nat /\ c.pctime \in Nat /\ c.cur \subseteq JavadIds
        /\ \A i \in JavadIds : c.val[i].sec \in Nat /\ b.val[i].sec \in Nat /\ c.cnt[i] \in Nat /\ b.cnt[i] \in Nat
    BY JavadNumbers
  <2>2. sec' = sec /\ Begun' /\ it[1] # "RD" /\ it[1] # "SI" /\ it[1] \in JavadIds /\ Begun
    BY JavadWaits, JavadKinds DEF OneLine, JavadFields
  <2>3. (\A i : Waits(i)' => Waits(i)) /\ ~Waits(it[1])' /\ Waits(it[1])
    BY JavadWaits
  <2>4. /\ \A t, i : Gone(t, i) => Gone(t, i)'
        /\ \A t, i : i \in {"RD", "SI"} /\ Yet(t, i) => Yet(t, i)'
        /\ \A s, a : JavadMixes(s, a) => JavadMixes(s, a)'
        /\ \A a : DateLate(a) => DateLate(a)'
    BY <2>2, JavadYet
  <2>5. From(ln).sec = sec
    BY DEF From
  <2>6. \A i \in c.cur : c.val[i].sec = sec \/ (i \in b.cur /\ c.val[i] = b.val[i])
    BY <2>1, <2>2, <2>5 DEF JavadTaken
  <2>7. /\ c.measurements = b.measurements /\ c.pctime = b.pctime
        /\ c.val["RD"] = b.val["RD"] /\ c.val["SI"] = b.val["SI"] /\ ("SI" \in c.cur <=> "SI" \in b.cur)
    BY <2>2, JavadKinds DEF JavadTaken
  <2>8. \A r \in JavadRanges : \/ c.cnt[r] = b.cnt[r]
                               \/ c.cnt[r] = b.cnt[r] + 1 /\ r = it[1] /\ "SI" \in b.cur
    BY <2>2, JavadKinds DEF JavadTaken
  <2>9. \A i \in c.cur : c.val[i].sec <= sec /\ Older(c, c.val[i].sec)
    BY <2>1, <2>6, <2>7 DEF Older, JavadGather
  <2>10. c.pctime <= sec
    BY <2>7 DEF JavadGather
  <2>11. c.pctime # 0 => /\ \A t \in c.pctime + 1 .. sec : Yet(t, "RD")'
                         /\ c.val["RD"].sec = c.pctime \/ DateLate(c.pctime)'
    BY <2>4, <2>7 DEF JavadGather
  <2>12. ASSUME "SI" \in c.cur PROVE JavadListing(c)'
    <3> PICK a : a = b.val["SI"].sec
      OBVIOUS
    <3>1. /\ \A t \in a + 1 .. sec : Yet(t, "RD") /\ Yet(t, "SI")
          /\ \A i \in b.cur : b.val[i].sec < a => JavadMixes(b.val[i].sec, a)
          /\ b.pctime <= a /\ (b.pctime # 0 /\ b.pctime + 1 = a => Gone(a - 1, "SI"))
          /\ a = sec => ~Waits("SI")
          /\ \A r \in JavadRanges :
                /\ b.cnt[r] > 0 /\ a = sec => ~Waits(r)
                /\ b.cnt[r] > 1 => a < sec
          /\ a <= sec /\ a \in Nat
      BY <2>1, <2>7, <2>12, JavadKinds DEF JavadGather, JavadListing
    <3>2. ASSUME NEW i \in c.cur, c.val[i].sec < a PROVE JavadMixes(c.val[i].sec, a)'
      <4>1. i \in b.cur /\ c.val[i] = b.val[i]
        BY <2>1, <2>6, <3>1, <3>2
      <4>2. PICK s : s = b.val[i].sec
        OBVIOUS
      <4>3. JavadMixes(s, a)'
        BY <2>4, <3>1, <3>2, <4>1, <4>2
      <4> QED  BY <4>1, <4>2, <4>3
    <3>3. ASSUME NEW r \in JavadRanges
          PROVE  /\ c.cnt[r] > 0 /\ a = sec => ~Waits(r)'
                 /\ c.cnt[r] > 1 => a < sec
      <4>1. b.cnt[r] \in Nat /\ c.cnt[r] \in Nat
        BY <2>1, JavadKinds
      <4>2. CASE c.cnt[r] = b.cnt[r]
        BY <2>3, <3>1, <4>2
      <4>3. CASE c.cnt[r] = b.cnt[r] + 1 /\ r = it[1]
        <5>1. b.cnt[r] > 0 => a < sec
          BY <2>1, <2>3, <3>1, <4>3
        <5> QED  BY <2>3, <4>1, <4>3, <5>1
      <4> QED  BY <2>8, <4>2, <4>3
    <3> QED  BY <2>2, <2>3, <2>4, <2>7, <3>1, <3>2, <3>3 DEF JavadListing
  <2>13. ASSUME "SI" \notin c.cur PROVE JavadUnlisted(c)'
    <3>1. JavadUnlisted(b)
      BY <2>7, <2>13 DEF JavadGather
    <3>2. Yet(sec, "SI")' \/ Gone(sec, "RD")'
      <4> PICK s : s = sec
        OBVIOUS
      <4>1. Yet(s, "SI")' \/ Gone(s, "RD")'
        BY <1>2, <2>1, <2>4, <3>1 DEF JavadUnlisted
      <4> QED  BY <2>2, <4>1
    <3>3. ASSUME NEW i \in c.cur
          PROVE  /\ \A t \in c.val[i].sec + 1 .. sec : Yet(t, "RD")'
                 /\ Yet(c.val[i].sec, "SI")' \/ Gone(c.val[i].sec, "RD")'
      <4> PICK s : s = c.val[i].sec
        OBVIOUS
      <4>1. CASE s = sec
        BY <2>1, <2>2, <3>2, <4>1
      <4>2. CASE i \in b.cur /\ c.val[i] = b.val[i]
        <5>1. (\A t \in s + 1 .. sec : Yet(t, "RD")) /\ (Yet(s, "SI") \/ Gone(s, "RD"))
          BY <3>1, <4>2 DEF JavadUnlisted
        <5> QED  BY <2>4, <5>1
      <4> QED  BY <2>6, <4>1, <4>2
    <3>4. \A r \in JavadRanges : c.cnt[r] = 0
      BY <2>7, <2>8, <2>13, <3>1 DEF JavadUnlisted
    <3>5. c.pctime # 0 /\ c.pctime + 1 = sec /\ Waits("SI")' => Gone(c.pctime, "SI")'
      BY <2>3, <2>4, <2>7, <3>1 DEF JavadUnlisted
    <3>6. c.pctime = sec => Yet(sec, "SI")'
      <4> PICK s : s = sec
        OBVIOUS
      <4>1. c.pctime = s => Yet(s, "SI")'
        BY <2>4, <2>7, <3>1 DEF JavadUnlisted
      <4> QED  BY <2>2, <4>1
    <3> QED  BY <2>2, <3>2, <3>3, <3>4, <3>5, <3>6 DEF JavadUnlisted
  <2> QED  BY <1>2, <2>2, <2>9, <2>10, <2>11, <2>12, <2>13 DEF JavadGather, Older
<1> QED  BY <1>1, <1>2

\* A field of a whole second is gathered
LEMMA JavadTakenAll ==
  ASSUME Logging, rx = "javad", NEW it, OneLine(it), it[1] \in JavadFields,
         NEW b \in LogState(JavadIds), NEW c \in LogState(JavadIds), NEW ln, ln.id = it[1],
         JavadTaken(b, ln, c), JavadAll(b),
         Whole(sec)' /\ sec >= ReadFrom =>
           /\ it[1] \in JavadOffsets \cup JavadSized => it[1] \in c.cur
           /\ it[1] \in JavadRanges => it[1] \in c.cur \/ \E i \in JavadFull(it[1]) : b.cnt[i] # 0
  PROVE  JavadAll(c)'
<1> SUFFICES ASSUME Whole(sec)', sec >= ReadFrom
             PROVE  /\ c.pctime = sec /\ \A i \in c.cur : ~Waits(i)'
                    /\ Waits("SI")' \/ ("SI" \in c.cur /\ c.svmeas = RawOf(svs, sec) /\ c.val["SI"].sec = sec)
                    /\ \A i \in JavadOffsets \cup JavadSized : Waits(i)' \/ i \in c.cur
                    /\ \A S \in JavadSignals : \A r \in S :
                          r \in Range(JavadOrder) => Waits(r)' \/ S \cap c.cur # {}
                    /\ \A r \in JavadRanges : c.cnt[r] <= 1 /\ (c.cnt[r] # 0 => r \in c.cur)
  <2>1. Begun' /\ UNCHANGED <<sec, svs>>
    BY JavadWaits DEF OneLine
  <2> QED  BY <2>1 DEF JavadAll
<1>1. /\ sec \in Nat /\ c.cur \subseteq JavadIds /\ b.cur \subseteq JavadIds
      /\ \A i \in JavadIds : c.cnt[i] \in Nat /\ b.cnt[i] \in Nat
  BY JavadNumbers
<1>2. Begun /\ it[1] # "RD" /\ it[1] # "SI" /\ it[1] \in JavadIds /\ Whole(sec)
  BY JavadWaits, JavadYet, JavadKinds DEF JavadFields
<1>3. /\ b.pctime = sec /\ \A i \in b.cur : ~Waits(i)
      /\ Waits("SI") \/ ("SI" \in b.cur /\ b.svmeas = RawOf(svs, sec) /\ b.val["SI"].sec = sec)
      /\ \A i \in JavadOffsets \cup JavadSized : Waits(i) \/ i \in b.cur
      /\ \A S \in JavadSignals : \A r \in S : r \in Range(JavadOrder) => Waits(r) \/ S \cap b.cur # {}
      /\ \A r \in JavadRanges : b.cnt[r] <= 1 /\ (b.cnt[r] # 0 => r \in b.cur)
  BY <1>2 DEF JavadAll
<1>4. Waits(it[1]) /\ ~Waits(it[1])' /\ \A i : i # it[1] => (Waits(i)' <=> Waits(i))
  BY JavadWaits
<1>5. /\ c.pctime = b.pctime /\ c.svmeas = b.svmeas /\ c.val["SI"] = b.val["SI"]
      /\ b.cur \subseteq c.cur /\ c.cur \subseteq b.cur \cup {it[1]}
  BY <1>2, JavadKinds DEF JavadTaken
<1>6. \A i \in c.cur : ~Waits(i)'
  BY <1>3, <1>4, <1>5
<1>7. Waits("SI")' \/ ("SI" \in c.cur /\ c.svmeas = RawOf(svs, sec) /\ c.val["SI"].sec = sec)
  BY <1>2, <1>3, <1>4, <1>5
<1>8. \A i \in JavadOffsets \cup JavadSized : Waits(i)' \/ i \in c.cur
  BY <1>3, <1>4, <1>5
<1>9. ASSUME NEW S \in JavadSignals, NEW r \in S, r \in Range(JavadOrder)
      PROVE  Waits(r)' \/ S \cap c.cur # {}
  <2>1. CASE r # it[1]
    BY <1>3, <1>4, <1>5, <1>9, <2>1
  <2>2. CASE r = it[1]
    <3>1. r \in JavadRanges /\ JavadFull(r) \subseteq S /\ S \subseteq JavadRanges
      BY JavadSets
    <3>2. r \in c.cur \/ \E i \in JavadFull(r) : b.cnt[i] # 0
      BY <2>2, <3>1
    <3>3. \A i \in JavadFull(r) : b.cnt[i] # 0 => i \in S \cap c.cur
      BY <1>3, <1>5, <3>1
    <3> QED  BY <3>2, <3>3
  <2> QED  BY <2>1, <2>2
<1>10. ASSUME NEW r \in JavadRanges PROVE c.cnt[r] <= 1 /\ (c.cnt[r] # 0 => r \in c.cur)
  <2>1. r \in JavadIds /\ b.cnt[r] \in Nat /\ c.cnt[r] \in Nat
    BY <1>1, JavadKinds
  <2>2. CASE c.cnt[r] = b.cnt[r]
    BY <1>3, <1>5, <2>2
  <2>3. CASE c.cnt[r] # b.cnt[r]
    <3>1. r = it[1] /\ c.cnt[r] = b.cnt[r] + 1 /\ r \in c.cur
      BY <2>1, <2>3 DEF JavadTaken
    <3>2. b.cnt[r] = 0
      BY <1>3, <1>4, <3>1
    <3> QED  BY <3>1, <3>2
  <2> QED  BY <2>2, <2>3
<1> QED  BY <1>3, <1>5, <1>6, <1>7, <1>8, <1>9, <1>10

\* RD begins a second
LEMMA JavadBegins ==
  ASSUME Logging, rx = "javad", NEW it, OneLine(it), it[1] = "RD", sec >= ReadFrom,
         NEW c \in LogState(JavadIds), c.cur = {}, c.pctime = sec, \A i \in JavadIds : c.cnt[i] = 0,
         NEW s, s = sec, c.val["RD"].sec = s \/ DateLate(s)'
  PROVE  JavadGather(c)' /\ JavadAll(c)'
<1>1. sec \in Nat /\ sec > 0 /\ ReadFrom \in Nat /\ sec' = sec /\ Begun'
  BY JavadNumbers, JavadWaits DEF OneLine
<1>2. \A i \in Range(JavadOrder) : i # "RD" => Waits(i)'
  BY JavadWaits
<1>3. \A r \in JavadRanges : r # "RD" /\ c.cnt[r] = 0
  BY JavadKinds
<1>4. \A i \in {"SI"} \cup JavadOffsets \cup JavadSized : Waits(i)'
  <2>1. \A i \in {"SI"} \cup JavadOffsets \cup JavadSized : i # "RD" /\ i \in Range(JavadOrder)
    BY JavadOrdered, JavadKinds
  <2> QED  BY <1>2, <2>1
<1>5. Yet(s, "SI")'
  BY <1>1, <1>4 DEF Yet
<1>6. JavadUnlisted(c)'
  BY <1>1, <1>3, <1>5 DEF JavadUnlisted
<1>7. JavadGather(c)'
  BY <1>1, <1>6 DEF JavadGather
<1>8. \A S \in JavadSignals : \A r \in S : r \in Range(JavadOrder) => Waits(r)'
  <2>1. \A S \in JavadSignals : \A r \in S : r # "RD"
    BY <1>3, JavadSets
  <2> QED  BY <1>2, <2>1
<1>9. /\ c.pctime = sec /\ (\A i \in c.cur : ~Waits(i)') /\ Waits("SI")'
      /\ \A i \in JavadOffsets \cup JavadSized : Waits(i)' \/ i \in c.cur
      /\ \A S \in JavadSignals : \A r \in S :
            r \in Range(JavadOrder) => Waits(r)' \/ S \cap c.cur # {}
      /\ \A r \in JavadRanges : c.cnt[r] <= 1 /\ (c.cnt[r] # 0 => r \in c.cur)
  <2>1. c.pctime = sec /\ \A i \in c.cur : ~Waits(i)'
    OBVIOUS
  <2>2. \A r \in JavadRanges : c.cnt[r] <= 1 /\ (c.cnt[r] # 0 => r \in c.cur)
    BY <1>3
  <2>3. \A S \in JavadSignals : \A r \in S : r \in Range(JavadOrder) => Waits(r)' \/ S \cap c.cur # {}
    BY <1>8
  <2> QED  BY <1>4, <2>1, <2>2, <2>3
<1>10. JavadAll(c)'
  BY <1>1, <1>9 DEF JavadAll
<1> QED  BY <1>7, <1>10

\* A second SI in a second voids what is gathered
LEMMA JavadVoids ==
  ASSUME Logging, rx = "javad", NEW it, OneLine(it), it[1] = "SI", sec >= ReadFrom,
         NEW b \in LogState(JavadIds), JavadGather(b), "SI" \in b.cur,
         NEW c \in LogState(JavadIds), c.cur = {}, c.pctime = b.pctime, c.val = b.val,
         \A i \in JavadIds : c.cnt[i] = 0
  PROVE  JavadGather(c)' /\ ~Whole(sec)'
<1>1. /\ sec \in Nat /\ sec > 0 /\ ReadFrom \in Nat /\ sec' = sec /\ Begun' /\ Begun /\ c.pctime \in Nat
      /\ b.val["SI"].sec \in Nat
  BY JavadNumbers, JavadWaits, JavadKinds DEF OneLine
<1>2. PICK a : a = b.val["SI"].sec
  OBVIOUS
<1>3. Waits("SI") /\ ~Waits("SI")'
  BY JavadWaits
<1>4. a < sec /\ \A t \in a + 1 .. sec : Yet(t, "RD")
  <2>1. a <= sec /\ (a = sec => ~Waits("SI")) /\ \A t \in a + 1 .. sec : Yet(t, "RD")
    BY <1>2 DEF JavadGather, JavadListing
  <2> QED  BY <1>1, <1>2, <1>3, <2>1
<1>5. PICK s : s = sec
  OBVIOUS
<1>6. Gone(s, "RD")'
  <2>1. Yet(s, "RD")
    BY <1>1, <1>2, <1>4, <1>5
  <2> QED  BY <1>1, <2>1, JavadYet
<1>7. c.pctime <= a /\ c.pctime < sec
  <2>1. c.pctime <= a
    BY <1>2 DEF JavadGather, JavadListing
  <2> QED  BY <1>1, <1>2, <1>4, <2>1
<1>8. \A r \in JavadRanges : c.cnt[r] = 0
  BY JavadKinds
<1>9. JavadUnlisted(c)'
  BY <1>1, <1>3, <1>5, <1>6, <1>7, <1>8 DEF JavadUnlisted
<1>10. c.pctime # 0 => /\ \A t \in c.pctime + 1 .. sec : Yet(t, "RD")'
                       /\ c.val["RD"].sec = c.pctime \/ DateLate(c.pctime)'
  <2>1. \A t : Yet(t, "RD") => Yet(t, "RD")'
    BY JavadYet
  <2>2. \A p : DateLate(p) => DateLate(p)'
    BY JavadYet
  <2> QED  BY <2>1, <2>2 DEF JavadGather
<1>11. JavadGather(c)'
  BY <1>1, <1>7, <1>9, <1>10 DEF JavadGather
<1>12. ~Whole(sec)'
  BY <1>1, <1>5, <1>6 DEF Gone, Harmed, Whole
<1> QED  BY <1>11, <1>12

\* The SI of a second
LEMMA JavadLists ==
  ASSUME Logging, rx = "javad", NEW it, OneLine(it), it[1] = "SI", sec >= ReadFrom,
         NEW b \in LogState(JavadIds), JavadGather(b), JavadAll(b), Older(b, sec), "SI" \notin b.cur,
         NEW c \in LogState(JavadIds), c.cur = b.cur \cup {"SI"}, c.pctime = b.pctime,
         c.measurements = b.measurements, c.cnt = b.cnt, c.val["SI"].sec = sec,
         \A i \in JavadIds \ {"SI"} : c.val[i] = b.val[i], c.svmeas = RawOf(svs, sec)
  PROVE  JavadGather(c)' /\ JavadAll(c)'
<1>1. /\ sec \in Nat /\ sec > 0 /\ ReadFrom \in Nat /\ sec' = sec /\ svs' = svs /\ Begun' /\ Begun
      /\ c.pctime \in Nat /\ b.cur \subseteq JavadIds /\ \A i \in JavadIds : b.val[i].sec \in Nat
  BY JavadNumbers, JavadWaits DEF OneLine
<1>2. Waits("SI") /\ ~Waits("SI")' /\ \A i : i # "SI" => (Waits(i)' <=> Waits(i))
  BY JavadWaits
<1>3. PICK s : s = sec
  OBVIOUS
<1>4. JavadUnlisted(b)
  BY DEF JavadGather
<1>5. \A i \in b.cur : c.val[i] = b.val[i]
  BY <1>1
<1>6. ASSUME NEW i \in c.cur, c.val[i].sec < s PROVE JavadMixes(c.val[i].sec, s)'
  <2>1. i \in b.cur /\ c.val[i] = b.val[i]
    BY <1>1, <1>3, <1>5, <1>6
  <2>2. PICK p : p = b.val[i].sec
    OBVIOUS
  <2>3. p < s /\ p \in Nat /\ s \in Nat
    BY <1>1, <1>3, <1>6, <2>1, <2>2
  <2>4. (\A t \in p + 1 .. s : Yet(t, "RD")) /\ (Yet(p, "SI") \/ Gone(p, "RD"))
    BY <1>3, <1>4, <2>1, <2>2 DEF JavadUnlisted
  <2>5. \A t \in p + 1 .. s : Gone(t, "RD")'
    BY <1>1, <2>4, JavadYet
  <2>6. Gone(p, "SI")' \/ Gone(p, "RD")'
    BY <1>3, <2>3, <2>4, JavadYet
  <2>7. JavadMixes(p, s)'
    BY <2>3, <2>5, <2>6 DEF JavadMixes
  <2> QED  BY <2>1, <2>2, <2>7
<1>7. c.pctime <= s /\ (c.pctime # 0 /\ c.pctime + 1 = s => Gone(s - 1, "SI")')
  <2>1. c.pctime <= s
    BY <1>3 DEF JavadGather
  <2>2. ASSUME c.pctime # 0, c.pctime + 1 = s PROVE Gone(s - 1, "SI")'
    <3>1. Gone(c.pctime, "SI") /\ c.pctime = s - 1
      BY <1>1, <1>2, <1>3, <1>4, <2>2 DEF JavadUnlisted
    <3> QED  BY <3>1, JavadYet
  <2> QED  BY <2>1, <2>2
<1>8. \A r \in JavadRanges : c.cnt[r] = 0
  BY <1>4 DEF JavadUnlisted
<1>9. JavadListing(c)'
  BY <1>1, <1>2, <1>3, <1>6, <1>7, <1>8 DEF JavadListing
<1>10. \A i \in c.cur : c.val[i].sec <= sec /\ Older(c, c.val[i].sec)
  BY <1>1, <1>5 DEF JavadGather, Older
<1>11. c.pctime # 0 => /\ \A t \in c.pctime + 1 .. sec : Yet(t, "RD")'
                       /\ c.val["RD"].sec = c.pctime \/ DateLate(c.pctime)'
  <2>1. \A t : Yet(t, "RD") => Yet(t, "RD")'
    BY JavadYet
  <2>2. \A p : DateLate(p) => DateLate(p)'
    BY JavadYet
  <2>3. c.val["RD"] = b.val["RD"]
    BY JavadKinds
  <2> QED  BY <2>1, <2>2, <2>3 DEF JavadGather
<1>12. JavadGather(c)'
  BY <1>1, <1>3, <1>7, <1>9, <1>10, <1>11 DEF JavadGather, Older
<1>13. ASSUME Whole(sec)'
       PROVE  /\ c.pctime = sec /\ \A i \in c.cur : ~Waits(i)'
              /\ \A i \in JavadOffsets \cup JavadSized : Waits(i)' \/ i \in c.cur
              /\ \A S \in JavadSignals : \A r \in S :
                    r \in Range(JavadOrder) => Waits(r)' \/ S \cap c.cur # {}
  <2>1. /\ b.pctime = sec /\ \A i \in b.cur : ~Waits(i)
        /\ \A i \in JavadOffsets \cup JavadSized : Waits(i) \/ i \in b.cur
        /\ \A S \in JavadSignals : \A r \in S : r \in Range(JavadOrder) => Waits(r) \/ S \cap b.cur # {}
    BY <1>1, <1>13, JavadYet DEF JavadAll
  <2>2. \A S \in JavadSignals : \A r \in S : r # "SI"
    BY JavadSets, JavadKinds
  <2>3. \A i \in JavadOffsets \cup JavadSized : i # "SI"
    BY JavadKinds
  <2> QED  BY <1>2, <2>1, <2>2, <2>3
<1>14. JavadAll(c)'
  BY <1>1, <1>8, <1>13 DEF JavadAll
<1> QED  BY <1>12, <1>14

\* What is saved is of seconds before this one
LEMMA JavadOlder ==
  ASSUME JavadInv
  PROVE  Older(l, sec)
BY DEF JavadInv, JavadMeas, Saved, Older

\* A line that saves nothing
LEMMA JavadQuiet ==
  ASSUME Logging, rx = "javad", NEW it, OneLine(it), JavadInv, NotLost,
         NEW c \in LogState(JavadIds), l' = c, c.measurements = l.measurements,
         sec <= ReadTo => JavadGather(c)' /\ JavadAll(c)',
         it[1] = "RD" /\ sec \in ReadFrom .. ReadTo => ~Whole(sec)'
  PROVE  JavadInv' /\ NotLost'
<1>1. /\ sec \in Nat /\ sec > 0 /\ ReadFrom \in Nat /\ ReadTo \in Nat
      /\ sec' = sec /\ UNCHANGED <<rx, svs, seen>> /\ progress = "reading" /\ harmed \subseteq harmed'
  <2>1. l \in LogState(JavadIds)
    BY DEF JavadInv
  <2> QED  BY <2>1, JavadNumbers DEF OneLine
<1>2. Saved' = Saved /\ UsedOnce'
  BY DEF Saved, UsedOnce, JavadInv
<1>3. Saved \subseteq MeasOf(JavadIds)
  BY DEF Saved, JavadInv, LogState
<1>4. \A m \in Saved : JavadMeas(m)'
  BY <1>1, <1>3, JavadMeasStays DEF JavadInv
<1>5. (sec <= ReadTo => JavadGather(l) /\ JavadAll(l))'
  BY <1>1
<1>6. l' \in LogState(JavadIds)
  OBVIOUS
<1>7. JavadInv'
  BY <1>2, <1>4, <1>5, <1>6 DEF JavadInv
<1>8. ASSUME sec > 1, todo = Sends(rx, svs), Due(sec - 1)' PROVE SavedWhole(sec - 1)'
  <2>1. it[1] = "RD"
    BY <1>8, JavadWaits DEF Begun
  <2>2. sec - 1 >= ReadFrom /\ sec - 1 < ReadTo /\ Whole(sec)'
    <3>1. (sec - 1) + 1 = sec /\ (sec - 1)' = sec - 1
      BY <1>1
    <3>2. PICK s, t : s = sec - 1 /\ t = sec
      OBVIOUS
    <3>3. Due(s)' /\ s + 1 = t /\ rx' = "javad"
      BY <1>1, <1>8, <3>1, <3>2
    <3>4. s >= ReadFrom /\ s < ReadTo /\ Whole(t)'
      BY <3>3 DEF Due
    <3> QED  BY <1>1, <3>2, <3>4
  <2>3. sec \in ReadFrom .. ReadTo
    BY <1>1, <2>2
  <2> QED  BY <2>1, <2>2, <2>3
<1>9. NotLost'
  BY <1>1, <1>2, <1>8, SameSecond
<1> QED  BY <1>7, <1>9

LEMMA JavadLost ==
  ASSUME Logging, rx = "javad", JavadInv, NotLost, Lose
  PROVE  JavadInv' /\ NotLost'
<1>1. PICK it \in todo[1] : /\ todo' = Without(it)
                            /\ harmed' = harmed \cup {[sec |-> sec, id |-> it[1], how |-> "lost"]}
  BY DEF Lose
<1>2. progress = "reading" /\ todo # << >> /\ UNCHANGED <<rx, sec, svs, stamp, seen, progress, l>>
  BY DEF Lose
<1>3. harmed \subseteq harmed' /\ ~Whole(sec)' /\ Harmed(sec, it[1], {"lost"})'
  BY <1>1, <1>2, Loses
<1>4. OneLine(it)
  BY <1>1, <1>2, <1>3 DEF OneLine
<1>5. Gone(sec, it[1])'
  BY <1>3 DEF Gone, Harmed
<1>6. PICK c : c = l
  OBVIOUS
<1>7. c \in LogState(JavadIds) /\ l' = c
  BY <1>2, <1>6 DEF JavadInv
<1>8. ASSUME sec <= ReadTo PROVE JavadGather(c)' /\ JavadAll(c)'
  <2>1. JavadGather(c)
    BY <1>6, <1>8 DEF JavadInv
  <2>2. JavadGather(c)'
    BY <1>4, <1>5, <1>7, <2>1, JavadPasses
  <2>3. JavadAll(c)'
    <3>1. Begun'
      BY <1>4, JavadWaits
    <3> QED  BY <1>3, <3>1 DEF JavadAll
  <2> QED  BY <2>2, <2>3
<1> QED  BY <1>3, <1>4, <1>6, <1>7, <1>8, JavadQuiet

LEMMA JavadParameters ==
  ASSUME Logging, rx = "javad", JavadInv, NotLost, NEW ln, Informs(ln)
  PROVE  JavadInv' /\ NotLost'
<1>1. /\ progress = "reading" /\ ln.id \in {"IO", "UO"} /\ ln.sec = sec /\ ln.st = stamp /\ stamp = sec
      /\ Len(todo) = 1 /\ UNCHANGED <<todo, harmed, rx, sec, svs, seen>> /\ l' = JavadRead(l, ln)
  <2>1. l' = ReadLine(ln)
    BY DEF Informs, Handle
  <2>2. ReadLine(ln) = JavadRead(l, ln)
    BY Zenon DEF ReadLine
  <2> QED  BY <2>1, <2>2, JavadKinds DEF Informs, Handle, Logging
<1>2. sec \in Nat
  BY LogAssumption DEF Logging, Sec
<1>3. /\ l' \in LogState(JavadIds) /\ l'.measurements = l.measurements /\ l'.val = l.val
      /\ l'.cur = l.cur /\ l'.svmeas = l.svmeas /\ l'.pctime = l.pctime /\ l'.cnt = l.cnt
  BY <1>1, <1>2, JavadReads DEF JavadInv
<1>4. Saved' = Saved /\ UsedOnce'
  BY <1>3 DEF Saved, UsedOnce, JavadInv
<1>5. \A m \in Saved : JavadMeas(m)'
  <2>1. Saved \subseteq MeasOf(JavadIds)
    BY DEF Saved, JavadInv, LogState
  <2> QED  BY <1>1, <1>2, <2>1, JavadMeasStays DEF JavadInv
<1>6. todo # Sends(rx, svs)
  <2> DEFINE S == Sends(rx, svs)
  <2>1. Groups(S) /\ S[1] = {<<"RD", "-">>} /\ AllOf(S) = {<<i, "-">> : i \in Range(JavadOrder)}
    BY JavadSends
  <2>2. <<"SI", "-">> \in AllOf(S)
    BY <2>1, JavadOrdered
  <2> HIDE DEF S
  <2>3. PICK k \in DOMAIN S : <<"SI", "-">> \in S[k]
    BY <2>2 DEF AllOf
  <2>4. k # 1
    BY <2>1, <2>3
  <2>5. DOMAIN S = 1 .. Len(S) /\ Len(S) \in Nat
    BY <2>1 DEF Groups
  <2> QED  BY <1>1, <2>3, <2>4, <2>5 DEF S
<1>7. (\A id : Waits(id)' <=> Waits(id)) /\ (Begun' <=> Begun) /\ (\A s, id : Gone(s, id)' <=> Gone(s, id))
      /\ (\A s, id : Yet(s, id)' <=> Yet(s, id)) /\ (\A s, a : JavadMixes(s, a)' <=> JavadMixes(s, a))
      /\ (\A a : DateLate(a)' <=> DateLate(a)) /\ (\A s : Whole(s)' <=> Whole(s))
  BY <1>1 DEF Waits, Pending, Begun, Gone, Harmed, Yet, JavadMixes, DateLate, Whole
<1>8. (sec <= ReadTo => JavadGather(l) /\ JavadAll(l))'
  <2>1. PICK b, c : b = l /\ c = l'
    OBVIOUS
  <2>2. c.measurements = b.measurements /\ c.val = b.val /\ c.cur = b.cur /\ c.svmeas = b.svmeas
        /\ c.pctime = b.pctime /\ c.cnt = b.cnt
    BY <1>3, <2>1
  <2>3. ASSUME sec <= ReadTo PROVE JavadGather(c)' /\ JavadAll(c)'
    <3>1. JavadGather(b) /\ JavadAll(b)
      BY <2>1, <2>3 DEF JavadInv
    <3>2. "SI" \in b.cur => JavadListing(c)'
      BY <1>1, <1>7, <2>2, <3>1 DEF JavadGather, JavadListing
    <3>3. "SI" \notin b.cur => JavadUnlisted(c)'
      BY <1>1, <1>7, <2>2, <3>1 DEF JavadGather, JavadUnlisted
    <3>4. JavadGather(c)'
      BY <1>1, <1>7, <2>2, <3>1, <3>2, <3>3 DEF JavadGather, Older
    <3>5. JavadAll(c)'
      BY <1>1, <1>7, <2>2, <3>1 DEF JavadAll, JavadComplete
    <3> QED  BY <3>4, <3>5
  <2> QED  BY <1>1, <2>1, <2>3
<1>9. JavadInv'
  BY <1>3, <1>4, <1>5, <1>8 DEF JavadInv
<1> QED  BY <1>1, <1>4, <1>6, <1>9, SameSecond

\* A complete second is gathered from its own messages, or from those of seconds that were lost
LEMMA JavadEnded ==
  ASSUME Logging, rx = "javad", ~Begun, sec >= ReadFrom, NEW b \in LogState(JavadIds), JavadGather(b),
         JavadEnds(b), ~JavadMany(b), b.svmeas # {}, b.pctime # 0,
         NEW R, R = RawOf(SVsIn(b.svmeas), b.val[JavadCA(b)].sec), NEW e, e = New(b, R)
  PROVE  /\ JavadMeas(e) /\ e.meas # {} /\ SVsIn(e.meas) = SVsIn(b.svmeas) /\ e.val = b.val
         /\ \A k \in DOMAIN b.measurements : b.measurements[k].meas \cap e.meas = {}
<1>1. /\ sec \in Nat /\ sec > 0 /\ b.pctime \in Nat /\ b.cur \subseteq JavadIds
      /\ \A i \in JavadIds : b.val[i].sec \in Nat
      /\ \A k \in DOMAIN b.measurements : b.measurements[k] \in MeasOf(JavadIds)
  BY JavadNumbers
<1>2. e.meas = R /\ e.val = b.val /\ e.pc = b.pctime
  BY DEF New
<1>3. JavadOffsets \cup {"SI"} \cup JavadSized \subseteq b.cur /\ JavadCA(b) \in b.cur
  BY JavadSets DEF JavadEnds, JavadComplete, JavadCA
<1>4. PICK a : a = b.val["SI"].sec
  OBVIOUS
<1>5. /\ \A t \in a + 1 .. sec : Yet(t, "RD") /\ Yet(t, "SI")
      /\ \A i \in b.cur : b.val[i].sec < a => JavadMixes(b.val[i].sec, a)
      /\ b.pctime <= a /\ (b.pctime # 0 /\ b.pctime + 1 = a => Gone(a - 1, "SI"))
  BY <1>3, <1>4 DEF JavadGather, JavadListing
<1>6. \A i \in b.cur : b.val[i].sec < sec /\ Older(b, b.val[i].sec)
  BY DEF JavadGather
<1>7. a < sec /\ a \in Nat
  BY <1>1, <1>3, <1>4, <1>6
<1>8. \A t, i : Yet(t, i) /\ t # sec => Gone(t, i)
  BY DEF Yet
<1>9. ASSUME NEW i \in b.cur PROVE b.val[i].sec = a \/ JavadMixes(b.val[i].sec, a)
  <2>1. PICK s : s = b.val[i].sec
    OBVIOUS
  <2>2. s \in Nat /\ s < sec
    BY <1>1, <1>6, <2>1
  <2>3. CASE s > a
    <3>1. \A t \in a + 1 .. s : t \in a + 1 .. sec /\ t # sec
      BY <1>1, <1>7, <2>2
    <3>2. \A t \in a + 1 .. s : Gone(t, "RD") /\ Gone(t, "SI")
      BY <1>5, <1>8, <3>1
    <3>3. JavadMixes(s, a)
      BY <2>3, <3>2 DEF JavadMixes
    <3> QED  BY <2>1, <3>3
  <2>4. CASE s < a
    BY <1>5, <2>1, <2>4
  <2> QED  BY <1>7, <2>1, <2>2, <2>3, <2>4
<1>10. SVsIn(b.svmeas) # {}
  BY DEF SVsIn
<1>11. R # {} /\ SVsIn(R) = SVsIn(b.svmeas) /\ \A v \in R : v.sec = b.val[JavadCA(b)].sec
  BY <1>10, RawOfSVs
<1>12. \A v \in R : v.sec < sec /\ (v.sec = a \/ JavadMixes(v.sec, a)) /\ Older(b, v.sec)
  BY <1>3, <1>6, <1>9, <1>11
<1>13. b.pctime < a => DateLost(a)
  <2>1. ASSUME b.pctime < a PROVE DateLost(a)
    <3>1. \A t \in b.pctime + 1 .. sec : Yet(t, "RD")
      BY DEF JavadGather
    <3>2. a \in b.pctime + 1 .. sec /\ a # sec
      BY <1>1, <1>7, <2>1
    <3>3. Gone(a, "RD")
      BY <1>8, <3>1, <3>2
    <3>4. CASE b.pctime + 1 = a
      BY <1>5, <3>3, <3>4 DEF DateLost
    <3>5. CASE b.pctime + 1 # a
      <4>1. a - 1 \in b.pctime + 1 .. sec /\ a - 1 # sec
        BY <1>1, <1>7, <2>1, <3>5
      <4>2. Gone(a - 1, "RD")
        BY <1>8, <3>1, <4>1
      <4> QED  BY <3>3, <4>2 DEF DateLost
    <3> QED  BY <3>4, <3>5
  <2> QED  BY <2>1
<1>14. b.pctime = a \/ b.pctime < a
  BY <1>1, <1>5, <1>7
<1>15. b.pctime # a => DateLost(a)
  BY <1>13, <1>14
<1>16. b.val["RD"].sec # a => DateLost(a) \/ DateLate(a)
  <2>1. b.val["RD"].sec = b.pctime \/ DateLate(b.pctime)
    BY DEF JavadGather
  <2> QED  BY <1>15, <2>1
<1>17. \A i \in {"SI"} \cup JavadOffsets \cup JavadSized : b.val[i].sec = a \/ JavadMixes(b.val[i].sec, a)
  BY <1>3, <1>9
<1>18. JavadMeas(e)
  BY <1>2, <1>4, <1>7, <1>11, <1>12, <1>15, <1>16, <1>17 DEF JavadMeas
<1>19. ASSUME NEW k \in DOMAIN b.measurements, NEW v \in b.measurements[k].meas, v \in R PROVE FALSE
  <2>1. v.sec < v.sec
    BY <1>12, <1>19 DEF Older
  <2>2. v.sec \in Nat
    BY <1>1, <1>19, MeasNumbers
  <2> QED  BY <2>1, <2>2
<1> QED  BY <1>2, <1>11, <1>18, <1>19

\* RD when it is read
LEMMA JavadHeadLine ==
  ASSUME Logging, rx = "javad", NEW it, OneLine(it), it[1] = "RD", JavadInv, NotLost,
         sec \in ReadFrom .. ReadTo, NEW ln, ln.id = "RD", ln.sec = sec, ln.st = sec,
         l' = JavadRD(l, ln),
         Whole(sec)' => ln.q = "ok", ln.q # "ok" => Harmed(sec, "RD", {"size"})'
  PROVE  JavadInv' /\ NotLost'
<1>1. /\ sec \in Nat /\ sec > 0 /\ ReadFrom \in Nat /\ ReadTo \in Nat /\ sec' = sec
      /\ UNCHANGED <<rx, svs, seen>> /\ progress = "reading" /\ harmed \subseteq harmed'
      /\ l \in LogState(JavadIds) /\ l.measurements \in Seq(MeasOf(JavadIds))
  <2>1. l \in LogState(JavadIds)
    BY DEF JavadInv
  <2> QED  BY <2>1, JavadNumbers DEF OneLine, LogState
<1>2. ~Begun /\ JavadGather(l) /\ JavadAll(l) /\ sec >= ReadFrom
  BY <1>1, JavadWaits DEF JavadInv
<1> PICK R : R = RawOf(SVsIn(l.svmeas), l.val[JavadCA(l)].sec)
  OBVIOUS
<1> PICK e : e = New(l, R)
  OBVIOUS
<1> DEFINE saves == JavadEnds(l) /\ ~JavadMany(l) /\ l.svmeas # {} /\ l.pctime # 0
<1>3. /\ l' \in LogState(JavadIds) /\ l'.cur = {} /\ l'.pctime = sec
      /\ \A i \in JavadIds : l'.cnt[i] = 0
      /\ e \in MeasOf(JavadIds)
      /\ l'.measurements = IF saves THEN Append(l.measurements, e) ELSE l.measurements
      /\ ln.q = "ok" /\ ~(JavadEnds(l) /\ JavadMany(l)) => l'.val["RD"] = From(ln)
  BY <1>1, JavadHeader
<1> HIDE DEF saves
<1> PICK s : s = sec
  OBVIOUS
<1>4. l'.val["RD"].sec = s \/ DateLate(s)'
  <2>1. ASSUME JavadEnds(l), JavadMany(l) PROVE DateLate(s)'
    <3>1. PICK r \in JavadRanges : ~(l.cnt[r] <= 1)
      BY <2>1 DEF JavadMany, JavadOnce
    <3>2. l.cnt[r] \in Nat /\ l.val["SI"].sec \in Nat
      BY <1>1, JavadNumbers, JavadKinds
    <3>3. r \notin {"rc", "RC"} /\ "SI" \in l.cur
      BY <2>1, <3>1 DEF JavadEnds, JavadOnce, JavadComplete
    <3>4. DualFrequency
      BY <3>3, JavadSets
    <3>5. PICK a : a = l.val["SI"].sec
      OBVIOUS
    <3>6. a + 1 < sec /\ \A t \in a + 1 .. sec : Yet(t, "RD") /\ Yet(t, "SI")
      <4>1. l.cnt[r] > 1
        BY <3>1, <3>2
      <4> QED  BY <1>2, <3>3, <3>5, <4>1 DEF JavadGather, JavadListing
    <3>7. s - 1 \in a + 1 .. s /\ s - 1 # s
      BY <1>1, <3>2, <3>5, <3>6
    <3>8. Yet(s - 1, "RD") /\ Yet(s - 1, "SI")
      BY <3>6, <3>7
    <3>9. Gone(s - 1, "RD")' /\ Gone(s - 1, "SI")'
      BY <3>7, <3>8, JavadYet
    <3> QED  BY <3>4, <3>9 DEF DateLate
  <2>2. ln.q # "ok" => DateLate(s)'
    <3>1. ASSUME ln.q # "ok" PROVE Harmed(s, "RD", {"size"})'
      BY <1>1, <3>1
    <3> QED  BY <3>1 DEF DateLate
  <2>3. From(ln).sec = s
    BY DEF From
  <2> QED  BY <1>3, <2>1, <2>2, <2>3
<1>5. PICK c : c = l'
  OBVIOUS
<1>6. JavadGather(c)' /\ JavadAll(c)'
  <2>1. c \in LogState(JavadIds) /\ c.cur = {} /\ c.pctime = sec /\ \A i \in JavadIds : c.cnt[i] = 0
    BY <1>3, <1>5
  <2>2. c.val["RD"].sec = s \/ DateLate(s)'
    BY <1>4, <1>5
  <2> QED  BY <1>2, <2>1, <2>2, JavadBegins
<1>7. Saved \subseteq MeasOf(JavadIds)
  BY <1>1 DEF Saved
<1>8. \A m \in Saved : JavadMeas(m)'
  BY <1>1, <1>7, JavadMeasStays DEF JavadInv
<1>9. ASSUME saves
      PROVE  /\ JavadMeas(e)' /\ Saved' = Saved \cup {e} /\ UsedOnce'
             /\ SVsIn(e.meas) = SVsIn(l.svmeas) /\ e.val = l.val
  <2> PICK b : b = l
    OBVIOUS
  <2>1. /\ JavadMeas(e) /\ SVsIn(e.meas) = SVsIn(b.svmeas) /\ e.val = b.val
        /\ \A k \in DOMAIN b.measurements : b.measurements[k].meas \cap e.meas = {}
    <3>1. b \in LogState(JavadIds) /\ JavadGather(b)
      BY <1>1, <1>2
    <3>2. JavadEnds(b) /\ ~JavadMany(b) /\ b.svmeas # {} /\ b.pctime # 0
      BY <1>9 DEF saves
    <3>3. R = RawOf(SVsIn(b.svmeas), b.val[JavadCA(b)].sec) /\ e = New(b, R)
      OBVIOUS
    <3> QED  BY <1>2, <3>1, <3>2, <3>3, JavadEnded
  <2>2. JavadMeas(e)'
    BY <1>1, <1>3, <2>1, JavadMeasStays
  <2>3. l'.measurements = Append(l.measurements, e)
    BY <1>3, <1>9
  <2>4. \A m \in Saved : m.meas \cap e.meas = {}
    BY <2>1 DEF Saved
  <2>5. "SI" \in JavadIds /\ UsedOnce
    BY JavadKinds DEF JavadInv
  <2>6. Saved' = Saved \cup {e} /\ UsedOnce'
    BY <1>1, <1>3, <2>3, <2>4, <2>5, SavedMore
  <2> QED  BY <2>1, <2>2, <2>6
<1>10. ASSUME ~saves PROVE Saved' = Saved /\ UsedOnce'
  <2>1. l'.measurements = l.measurements
    BY <1>3, <1>10
  <2> QED  BY <2>1 DEF Saved, UsedOnce, JavadInv
<1>11. (\A m \in Saved' : JavadMeas(m)') /\ UsedOnce' /\ Saved \subseteq Saved'
  BY <1>8, <1>9, <1>10
<1>12. (sec <= ReadTo => JavadGather(l) /\ JavadAll(l))'
  BY <1>5, <1>6
<1>13. JavadInv'
  BY <1>3, <1>11, <1>12 DEF JavadInv
<1>14. ASSUME sec > 1, Due(sec - 1)' PROVE SavedWhole(sec - 1)'
  <2> PICK p : p = sec - 1
    OBVIOUS
  <2>1. Due(p)' /\ p + 1 = sec /\ rx' = "javad" /\ p \in Nat /\ p # 0
    BY <1>1, <1>14
  <2>2. Whole(p) /\ seen[p] # {} /\ p >= ReadFrom
    BY <1>1, <2>1, WholeThen DEF Due, Wanted
  <2>3. /\ JavadComplete(l) /\ \A r \in JavadRanges : l.cnt[r] <= 1
        /\ l.svmeas = RawOf(seen[p], p) /\ l.val["SI"].sec = p /\ l.pctime = p
    BY <1>2, <1>14, <2>2 DEF JavadAll
  <2>4. saves
    <3>1. JavadEnds(l) /\ ~JavadMany(l)
      BY <2>3, JavadSets DEF JavadEnds, JavadMany, JavadOnce
    <3> QED  BY <2>1, <2>2, <2>3, <3>1, RawOfSVs DEF saves
  <2>5. e \in Saved' /\ SVsIn(e.meas) = seen[p] /\ e.val["SI"].sec = p
    BY <1>9, <2>3, <2>4, RawOfSVs
  <2>6. \A m : SecondOf(m)' = m.val["SI"].sec
    BY <1>1, JavadHead DEF SecondOf
  <2>7. SavedWhole(p)'
    BY <1>1, <2>5, <2>6 DEF SavedWhole, SVsIn, Wanted
  <2> QED  BY <1>1, <2>7
<1> QED  BY <1>1, <1>11, <1>13, <1>14, SameSecond

\* What is remembered of a line that something happened to
LEMMA JavadHarms ==
  ASSUME Logging, rx = "javad", NEW it, NEW ln, Logs(it, ln), ln.q # "ok"
  PROVE  /\ ~Whole(sec)'
         /\ ln.q = "bad" => Gone(sec, it[1])'
         /\ it[1] = "RD" /\ ln.q # "bad" => Harmed(sec, "RD", {"size"})'
<1> PICK s : s = sec
  OBVIOUS
<1>1. sec' = s /\ [sec |-> s, id |-> it[1], how |-> Harm(it[1], ln.q)] \in harmed'
  BY DEF Logs, Handle
<1> PICK h : h = [sec |-> s, id |-> it[1], how |-> Harm(it[1], ln.q)]
  OBVIOUS
<1>2. h \in harmed' /\ h.sec = s /\ h.id = it[1] /\ h.how = Harm(it[1], ln.q)
  BY <1>1
<1>3. ~Whole(s)'
  BY <1>2 DEF Whole
<1>4. ln.q = "bad" => Gone(s, it[1])'
  <2>1. Harm(it[1], "bad") \in {"lost", "bad"}
    BY DEF Harm
  <2> QED  BY <1>2, <2>1 DEF Gone, Harmed
<1>5. it[1] = "RD" /\ ln.q # "bad" => Harmed(s, "RD", {"size"})'
  <2>1. ASSUME it[1] = "RD", ln.q # "bad" PROVE ln.q = "size"
    <3>1. ln.q \in Suffers("javad", "RD")
      BY <2>1 DEF Logs
    <3> QED  BY <2>1, <3>1 DEF Suffers
  <2>2. Harm("RD", "size") = "size"
    BY JavadHead DEF Harm
  <2> QED  BY <1>2, <2>1, <2>2 DEF Harmed
<1> QED  BY <1>1, <1>3, <1>4, <1>5

LEMMA JavadNewLine ==
  ASSUME Logging, rx = "javad", JavadInv, NotLost, NEW it, NEW ln, Logs(it, ln)
  PROVE  JavadInv' /\ NotLost'
<1>1. /\ OneLine(it) /\ ln.id = it[1] /\ ln.sec = sec /\ ln.st = sec /\ ln.svs = svs
      /\ ln = [id |-> ln.id, sec |-> ln.sec, q |-> ln.q, sv |-> ln.sv, svs |-> ln.svs, st |-> ln.st]
      /\ l' = JavadRead(l, ln)
  <2>1. l' = ReadLine(ln)
    BY DEF Logs, Handle
  <2>2. ReadLine(ln) = JavadRead(l, ln)
    BY Zenon DEF ReadLine
  <2> QED  BY <2>1, <2>2 DEF Logs, Handle, OneLine
<1>2. /\ sec \in Nat /\ sec > 0 /\ svs \subseteq SVs /\ ReadFrom \in Nat /\ ReadTo \in Nat
      /\ l \in LogState(JavadIds)
  <2>1. l \in LogState(JavadIds)
    BY DEF JavadInv
  <2> QED  BY <2>1, JavadNumbers
<1>3. it[1] \in JavadIds /\ Begun' /\ sec' = sec
  BY <1>1, JavadWaits DEF OneLine
<1>4. Whole(sec)' => ln.q = "ok"
  BY JavadHarms
<1>5. PICK b, c : b = l /\ c = l'
  OBVIOUS
<1>6. b \in LogState(JavadIds) /\ Older(b, sec) /\ (sec <= ReadTo => JavadGather(b) /\ JavadAll(b))
  BY <1>2, <1>5, JavadOlder DEF JavadInv
<1>7. c = JavadRead(b, ln)
  BY <1>1, <1>5
<1>8. ASSUME ~(Whole(sec)' /\ sec >= ReadFrom) PROVE \A d : JavadAll(d)'
  BY <1>3, <1>8 DEF JavadAll
<1>9. CASE ln.q = "bad" \/ sec \notin ReadFrom .. ReadTo
  <2>1. c = b
    BY <1>1, <1>2, <1>6, <1>7, <1>9, JavadReads
  <2>2. ASSUME sec <= ReadTo PROVE JavadGather(c)' /\ JavadAll(c)'
    <3>1. sec < ReadFrom \/ Gone(sec, it[1])'
      BY <1>2, <1>9, <2>2, JavadHarms
    <3>2. JavadGather(c)'
      BY <1>1, <1>6, <2>1, <2>2, <3>1, JavadPasses
    <3>3. ~(Whole(sec)' /\ sec >= ReadFrom)
      BY <1>2, <1>4, <1>9, <2>2
    <3> QED  BY <1>8, <3>2, <3>3
  <2>3. sec \in ReadFrom .. ReadTo => ~Whole(sec)'
    BY <1>4, <1>9
  <2>4. c \in LogState(JavadIds) /\ l' = c /\ c.measurements = l.measurements
    BY <1>5, <1>6, <2>1
  <2> QED  BY <1>1, <2>2, <2>3, <2>4, JavadQuiet
<1>10. CASE ln.q # "bad" /\ sec \in ReadFrom .. ReadTo
  <2>1. sec <= ReadTo /\ sec >= ReadFrom /\ JavadGather(b) /\ JavadAll(b)
    BY <1>2, <1>6, <1>10
  <2>2. CASE it[1] = "RD"
    <3>1. l' = JavadRD(l, ln)
      BY <1>1, <1>2, <1>10, <2>2, JavadReads
    <3>2. ln.q # "ok" => Harmed(sec, "RD", {"size"})'
      BY <1>10, <2>2, JavadHarms
    <3> QED  BY <1>1, <1>4, <1>10, <2>2, <3>1, <3>2, JavadHeadLine
  <2>3. CASE it[1] = "SI"
    <3>1. c = JavadSI(b, ln)
      BY <1>1, <1>2, <1>6, <1>7, <1>10, <2>3, JavadReads
    <3>2. /\ c \in LogState(JavadIds) /\ c.measurements = b.measurements /\ c.pctime = b.pctime
          /\ "SI" \in b.cur => /\ c.cur = {} /\ c.val = b.val
                               /\ \A i \in JavadIds : c.cnt[i] = 0
          /\ "SI" \notin b.cur => /\ c.cur = b.cur \cup {"SI"} /\ c.val["SI"] = From(ln)
                                  /\ \A i \in JavadIds \ {"SI"} : c.val[i] = b.val[i]
                                  /\ c.cnt = b.cnt /\ c.svmeas = RawOf(ln.svs, ln.sec)
      BY <1>1, <1>2, <1>6, <2>3, <3>1, JavadIndices
    <3>3. JavadGather(c)' /\ JavadAll(c)'
      <4>1. CASE "SI" \in b.cur
        <5>1. JavadGather(c)' /\ ~Whole(sec)'
          BY <1>1, <1>6, <2>1, <2>3, <3>2, <4>1, JavadVoids
        <5> QED  BY <1>8, <5>1
      <4>2. CASE "SI" \notin b.cur
        <5>1. c.val["SI"].sec = sec /\ c.svmeas = RawOf(svs, sec)
          BY <1>1, <3>2, <4>2 DEF From
        <5> QED  BY <1>1, <1>6, <2>1, <2>3, <3>2, <4>2, <5>1, JavadLists
      <4> QED  BY <4>1, <4>2
    <3>4. l' = c /\ c.measurements = l.measurements /\ it[1] # "RD"
      BY <1>5, <2>3, <3>2
    <3> QED  BY <1>1, <3>2, <3>3, <3>4, JavadQuiet
  <2>4. CASE it[1] \in JavadFields
    <3>1. c \in LogState(JavadIds) /\ JavadTaken(b, ln, c)
      BY <1>1, <1>2, <1>6, <1>7, <2>4, JavadReads
    <3>2. JavadGather(c)'
      BY <1>1, <1>2, <1>6, <2>1, <2>4, <3>1, JavadTakenKeeps
    <3>3. ASSUME Whole(sec)'
          PROVE  /\ it[1] \in JavadOffsets \cup JavadSized => it[1] \in c.cur
                 /\ it[1] \in JavadRanges => it[1] \in c.cur \/ \E i \in JavadFull(it[1]) : b.cnt[i] # 0
      <4>1. ln.q = "ok"
        BY <1>4, <3>3
      <4>2. it[1] \in JavadOffsets => it[1] \in c.cur
        BY <1>1, <1>2, <1>6, <1>7, <1>10, <4>1, JavadReads
      <4>3. ASSUME it[1] \in JavadSized \cup JavadRanges PROVE "SI" \in b.cur /\ JavadFits(b, ln)
        <5>1. ~Waits("SI") /\ Begun /\ Whole(sec)
          BY <1>1, <3>3, <4>3, JavadWaits, JavadYet, JavadKinds
        <5>2. "SI" \in b.cur /\ b.svmeas = RawOf(svs, sec)
          BY <2>1, <5>1 DEF JavadAll
        <5>3. IsFiniteSet(svs)
          BY <1>2, LogAssumption, FS_Subset
        <5>4. Cardinality(ln.svs) = Cardinality(b.svmeas)
          BY <1>1, <5>2, <5>3, RawOfCardinality
        <5> QED  BY <4>1, <5>2, <5>4 DEF JavadFits
      <4>4. it[1] \in JavadSized \cup JavadRanges =>
              /\ it[1] \in JavadSized => it[1] \in c.cur
              /\ it[1] \in JavadRanges => it[1] \in c.cur \/ \E i \in JavadFull(it[1]) : b.cnt[i] # 0
        BY <1>1, <1>2, <1>6, <1>7, <1>10, <4>3, JavadReads
      <4> QED  BY <4>2, <4>4
    <3>4. JavadAll(c)'
      BY <1>1, <1>6, <2>1, <2>4, <3>1, <3>3, JavadTakenAll
    <3>5. l' = c /\ c.measurements = l.measurements /\ it[1] # "RD"
      BY <1>5, <2>4, <3>1, JavadKinds DEF JavadTaken, JavadFields
    <3> QED  BY <1>1, <3>1, <3>2, <3>4, <3>5, JavadQuiet
  <2> QED  BY <1>3, <2>2, <2>3, <2>4, JavadKinds DEF JavadFields
<1> QED  BY <1>9, <1>10

LEMMA JavadNextSec ==
  ASSUME Logging, rx = "javad", JavadInv, NextSec
  PROVE  JavadInv'
<1>1. /\ sec \in Nat /\ sec > 0 /\ sec' = sec + 1 /\ todo = << >> /\ todo' = Sends(rx, svs)'
      /\ UNCHANGED <<rx, harmed, progress, l>> /\ ReadFrom \in Nat /\ ReadTo \in Nat
      /\ l \in LogState(JavadIds)
  <2>1. l \in LogState(JavadIds)
    BY DEF JavadInv
  <2> QED  BY <2>1, JavadNumbers DEF NextSec
<1>2. seen' = Append(seen, svs') /\ seen \in Seq(SUBSET SVs) /\ Len(seen) = sec /\ seen[sec] = svs
  BY DEF Logging, NextSec
<1>3. seen'[sec] = svs /\ sec' - 1 = sec
  BY <1>1, <1>2
<1>4. Begun /\ Pending = {} /\ ~Begun'
  <2>1. Groups(Sends(rx, svs))
    BY JavadSends
  <2>2. todo # Sends(rx, svs)
    BY <1>1, <2>1 DEF Groups
  <2> QED  BY <1>1, <2>2 DEF Pending, AllOf, Begun
<1>5. \A i : ~Waits(i)
  BY <1>4 DEF Waits
<1>6. \A i \in Range(JavadOrder) : Waits(i)'
  <2>1. PICK v : v = svs'
    OBVIOUS
  <2>2. todo' = Sends("javad", v)
    BY <1>1, <2>1
  <2>3. AllOf(todo') = {<<i, "-">> : i \in Range(JavadOrder)}
    BY <2>2, JavadSends
  <2> QED  BY <2>3 DEF Waits, Pending
<1>7. Saved' = Saved /\ UsedOnce'
  BY <1>1 DEF Saved, UsedOnce, JavadInv
<1>8. \A m \in Saved : JavadMeas(m)'
  <2>1. Saved \subseteq MeasOf(JavadIds)
    BY <1>1 DEF Saved, LogState
  <2> QED  BY <1>1, <2>1, JavadMeasStays DEF JavadInv
<1>9. /\ \A t, i : Gone(t, i)' <=> Gone(t, i)
      /\ \A s, a : JavadMixes(s, a)' <=> JavadMixes(s, a)
      /\ \A a : DateLate(a)' <=> DateLate(a)
      /\ \A s : Whole(s)' <=> Whole(s)
  BY <1>1 DEF Gone, Harmed, JavadMixes, DateLate, Whole
<1>10. \A t, i : Yet(t, i) => Gone(t, i)
  BY <1>5 DEF Yet
<1>11. PICK n : n = sec'
  OBVIOUS
<1>12. \A t, i : Yet(t, i)' <=> Gone(t, i) \/ (t = n /\ Waits(i)')
  BY <1>9, <1>11 DEF Yet
<1>13. Waits("RD")' /\ Waits("SI")'
  BY <1>6, JavadOrdered
<1>14. \A p \in Nat, i \in {"RD", "SI"} : (\A t \in p + 1 .. sec : Yet(t, i)) => \A t \in p + 1 .. n : Yet(t, i)'
  <2> SUFFICES ASSUME NEW p \in Nat, NEW i \in {"RD", "SI"}, \A t \in p + 1 .. sec : Yet(t, i),
                      NEW t \in p + 1 .. n
               PROVE  Yet(t, i)'
    OBVIOUS
  <2>1. CASE t = n
    BY <1>12, <1>13, <2>1
  <2>2. CASE t # n
    <3>1. t \in p + 1 .. sec
      BY <1>1, <1>11, <2>2
    <3> QED  BY <1>10, <1>12, <3>1
  <2> QED  BY <2>1, <2>2
<1>15. PICK b : b = l
  OBVIOUS
<1>16. /\ b.pctime \in Nat /\ b.cur \subseteq JavadIds
       /\ \A i \in JavadIds : b.val[i].sec \in Nat /\ b.cnt[i] \in Nat
  BY <1>1, <1>15, JavadNumbers
<1>17. ASSUME sec + 1 <= ReadTo PROVE JavadGather(b)' /\ JavadAll(b)'
  <2>1. JavadGather(b) /\ JavadAll(b)
    BY <1>1, <1>15, <1>17 DEF JavadInv
  <2>2. \A i \in b.cur : b.val[i].sec < n /\ Older(b, b.val[i].sec)
    BY <1>1, <1>11, <1>16, <2>1 DEF JavadGather
  <2>3. b.pctime < n /\ (n < ReadFrom => b.cur = {} /\ b.pctime = 0)
    BY <1>1, <1>11, <1>16, <2>1 DEF JavadGather
  <2>4. b.pctime # 0 => /\ \A t \in b.pctime + 1 .. n : Yet(t, "RD")'
                        /\ b.val["RD"].sec = b.pctime \/ DateLate(b.pctime)'
    BY <1>9, <1>14, <1>16, <2>1 DEF JavadGather
  <2>5. ASSUME "SI" \in b.cur PROVE JavadListing(b)'
    <3> PICK a : a = b.val["SI"].sec
      OBVIOUS
    <3>1. a \in Nat /\ a <= sec /\ a < n /\ JavadListing(b)
      BY <1>1, <1>11, <1>16, <2>1, <2>5 DEF JavadGather
    <3>2. \A t \in a + 1 .. n : Yet(t, "RD")' /\ Yet(t, "SI")'
      BY <1>14, <3>1 DEF JavadListing
    <3>3. \A r \in JavadRanges : b.cnt[r] > 1 => a < n /\ a + 1 < n
      BY <1>1, <1>11, <3>1 DEF JavadListing
    <3>4. /\ \A i \in b.cur : b.val[i].sec < a => JavadMixes(b.val[i].sec, a)'
          /\ b.pctime <= a /\ (b.pctime # 0 /\ b.pctime + 1 = a => Gone(a - 1, "SI")')
      BY <1>9, <3>1 DEF JavadListing
    <3> QED  BY <1>1, <1>11, <3>1, <3>2, <3>3, <3>4 DEF JavadListing
  <2>6. ASSUME "SI" \notin b.cur PROVE JavadUnlisted(b)'
    <3>1. JavadUnlisted(b)
      BY <2>1, <2>6 DEF JavadGather
    <3>2. ASSUME NEW i \in b.cur
          PROVE  /\ \A t \in b.val[i].sec + 1 .. n : Yet(t, "RD")'
                 /\ Yet(b.val[i].sec, "SI")' \/ Gone(b.val[i].sec, "RD")'
      <4> PICK s : s = b.val[i].sec
        OBVIOUS
      <4>1. s \in Nat /\ (\A t \in s + 1 .. sec : Yet(t, "RD")) /\ (Yet(s, "SI") \/ Gone(s, "RD"))
        BY <1>16, <3>1, <3>2 DEF JavadUnlisted
      <4>2. \A t \in s + 1 .. n : Yet(t, "RD")'
        BY <1>14, <4>1
      <4>3. Yet(s, "SI")' \/ Gone(s, "RD")'
        BY <1>9, <1>10, <1>12, <4>1
      <4> QED  BY <4>2, <4>3
    <3>3. Yet(n, "SI")'
      BY <1>12, <1>13
    <3>4. b.pctime # 0 /\ b.pctime + 1 = n => Gone(b.pctime, "SI")'
      <4>1. ASSUME b.pctime + 1 = n PROVE Gone(b.pctime, "SI")'
        <5>1. b.pctime = sec
          BY <1>1, <1>11, <1>16, <4>1
        <5>2. Yet(b.pctime, "SI")
          BY <3>1, <5>1 DEF JavadUnlisted
        <5> QED  BY <1>9, <1>10, <5>2
      <4> QED  BY <4>1
    <3>5. \A r \in JavadRanges : b.cnt[r] = 0
      BY <3>1 DEF JavadUnlisted
    <3> QED  BY <1>11, <2>3, <3>2, <3>3, <3>4, <3>5 DEF JavadUnlisted
  <2>7. JavadGather(b)'
    BY <1>1, <1>11, <1>16, <2>2, <2>3, <2>4, <2>5, <2>6 DEF JavadGather, Older
  <2>8. ASSUME Whole(sec), sec >= ReadFrom
        PROVE  /\ JavadComplete(b) /\ \A r \in JavadRanges : b.cnt[r] <= 1
               /\ b.svmeas = RawOf(svs, sec) /\ b.val["SI"].sec = sec /\ b.pctime = sec
    <3>1. /\ b.pctime = sec
          /\ "SI" \in b.cur /\ b.svmeas = RawOf(svs, sec) /\ b.val["SI"].sec = sec
          /\ \A i \in JavadOffsets \cup JavadSized : i \in b.cur
          /\ \A S \in JavadSignals : \A r \in S : r \in Range(JavadOrder) => S \cap b.cur # {}
          /\ \A r \in JavadRanges : b.cnt[r] <= 1
      BY <1>4, <1>5, <2>1, <2>8 DEF JavadAll
    <3>2. \A S \in JavadSignals : S \cap b.cur # {}
      BY <3>1, JavadOrderAssumption
    <3> QED  BY <3>1, <3>2 DEF JavadComplete
  <2>9. JavadAll(b)'
    BY <1>1, <1>3, <1>4, <1>9, <2>8 DEF JavadAll
  <2> QED  BY <2>7, <2>9
<1>18. (sec <= ReadTo => JavadGather(l) /\ JavadAll(l))'
  BY <1>1, <1>15, <1>17
<1> QED  BY <1>1, <1>7, <1>8, <1>18 DEF JavadInv

-----------------------------------------------------------------------------
(* The four receivers together *)

\* readLog() of the receiver that wrote this log
GatherInv ==
  /\ rx = "ublox" => UbloxInv
  /\ rx = "javad" => JavadInv
  /\ rx = "nvs" => NVSInv
  /\ rx = "resolution" => ResolutionInv

\* The pass over the sawtooth was made over what was saved
SawInv ==
  progress = "done" /\ returned =>
    /\ rx = "ublox" => saw = UbloxSawtooth(l)
    /\ rx = "nvs" => saw = NVSSawtooth(l)

ReadIInv == Logging /\ GatherInv /\ NotLost /\ SawInv

LEMMA ReadModels == Logging => rx \in {"ublox", "javad", "nvs", "resolution"}
BY ModelsAssumption DEF Logging

LEMMA ReadIInvInit == ReadInit => ReadIInv
<1> SUFFICES ASSUME ReadInit PROVE ReadIInv
  OBVIOUS
<1>1. GatherInv
  BY UbloxStart, JavadFresh, NVSStart, ResolutionStart DEF GatherInv
<1>2. NotLost /\ SawInv
  <2>1. sec = 1 /\ progress = "reading"
    BY DEF ReadInit
  <2> QED  BY <2>1 DEF NotLost, SawInv
<1> QED  BY <1>1, <1>2, LoggingInit DEF ReadIInv

LEMMA ReadIInvLine ==
  ASSUME ReadIInv, UbloxLine \/ JavadLine \/ NVSLine \/ ResolutionLine
  PROVE  GatherInv' /\ NotLost'
<1>1. NextLine \/ ParameterLine
  BY DEF UbloxLine, JavadLine, NVSLine, ResolutionLine
<1>2. rx \in {"ublox", "javad", "nvs", "resolution"} /\ Logging /\ GatherInv /\ NotLost
  BY ReadModels DEF ReadIInv
<1>3. ASSUME NEW it, NEW ln, Logs(it, ln) PROVE GatherInv' /\ NotLost'
  <2>1. rx' = rx
    BY <1>3 DEF Logs, Handle
  <2> QED  BY <1>2, <1>3, <2>1, UbloxNewLine, JavadNewLine, NVSNewLine, ResolutionNewLine DEF GatherInv
<1>4. ASSUME NEW ln, Informs(ln) PROVE GatherInv' /\ NotLost'
  <2>1. rx' = rx
    BY <1>4 DEF Informs, Handle
  <2> QED  BY <1>2, <1>4, <2>1, UbloxParameters, JavadParameters, NVSParameters, ResolutionParameters DEF GatherInv
<1> QED  BY <1>1, <1>2, <1>3, <1>4, LineLogs, ParameterInforms

LEMMA GatherInvSame ==
  ASSUME GatherInv, UNCHANGED <<rx, sec, svs, todo, stamp, seen, harmed, l>>,
         progress' = "reading" => progress = "reading"
  PROVE  GatherInv'
<1>1. UNCHANGED <<rx, sec, svs, todo, stamp, seen, harmed, l>>
      /\ (progress' = "reading" => progress = "reading")
  OBVIOUS
<1>3. Saved' = Saved
  BY <1>1 DEF Saved
<1>4. /\ \A s, id, hows : Harmed(s, id, hows)' <=> Harmed(s, id, hows)
      /\ \A s : Whole(s)' <=> Whole(s)
  BY <1>1 DEF Harmed, Whole
<1>5. rx = "ublox" /\ UbloxInv => UbloxInv'
  <2>1. UbloxGather => UbloxGather'
    BY <1>1, <1>3, <1>4 DEF UbloxGather, UbloxOf
  <2>2. UbloxAll => UbloxAll'
    BY <1>1, <1>4 DEF UbloxAll, Pending
  <2>3. \A m : UbloxMeas(m) => UbloxMeas(m)'
    BY <1>1, <1>4 DEF UbloxMeas, UbloxOf
  <2> QED  BY <1>1, <1>3, <2>1, <2>2, <2>3 DEF UbloxInv, Increasing
<1>6. rx = "resolution" /\ ResolutionInv => ResolutionInv'
  <2>1. \A s, id : Gone(s, id)' <=> Gone(s, id)
    BY <1>4 DEF Gone
  <2>2. ResolutionGather => ResolutionGather'
    BY <1>1, <1>3, <2>1 DEF ResolutionGather, ResolutionOf
  <2>3. ResolutionAll => ResolutionAll'
    BY <1>1, <1>4 DEF ResolutionAll, Pending, Spoils, Ranged
  <2>4. \A m : ResolutionMeas(m) => ResolutionMeas(m)'
    BY <1>1, <2>1 DEF ResolutionMeas, ResolutionOf
  <2> QED  BY <1>1, <1>3, <2>2, <2>3, <2>4 DEF ResolutionInv, UsedOnce
<1>7. rx = "nvs" /\ NVSInv => NVSInv'
  <2>1. \A b : NVSGather(b) => NVSGather(b)'
    BY <1>1 DEF NVSGather, NVSMeas, Pending
  <2>2. NVSGather(l) => NVSGather(l)'
    <3> PICK b : b = l
      OBVIOUS
    <3> QED  BY <1>1, <2>1
  <2>3. NVSAll => NVSAll'
    BY <1>1, <1>4 DEF NVSAll, NVSAfter, Pending
  <2> QED  BY <1>1, <2>2, <2>3 DEF NVSInv
<1>8. rx = "javad" /\ JavadInv => JavadInv'
  <2>1. (\A id : Waits(id)' <=> Waits(id)) /\ (Begun' <=> Begun) /\ (\A s, id : Gone(s, id)' <=> Gone(s, id))
        /\ (\A s, id : Yet(s, id)' <=> Yet(s, id)) /\ (\A s, a : JavadMixes(s, a)' <=> JavadMixes(s, a))
        /\ (\A a : DateLate(a)' <=> DateLate(a)) /\ (\A a : DateLost(a)' <=> DateLost(a))
    BY <1>1, <1>4 DEF Waits, Pending, Begun, Gone, Yet, JavadMixes, DateLate, DateLost
  <2>2. \A m : JavadMeas(m) => JavadMeas(m)'
    BY <1>1, <2>1 DEF JavadMeas
  <2>3. ASSUME NEW b, JavadGather(b) PROVE JavadGather(b)'
    <3>1. JavadListing(b) => JavadListing(b)'
      BY <1>1, <2>1 DEF JavadListing
    <3>2. JavadUnlisted(b) => JavadUnlisted(b)'
      BY <1>1, <2>1 DEF JavadUnlisted
    <3> QED  BY <1>1, <2>1, <2>3, <3>1, <3>2 DEF JavadGather, Older
  <2>4. \A b : JavadAll(b) => JavadAll(b)'
    BY <1>1, <1>4, <2>1 DEF JavadAll
  <2>5. (sec <= ReadTo => JavadGather(l) /\ JavadAll(l)) => (sec <= ReadTo => JavadGather(l) /\ JavadAll(l))'
    <3> PICK b : b = l
      OBVIOUS
    <3> QED  BY <1>1, <2>3, <2>4
  <2> QED  BY <1>1, <1>3, <2>2, <2>5 DEF JavadInv, UsedOnce
<1> QED  BY <1>1, <1>5, <1>6, <1>7, <1>8 DEF GatherInv

LEMMA ReadIInvEnd ==
  ASSUME ReadIInv, EndOfFile
  PROVE  GatherInv' /\ NotLost' /\ SawInv'
<1>1. UNCHANGED <<rx, sec, svs, todo, stamp, seen, harmed, l>> /\ progress = "reading"
      /\ progress' \in {"done", "aborted"}
  BY DEF EndOfFile
<1>2. NotLost'
  BY <1>1, AtEnd DEF ReadIInv
<1>9. GatherInv'
  BY <1>1, GatherInvSame DEF ReadIInv
<1>10. SawInv'
  <2>1. ASSUME progress' = "done", returned', rx = "ublox" PROVE saw' = UbloxSawtooth(l)
    <3>1. saw' = CASE rx = "ublox" -> UbloxSawtooth(l) [] rx = "nvs" -> NVSSawtooth(l) [] OTHER -> << >>
      BY <2>1, Zenon DEF EndOfFile
    <3>2. rx # "nvs"
      BY <2>1
    <3> QED  BY <2>1, <3>1, <3>2, Zenon
  <2>2. ASSUME progress' = "done", returned', rx = "nvs" PROVE saw' = NVSSawtooth(l)
    <3>1. saw' = CASE rx = "ublox" -> UbloxSawtooth(l) [] rx = "nvs" -> NVSSawtooth(l) [] OTHER -> << >>
      BY <2>2, Zenon DEF EndOfFile
    <3>2. rx # "ublox"
      BY <2>2
    <3> QED  BY <2>2, <3>1, <3>2, Zenon
  <2>3. UbloxSawtooth(l)' = UbloxSawtooth(l) /\ NVSSawtooth(l)' = NVSSawtooth(l)
    BY <1>1 DEF UbloxSawtooth, NVSSawtooth
  <2> QED  BY <1>1, <2>1, <2>2, <2>3 DEF SawInv
<1> QED  BY <1>2, <1>9, <1>10

LEMMA ReadIInvStep == ReadIInv /\ [ReadNext]_readVars => ReadIInv'
<1> SUFFICES ASSUME ReadIInv, [ReadNext]_readVars PROVE ReadIInv'
  OBVIOUS
<1>1. Logging'
  BY LoggingStep DEF ReadIInv
<1>2. rx \in {"ublox", "javad", "nvs", "resolution"} /\ Logging /\ GatherInv /\ NotLost
  BY ReadModels DEF ReadIInv
<1>3. CASE UbloxLine \/ JavadLine \/ NVSLine \/ ResolutionLine
  <2>1. progress' # "done"
    BY <1>3 DEF UbloxLine, JavadLine, NVSLine, ResolutionLine, NextLine, ParameterLine, Handle
  <2>2. SawInv'
    BY <2>1 DEF SawInv
  <2> QED  BY <1>1, <1>3, <2>2, ReadIInvLine DEF ReadIInv
<1>4. CASE Lose
  <2>1. rx' = rx /\ progress' = "reading"
    BY <1>4 DEF Lose
  <2>2. GatherInv' /\ NotLost'
    BY <1>2, <1>4, <2>1, UbloxLost, JavadLost, NVSLost, ResolutionLost DEF GatherInv
  <2> QED  BY <1>1, <2>1, <2>2 DEF ReadIInv, SawInv
<1>5. CASE NextSec
  <2>1. rx' = rx /\ progress' = "reading"
    BY <1>5 DEF NextSec
  <2>2. GatherInv'
    BY <1>2, <1>5, <2>1, UbloxNextSec, JavadNextSec, NVSNextSec, ResolutionNextSec DEF GatherInv
  <2>3. NotLost'
    BY <1>2, <1>5, NewSecond
  <2> QED  BY <1>1, <2>1, <2>2, <2>3 DEF ReadIInv, SawInv
<1>6. CASE EndOfFile
  BY <1>1, <1>6, ReadIInvEnd DEF ReadIInv
<1>7. CASE UNCHANGED readVars
  <2>1. UNCHANGED <<rx, sec, svs, todo, stamp, seen, harmed, progress, l, returned, saw>>
    BY <1>7 DEF readVars
  <2>2. GatherInv'
    BY <1>2, <2>1, GatherInvSame
  <2>3. UbloxSawtooth(l)' = UbloxSawtooth(l) /\ NVSSawtooth(l)' = NVSSawtooth(l)
    BY <2>1 DEF UbloxSawtooth, NVSSawtooth
  <2>4. SawInv'
    BY <2>1, <2>3 DEF ReadIInv, SawInv
  <2>5. (\A s : Whole(s)' <=> Whole(s)) /\ Saved' = Saved /\ (\A m : SecondOf(m)' = SecondOf(m))
    BY <2>1 DEF Whole, Saved, SecondOf
  <2>6. NotLost'
    BY <1>2, <2>1, <2>5 DEF NotLost, Wanted, Crowded
  <2> QED  BY <1>1, <2>2, <2>4, <2>6 DEF ReadIInv
<1> QED  BY <1>3, <1>4, <1>5, <1>6, <1>7 DEF ReadNext

-----------------------------------------------------------------------------
(* What the invariant says of the measurements *)

LEMMA TimedIds ==
  /\ Timed("ublox") = UbloxReqd /\ Timed("nvs") = NVSReqd /\ Timed("resolution") = ResolutionIds
  /\ Timed("javad") = {"SI"} \cup JavadOffsets \cup JavadSized
BY Zenon DEF Timed

LEMMA InSeconds ==
  ASSUME NEW m, NEW s \in SecondsIn(m)
  PROVE  (\E i \in Timed(rx) : s = m.val[i].sec) \/ (\E v \in m.meas : s = v.sec)
BY DEF SecondsIn

LEMMA InvFreshDate == ReadIInv => FreshDate
<1> SUFFICES ASSUME ReadIInv, rx = "javad", NEW m \in Saved
             PROVE  LET s == SecondOf(m)
                        lost == Gone(s, "RD") /\ (Gone(s - 1, "SI") \/ Gone(s - 1, "RD"))
                        many == DualFrequency /\ Gone(s - 1, "RD") /\ Gone(s - 1, "SI")
                    IN  /\ m.val["RD"].sec # s => lost \/ Harmed(s, "RD", {"size"}) \/ many
                        /\ m.pc # s => lost
  BY DEF FreshDate
<1>1. JavadMeas(m) /\ SecondOf(m) = m.val["SI"].sec
  BY JavadHead DEF ReadIInv, GatherInv, JavadInv
<1> QED  BY <1>1 DEF JavadMeas, DateLost, DateLate

LEMMA InvOneSecondEach == ReadIInv => OneSecond
<1> SUFFICES ASSUME ReadIInv PROVE OneSecond
  OBVIOUS
<1> DEFINE Mix(m, s) ==
          CASE rx = "ublox" -> Harmed(s, "0215", {"lost"})
            [] rx = "javad" -> JavadMixes(s, SecondOf(m))
            [] rx = "resolution" ->
                  /\ Gone(s, "8fab")
                  /\ \A v, w \in m.meas : v.sv = w.sv => v = w
            [] rx = "nvs" -> \A i \in NVSReqd : m.val[i].st = m.pc
<1>1. rx \in {"ublox", "javad", "nvs", "resolution"} /\ GatherInv
  BY ReadModels DEF ReadIInv
<1>2. ASSUME NEW m \in Saved, NEW s \in SecondsIn(m), s # SecondOf(m)
      PROVE  Mix(m, s)
  <2>1. (\E i \in Timed(rx) : s = m.val[i].sec) \/ (\E v \in m.meas : s = v.sec)
    BY InSeconds
  <2>2. CASE rx = "ublox"
    <3>1. UbloxMeas(m) /\ SecondOf(m) = m.val["0215"].sec
      BY <1>1, <2>2, UbloxHead DEF GatherInv, UbloxInv
    <3>2. Harmed(s, "0215", {"lost"})
      BY <1>2, <2>1, <2>2, <3>1, TimedIds DEF UbloxMeas, UbloxOf
    <3> QED  BY <2>2, <3>2, Zenon
  <2>3. CASE rx = "javad"
    <3>1. JavadMeas(m) /\ SecondOf(m) = m.val["SI"].sec
      BY <1>1, <2>3, JavadHead DEF GatherInv, JavadInv
    <3>2. JavadMixes(s, SecondOf(m))
      BY <1>2, <2>1, <2>3, <3>1, TimedIds DEF JavadMeas
    <3>3. rx # "ublox"
      BY <2>3
    <3> QED  BY <2>3, <3>2, <3>3, Zenon
  <2>4. CASE rx = "resolution"
    <3>1. ResolutionMeas(m) /\ SecondOf(m) = m.val["8fab"].sec /\ ResolutionIds = {"8fab", "8fac"}
      BY <1>1, <2>4, ResolutionHead DEF GatherInv, ResolutionInv
    <3>2. Gone(s, "8fab") /\ \A v, w \in m.meas : v.sv = w.sv => v = w
      BY <1>2, <2>1, <2>4, <3>1, TimedIds DEF ResolutionMeas, ResolutionOf
    <3>3. rx # "ublox" /\ rx # "javad"
      BY <2>4
    <3> QED  BY <2>4, <3>2, <3>3, Zenon
  <2>5. CASE rx = "nvs"
    <3>1. PICK k \in DOMAIN l.measurements : m = l.measurements[k]
      BY DEF Saved
    <3>2. NVSMeas(m)
      BY <1>1, <2>5, <3>1 DEF GatherInv, NVSInv, NVSGather
    <3>3. \A i \in NVSReqd : m.val[i].st = m.pc
      BY <3>2 DEF NVSMeas
    <3>4. rx # "ublox" /\ rx # "javad" /\ rx # "resolution"
      BY <2>5
    <3> QED  BY <2>5, <3>3, <3>4, Zenon
  <2> QED  BY <1>1, <2>2, <2>3, <2>4, <2>5
<1>3. \A m \in Saved : \A s \in SecondsIn(m) \ {SecondOf(m)} : Mix(m, s)
  BY <1>2
<1> QED  BY <1>3, InvFreshDate, Zenon DEF OneSecond

LEMMA LaterOnce ==
  ASSUME NEW id, Ascending(l.measurements, id), DOMAIN l.measurements \subseteq Nat,
         \A i \in DOMAIN l.measurements :
            /\ l.measurements[i].val[id].sec \in Nat
            /\ \A v \in l.measurements[i].meas : v.sec = l.measurements[i].val[id].sec
  PROVE  UsedOnce
<1>1. ASSUME NEW i \in DOMAIN l.measurements, NEW j \in DOMAIN l.measurements, i # j
      PROVE  l.measurements[i].val[id].sec # l.measurements[j].val[id].sec
  <2>1. i < j \/ j < i
    BY <1>1
  <2> QED  BY <2>1 DEF Ascending
<1> QED  BY <1>1 DEF UsedOnce

LEMMA InvUsedOnce == ReadIInv => UsedOnce
<1> SUFFICES ASSUME ReadIInv PROVE UsedOnce
  OBVIOUS
<1>1. rx \in {"ublox", "javad", "nvs", "resolution"} /\ GatherInv
  BY ReadModels DEF ReadIInv
<1>2. CASE rx = "ublox"
  <2>1. l \in LogState(UbloxReqd) /\ Increasing("0215") /\ \A m \in Saved : UbloxMeas(m)
    BY <1>1, <1>2 DEF GatherInv, UbloxInv
  <2>2. \A i \in DOMAIN l.measurements : UbloxMeas(l.measurements[i])
    BY <2>1 DEF Saved
  <2>3. DOMAIN l.measurements \subseteq Nat
    BY <2>1 DEF LogState
  <2> QED  BY <2>1, <2>2, <2>3, LaterOnce DEF Increasing, UbloxMeas
<1>3. CASE rx = "nvs"
  <2>1. l \in LogState(NVSReqd) /\ NVSGather(l) /\ "F5" \in NVSReqd
    BY <1>1, <1>3, NVSHead DEF GatherInv, NVSInv
  <2>2. DOMAIN l.measurements \subseteq Nat
        /\ \A i \in DOMAIN l.measurements : l.measurements[i] \in MeasOf(NVSReqd)
    BY <2>1 DEF LogState
  <2>3. \A i \in DOMAIN l.measurements : l.measurements[i].val["F5"].sec \in Nat
    BY <2>1, <2>2, MeasNumbers
  <2> QED  BY <2>1, <2>2, <2>3, LaterOnce DEF NVSGather, NVSMeas
<1> QED  BY <1>1, <1>2, <1>3 DEF GatherInv, JavadInv, ResolutionInv

LEMMA FourFinite ==
  ASSUME NEW a, NEW b, NEW c, NEW d
  PROVE  IsFiniteSet({a, b, c, d})
<1>1. IsFiniteSet({a})
  BY FS_Singleton
<1>2. IsFiniteSet({a} \cup {b})
  BY <1>1, FS_AddElement
<1>3. IsFiniteSet(({a} \cup {b}) \cup {c})
  BY <1>2, FS_AddElement
<1>4. IsFiniteSet((({a} \cup {b}) \cup {c}) \cup {d})
  BY <1>3, FS_AddElement
<1>5. (({a} \cup {b}) \cup {c}) \cup {d} = {a, b, c, d}
  OBVIOUS
<1> QED  BY <1>4, <1>5

\* The fields ids of a measurement have the second of its pseudoranges
OfRanges(m, ids, head) == \A i \in ids : m.val[i].sec = m.val[head].sec

\* They do when there is only one second in it
LEMMA SameSeconds ==
  ASSUME rx \in {"ublox", "nvs"}, NEW m, NEW head,
         \A v \in m.meas : v.sec = m.val[head].sec, head \in Timed(rx), Cardinality(SecondsIn(m)) = 1
  PROVE  OfRanges(m, Timed(rx), head)
<1>1. PICK a, b, c, d : Timed(rx) = {a, b, c, d}
  BY TimedIds, ZenonT(40) DEF UbloxReqd, NVSReqd
<1>2. SecondsIn(m) \subseteq {m.val[a].sec, m.val[b].sec, m.val[c].sec, m.val[d].sec}
  BY <1>1 DEF SecondsIn
<1>3. IsFiniteSet(SecondsIn(m))
  BY <1>2, FourFinite, FS_Subset
<1>4. PICK x : SecondsIn(m) = {x}
  BY <1>3, FS_Singleton
<1>5. \A i \in Timed(rx) : m.val[i].sec \in SecondsIn(m)
  BY DEF SecondsIn
<1> QED  BY <1>4, <1>5 DEF OfRanges

\* Seconds that increase
Climbs(t, n) ==
  /\ \A i \in 1 .. n : t[i] \in Nat
  /\ \A i, j \in 1 .. n : i < j => t[i] < t[j]

\* The pass over corrections given in increasing seconds t takes that of the second before
LEMMA Realigns ==
  ASSUME NEW n \in Nat, NEW t, Climbs(t, n),
         NEW a, DOMAIN a = 1 .. n, \A i \in 1 .. n : a[i] = t[i],
         NEW b, DOMAIN b = 1 .. n, \A i \in 1 .. n : b[i] = t[i]
  PROVE  /\ DOMAIN Realigned(a, b) = 1 .. n
         /\ \A i \in 1 .. n : Realigned(a, b)[i] = IF \E j \in 1 .. n : t[j] = t[i] - 1
                                                   THEN t[i] - 1 ELSE t[i]
<1> USE DEF Climbs
<1>1. DOMAIN Realigned(a, b) = 1 .. n
  BY DEF Realigned
<1>2. ASSUME NEW i \in 1 .. n
      PROVE  Realigned(a, b)[i] = IF \E j \in 1 .. n : t[j] = t[i] - 1 THEN t[i] - 1 ELSE t[i]
  <2>1. Realigned(a, b)[i] = IF i > 1 /\ b[i] = b[i - 1] + 1 THEN a[i - 1] ELSE a[i]
    BY DEF Realigned
  <2>2. t[i] \in Nat /\ a[i] = t[i] /\ b[i] = t[i] /\ i \in Nat
    OBVIOUS
  <2>3. i > 1 => i - 1 \in 1 .. n /\ t[i - 1] \in Nat /\ a[i - 1] = t[i - 1] /\ b[i - 1] = t[i - 1]
    OBVIOUS
  <2>4. CASE i > 1 /\ t[i] = t[i - 1] + 1
    <3>1. t[i - 1] = t[i] - 1 /\ i - 1 \in 1 .. n
      BY <2>2, <2>3, <2>4
    <3> QED  BY <2>1, <2>2, <2>3, <2>4, <3>1
  <2>5. CASE ~(i > 1 /\ t[i] = t[i - 1] + 1)
    <3>1. ASSUME NEW j \in 1 .. n, t[j] = t[i] - 1 PROVE FALSE
      <4>1. t[j] \in Nat /\ t[j] + 1 = t[i] /\ j \in Nat
        BY <2>2, <3>1
      <4>2. j < i
        <5>1. i # j /\ ~(i < j)
          BY <2>2, <4>1
        <5> QED  BY <2>2, <4>1, <5>1
      <4>3. i > 1 /\ j # i - 1
        BY <2>2, <2>5, <4>1, <4>2
      <4>4. j < i - 1 /\ i - 1 < i /\ i - 1 \in 1 .. n
        BY <2>2, <4>1, <4>2, <4>3
      <4>5. t[j] < t[i - 1] /\ t[i - 1] < t[i]
        BY <4>4
      <4> QED  BY <2>2, <2>3, <4>1, <4>3, <4>5
    <3>2. Realigned(a, b)[i] = t[i]
      BY <2>1, <2>2, <2>3, <2>5
    <3> QED  BY <3>1, <3>2
  <2> QED  BY <2>4, <2>5
<1> QED  BY <1>1, <1>2

\* The pass over the sawtooth fields of the measurements, when each is of one second
LEMMA PulseBefore ==
  ASSUME NEW ids, l \in LogState(ids), NEW head \in ids, NEW pulse \in ids, NEW utc \in ids,
         Ascending(l.measurements, head), \A m : SecondOf(m) = m.val[head].sec,
         \A m \in Saved : \A i \in ids : m.val[i].sec = m.val[head].sec
  PROVE  LET S == Realigned(SecondsOf(pulse, l.measurements), SecondsOf(utc, l.measurements))
         IN  \A i \in DOMAIN S :
                LET s == SecondOf(l.measurements[i])
                IN  S[i] = IF \E n \in Saved : SecondOf(n) = s - 1 THEN s - 1 ELSE s
<1> DEFINE q == l.measurements
           a == SecondsOf(pulse, q)
           b == SecondsOf(utc, q)
           t == SecondsOf(head, q)
           S == Realigned(a, b)
<1>1. PICK n \in Nat : n = Len(q) /\ DOMAIN q = 1 .. n /\ \A i \in 1 .. n : q[i] \in MeasOf(ids)
  BY DEF LogState
<1>2. \A i \in 1 .. n : q[i] \in Saved
  BY <1>1 DEF Saved
<1>3. DOMAIN a = 1 .. n /\ \A i \in 1 .. n : a[i] = q[i].val[pulse].sec
  BY <1>1 DEF SecondsOf
<1>4. DOMAIN b = 1 .. n /\ \A i \in 1 .. n : b[i] = q[i].val[utc].sec
  BY <1>1 DEF SecondsOf
<1>5. \A i \in 1 .. n : t[i] = q[i].val[head].sec
  BY <1>1 DEF SecondsOf
<1> HIDE DEF a, b, t
<1>6. \A i \in 1 .. n : a[i] = t[i] /\ b[i] = t[i]
  BY <1>2, <1>3, <1>4, <1>5
<1>7. \A i \in 1 .. n : t[i] \in Nat
  BY <1>1, <1>5, MeasNumbers
<1>8. \A i, j \in 1 .. n : i < j => t[i] < t[j]
  BY <1>1, <1>5 DEF Ascending
<1>9. /\ DOMAIN S = 1 .. n
      /\ \A i \in 1 .. n : S[i] = IF \E j \in 1 .. n : t[j] = t[i] - 1 THEN t[i] - 1 ELSE t[i]
  <2>1. DOMAIN a = 1 .. n /\ (\A i \in 1 .. n : a[i] = t[i]) /\ (\A i \in 1 .. n : b[i] = t[i])
    BY <1>3, <1>6
  <2>2. Climbs(t, n) /\ DOMAIN b = 1 .. n
    BY <1>4, <1>7, <1>8 DEF Climbs
  <2> QED  BY <2>1, <2>2, Realigns
<1> HIDE DEF S
<1>10. ASSUME NEW i \in DOMAIN S
       PROVE  S[i] = IF \E m \in Saved : SecondOf(m) = SecondOf(q[i]) - 1
                     THEN SecondOf(q[i]) - 1 ELSE SecondOf(q[i])
  <2>1. SecondOf(q[i]) = t[i] /\ i \in 1 .. n
    BY <1>5, <1>9
  <2>2. (\E m \in Saved : SecondOf(m) = t[i] - 1) <=> (\E j \in 1 .. n : t[j] = t[i] - 1)
    <3>1. \A m : m \in Saved <=> \E j \in 1 .. n : m = q[j]
      BY <1>1 DEF Saved
    <3>2. \A j \in 1 .. n : SecondOf(q[j]) = t[j]
      BY <1>5
    <3> QED  BY <3>1, <3>2
  <2> QED  BY <1>9, <2>1, <2>2
<1> QED  BY <1>10 DEF S, a, b

LEMMA InvSawtooth == ReadIInv => SawtoothOfPulse
<1> SUFFICES ASSUME ReadIInv, progress = "done", returned,
                    rx = "ublox" \/ (rx = "nvs" /\ NextSecond),
                    \A n \in Saved : Cardinality(SecondsIn(n)) = 1
             PROVE  \A i \in DOMAIN saw :
                       LET s == SecondOf(l.measurements[i])
                       IN  saw[i] = IF \E n \in Saved : SecondOf(n) = s - 1 THEN s - 1 ELSE s
  BY DEF SawtoothOfPulse
<1>1. GatherInv /\ SawInv
  BY DEF ReadIInv
<1>2. CASE rx = "ublox"
  <2>1. /\ l \in LogState(UbloxReqd) /\ Increasing("0215") /\ \A m \in Saved : UbloxMeas(m)
        /\ \A m : SecondOf(m) = m.val["0215"].sec
        /\ saw = UbloxSawtooth(l)
    BY <1>1, <1>2, UbloxHead DEF GatherInv, UbloxInv, SawInv
  <2>2. Timed(rx) = UbloxReqd /\ UbloxReqd = {"0215", "0121", "0122", "0d01"}
    BY <1>2, TimedIds DEF UbloxReqd
  <2>3. \A m \in Saved : \A i \in UbloxReqd : m.val[i].sec = m.val["0215"].sec
    <3> SUFFICES ASSUME NEW m \in Saved PROVE \A i \in UbloxReqd : m.val[i].sec = m.val["0215"].sec
      OBVIOUS
    <3>1. (\A v \in m.meas : v.sec = m.val["0215"].sec) /\ Cardinality(SecondsIn(m)) = 1
      BY <2>1 DEF UbloxMeas
    <3>2. "0215" \in Timed(rx) /\ rx \in {"ublox", "nvs"}
      BY <1>2, <2>2
    <3>3. OfRanges(m, Timed(rx), "0215")
      BY <3>1, <3>2, SameSeconds
    <3> QED  BY <2>2, <3>3 DEF OfRanges
  <2>4. "0215" \in UbloxReqd /\ "0d01" \in UbloxReqd /\ "0121" \in UbloxReqd
    BY <2>2
  <2>5. saw = Realigned(SecondsOf("0d01", l.measurements), SecondsOf("0121", l.measurements))
    BY <2>1 DEF UbloxSawtooth
  <2> QED  BY <2>1, <2>3, <2>4, <2>5, PulseBefore DEF Increasing
<1>3. CASE rx = "nvs" /\ NextSecond
  <2>1. /\ l \in LogState(NVSReqd) /\ NVSGather(l) /\ Ascending(l.measurements, "F5")
        /\ \A m : SecondOf(m) = m.val["F5"].sec
        /\ saw = NVSSawtooth(l)
    BY <1>1, <1>3, NVSHead DEF GatherInv, NVSInv, NVSGather, SawInv
  <2>2. Timed(rx) = NVSReqd /\ NVSReqd = {"F5", "46", "72", "74"}
    BY <1>3, TimedIds DEF NVSReqd
  <2>3. \A m \in Saved : \A v \in m.meas : v.sec = m.val["F5"].sec
    BY <2>1 DEF NVSGather, NVSMeas, Saved
  <2>4. \A m \in Saved : \A i \in NVSReqd : m.val[i].sec = m.val["F5"].sec
    <3> SUFFICES ASSUME NEW m \in Saved PROVE \A i \in NVSReqd : m.val[i].sec = m.val["F5"].sec
      OBVIOUS
    <3>1. (\A v \in m.meas : v.sec = m.val["F5"].sec) /\ Cardinality(SecondsIn(m)) = 1
      BY <2>3
    <3>2. "F5" \in Timed(rx) /\ rx \in {"ublox", "nvs"}
      BY <1>3, <2>2
    <3>3. OfRanges(m, Timed(rx), "F5")
      BY <3>1, <3>2, SameSeconds
    <3> QED  BY <2>2, <3>3 DEF OfRanges
  <2>5. "F5" \in NVSReqd /\ "72" \in NVSReqd
    BY <2>2
  <2>6. saw = Realigned(SecondsOf("72", l.measurements), SecondsOf("F5", l.measurements))
    BY <1>3, <2>1 DEF NVSSawtooth
  <2> QED  BY <2>1, <2>4, <2>5, <2>6, PulseBefore
<1> QED  BY <1>2, <1>3

(***************************************************************************)
(* What each readLog() has gathered after any prefix of any log: which     *)
(* seconds its locals and what it saved can come from, given the lines     *)
(* that were lost or damaged, and that a whole second is in the locals     *)
(* until the message that saves it.                                        *)
(***************************************************************************)
THEOREM ReadInvariant == ReadSpec => []ReadIInv
BY ReadIInvInit, ReadIInvStep, PTL DEF ReadSpec

(***************************************************************************)
(* No readLog() loses a second for nothing: however the log was damaged    *)
(* before, a second whose lines and those of the next are whole is saved,  *)
(* with all its satellites (on a Resolution all of GPS; for NVS when the   *)
(* second before had one too).  It is lost only by having more of them     *)
(* than there is room for.                                                 *)
(***************************************************************************)
THEOREM ReadKeepsSeconds == ReadSpec => []NotLost
<1>1. ReadIInv => NotLost
  BY DEF ReadIInv
<1> QED  BY <1>1, ReadInvariant, PTL

(***************************************************************************)
(* A ReceiverMeasurement is made of one second, and its date is that of    *)
(* this second, unless exactly the messages that readLog() needs to tell   *)
(* the seconds apart were lost.                                            *)
(***************************************************************************)
THEOREM ReadOneSecond == ReadSpec => []OneSecond
BY InvOneSecondEach, ReadInvariant, PTL

(***************************************************************************)
(* Whatever is lost or damaged, no readLog() puts a pseudorange in two     *)
(* measurements.                                                           *)
(***************************************************************************)
THEOREM ReadUsesOnce == ReadSpec => []UsedOnce
BY InvUsedOnce, ReadInvariant, PTL

(***************************************************************************)
(* The pass over the saved measurements of ublox and NVS gives each the    *)
(* sawtooth correction of its own pulse whenever that was saved, and its   *)
(* own otherwise, across any gaps in the log.                              *)
(***************************************************************************)
THEOREM ReadSawtooth == ReadSpec => []SawtoothOfPulse
BY InvSawtooth, ReadInvariant, PTL

=============================================================================
