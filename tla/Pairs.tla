------------------------------- MODULE Pairs --------------------------------
(***************************************************************************)
(* The two logs that mktimetx works from - the receiver's and the time     *)
(* interval counter's - and how Application::matchMeasurements() puts them *)
(* together.  Both loggers stamp what they read with the PC's clock, which *)
(* steps; a reading can be lost, and a message of the receiver can stay in *)
(* a buffer until the next second.  An entry of a log is [pc, t]: the PC   *)
(* second it is stamped with and the true second it belongs to (for the    *)
(* receiver, the time inside the message).                                 *)
(***************************************************************************)
EXTENDS Integers, FiniteSets

CONSTANTS
    Day,            \* seconds in a day
    Shifts,         \* what the PC clock can be wrong by
    MaxFaults       \* at most so many steps of the clock and lost or late readings

ASSUME DayAssumption == Day \in Nat \ {0}
ASSUME ShiftsAssumption == Shifts \subseteq Int /\ 0 \in Shifts
ASSUME MaxFaultsAssumption == MaxFaults \in Nat

VARIABLES
    now,            \* true (UTC) second of the day
    shift,          \* PC clock minus true time
    clock,          \* what the PC clock said at every second so far
    counterFile, receiverFile,
    counterLost, receiverLost, receiverLate, \* seconds whose reading was lost, or late
    stepped,        \* the PC clock was stepped so many times
    phase,          \* "logging", "matched", "tracked", "written" or "crashed"
    mpairs          \* flags of every PC second, and the measurements

logVars == <<now, shift, clock, counterFile, receiverFile,
             counterLost, receiverLost, receiverLate, stepped>>

Seconds == 0 .. Day - 1

Entry == [pc : Seconds, t : Seconds]

Flags == {"counter", "receiver", "counterDuplicate", "receiverDuplicate"}

\* A day's log has the entries that the PC clock put in that day
Logged(pc, t) == IF pc \in Seconds THEN {[pc |-> pc, t |-> t]} ELSE {}

NoPair == [flags |-> {}]

----------------------------------------------------------------------------
PairsInit ==
    /\ now = 0
    /\ shift = 0
    /\ clock = [t \in {} |-> 0]
    /\ counterFile = {} /\ receiverFile = {}
    /\ counterLost = {} /\ receiverLost = {} /\ receiverLate = {}
    /\ stepped = 0
    /\ phase = "logging"
    /\ mpairs = [s \in Seconds |-> NoPair]

Faults ==
    Cardinality(counterLost) + Cardinality(receiverLost) + Cardinality(receiverLate) + stepped

Pass ==
    /\ phase = "logging"
    /\ now \in Seconds
    /\ now' = now + 1
    /\ clock' = [t \in 0 .. now |-> IF t = now THEN now + shift ELSE clock[t]]
    /\ UNCHANGED <<shift, stepped, phase, mpairs>>

\* Both instruments are read
Second ==
    /\ Pass
    /\ counterFile' = counterFile \cup Logged(now + shift, now)
    /\ receiverFile' = receiverFile \cup Logged(now + shift, now)
    /\ UNCHANGED <<counterLost, receiverLost, receiverLate>>

LoseCounter ==
    /\ Pass
    /\ Faults < MaxFaults
    /\ receiverFile' = receiverFile \cup Logged(now + shift, now)
    /\ counterLost' = counterLost \cup {now}
    /\ UNCHANGED <<counterFile, receiverLost, receiverLate>>

LoseReceiver ==
    /\ Pass
    /\ Faults < MaxFaults
    /\ counterFile' = counterFile \cup Logged(now + shift, now)
    /\ receiverLost' = receiverLost \cup {now}
    /\ UNCHANGED <<receiverFile, counterLost, receiverLate>>

LateReceiver ==
    /\ Pass
    /\ Faults < MaxFaults
    /\ counterFile' = counterFile \cup Logged(now + shift, now)
    /\ receiverFile' = receiverFile \cup Logged(now + shift + 1, now)
    /\ receiverLate' = receiverLate \cup {now}
    /\ UNCHANGED <<counterLost, receiverLost>>

StepClock(d) ==
    /\ phase = "logging"
    /\ now \in Seconds
    /\ Faults < MaxFaults
    /\ d # shift
    /\ shift' = d
    /\ stepped' = stepped + 1
    /\ UNCHANGED <<now, clock, counterFile, receiverFile,
                   counterLost, receiverLost, receiverLate, phase, mpairs>>

Log ==
    \/ Second \/ LoseCounter \/ LoseReceiver \/ LateReceiver
    \/ \E d \in Shifts : StepClock(d)

----------------------------------------------------------------------------
\* readLog() of either: the entries stamped in a window
Read(file, from, to) == {e \in file : e.pc \in from .. to}

\* The entries of a log for one PC second: one is flagged, more are duplicates
At(log, s) == {e \in log : e.pc = s}

\* (Mutant) the last of several receiver messages is used, as a comment there says
FlagsAtLast(C, R) == {f \in Flags :
        \/ f = "counter"           /\ C # {}
        \/ f = "receiver"          /\ R # {}
        \/ f = "counterDuplicate"  /\ \E c, d \in C : c # d}

FlagsAt(C, R) ==
    {f \in Flags :
        \/ f = "counter"           /\ C # {}
        \/ f = "receiver"          /\ R # {}
        \/ f = "counterDuplicate"  /\ \E c, d \in C : c # d
        \/ f = "receiverDuplicate" /\ \E c, d \in R : c # d}

Matching(flags) == flags = {"counter", "receiver"}

PairAt(C, R) ==
    IF Matching(FlagsAt(C, R))
    THEN [flags |-> FlagsAt(C, R), cm |-> CHOOSE c \in C : TRUE, rm |-> CHOOSE r \in R : TRUE]
    ELSE [flags |-> FlagsAt(C, R)]

matchMeasurements(cntr, rx) == [s \in Seconds |-> PairAt(At(cntr, s), At(rx, s))]

Paired == {s \in Seconds : Matching(mpairs[s].flags)}

----------------------------------------------------------------------------
PairsTypeOK ==
    /\ now \in 0 .. Day
    /\ shift \in Shifts
    /\ clock \in [0 .. now - 1 -> Int]
    /\ counterFile \subseteq Entry /\ receiverFile \subseteq Entry
    /\ counterLost \subseteq 0 .. now - 1
    /\ receiverLost \subseteq 0 .. now - 1
    /\ receiverLate \subseteq 0 .. now - 1
    /\ stepped \in Nat
    /\ phase \in {"logging", "matched", "tracked", "written", "crashed"}
    /\ DOMAIN mpairs = Seconds
    /\ \A s \in Seconds :
          /\ mpairs[s].flags \subseteq Flags
          /\ Matching(mpairs[s].flags) => {mpairs[s].cm, mpairs[s].rm} \subseteq Entry

\* A pair is of one and the same second.  After the clock stepped back this can
\* fail only where the counter has no reading of the receiver's second and the
\* receiver none of the counter's: otherwise one of them is a duplicate there.
OneSecondPairs ==
    \A s \in Paired :
        LET c == mpairs[s].cm.t
            r == mpairs[s].rm.t
        IN  \/ c = r
            \/ r \in receiverLate
            \/ r \in counterLost /\ c \in receiverLost \cup receiverLate

\* Nothing but what is lost, late, or stamped with a second that the clock
\* showed twice is left out of the pairs
SteadyClockPairs ==
    (phase # "logging" /\ shift = 0 /\ stepped = 0)
        => \A t \in Seconds \ (counterLost \cup receiverLost) :
              \/ t \in receiverLate \/ t - 1 \in receiverLate
              \/ t \in Paired /\ mpairs[t].rm.t = t /\ mpairs[t].cm.t = t
=============================================================================
