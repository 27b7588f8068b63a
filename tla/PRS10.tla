------------------------------- MODULE PRS10 -------------------------------
(***************************************************************************)
(* A PRS10 rubidium standard on a serial line, the program prs10c that     *)
(* steers it, and the logger prs10log that polls its status.  A query      *)
(* waits 100 ms for a line and takes the first that is there: an answer    *)
(* that comes later is taken for that of the next query.  Both programs    *)
(* lock the port with lockport.                                            *)
(***************************************************************************)
EXTENDS Integers, Sequences, FiniteSets

CONSTANTS
    MO, SF,         \* magnetic offsets and frequency offsets the unit allows
    Steers,         \* frequency changes the user asks for
    MaxDay,         \* days to look at
    MaxMishaps      \* at most so many kinds of mishap

ASSUME PRS10Assumption == MO \subseteq Nat /\ SF \subseteq Int /\ Steers \subseteq Int

VARIABLES
    unit,       \* the standard: mo, sf, pl, stored (mo in the EEPROM), flags of the status
    due,        \* its answers that have not come yet
    line,       \* answers in the input queue of the port
    s,          \* PRS10Settings: what prs10c believes
    todo,       \* what prs10c is about to do
    user,       \* prs10c: "none", "menu" (waits for the user), "busy"
    logger,     \* prs10log runs
    lock,       \* who is in the lock file of the port, or "free"
    told,       \* the last line "MO = .. written to EEPROM" of the history
    comment,    \* the days after "Steered" in the CCTF header
    steered,    \* (history) the last two days on which the unit was steered
    day,
    slip,       \* (history) an answer is or was out of step in this session
    mishaps     \* (history) what went wrong so far

vars == <<unit, due, line, s, todo, user, logger, lock, told, comment, steered, day, slip, mishaps>>

Flags == {"reset", "eepromFail"}
None == -1
Settings == [mo : MO \cup {0}, sf : SF \cup {0}, pl : {0, 1}, stored : MO \cup {0}, flags : SUBSET Flags]

Op(op, arg) == [op |-> op, arg |-> arg]
Query(q) == Op("query", q)

Go(x) == todo' = x /\ user' = IF x = << >> THEN "menu" ELSE "busy"
Next1 == Tail(todo)
Doing(op) == user = "busy" /\ Head(todo).op = op
Arg == Head(todo).arg

\* A mishap that has happened may happen again
May(m) == m \in mishaps \/ Cardinality(mishaps) < MaxMishaps
Happens(m) == May(m) /\ mishaps' = mishaps \cup {m}

----------------------------------------------------------------------------
(* PRS10: queries *)

\* A line of the unit: an integer, or the status, whose first byte is 0 here
Answer(q) ==
    IF q = "status" THEN [k |-> "status", v |-> 0, flags |-> unit.flags]
    ELSE [k |-> "int", v |-> CASE q = "mo" -> unit.mo [] q = "sf" -> unit.sf
                              [] q = "pl" -> unit.pl [] q = "stored" -> unit.stored,
          flags |-> {}]

\* Reading the status clears its flags
Asked(q) == IF q = "status" THEN [unit EXCEPT !.flags = {}] ELSE unit

\* The values IntRange::setValue() accepts
Allowed(q) == CASE q \in {"mo", "stored"} -> MO [] q = "sf" -> SF [] q = "pl" -> {0, 1}

\* What a line does as the answer to q: a value out of range is dropped; where the
\* status is expected and a single number comes, the other bytes are not initialised
Taken(q, a) ==
    IF q = "status" THEN {[s EXCEPT !.flags = f] : f \in IF a.k = "status" THEN {a.flags} ELSE SUBSET Flags}
    ELSE IF a.v \in Allowed(q) THEN {[s EXCEPT ![q] = a.v]} ELSE {s}

\* The answer is there within 100 ms, or what was there before is taken for it
AnswerRead ==
    /\ Doing("query")
    /\ unit' = Asked(Arg)
    /\ due = << >>
    /\ LET lines == Append(line, Answer(Arg))
       IN  /\ s' \in Taken(Arg, Head(lines))
           /\ line' = Tail(lines)
    /\ Go(Next1)
    /\ UNCHANGED <<due, logger, lock, told, comment, steered, day, slip, mishaps>>

\* It is not: I/O timeout, and the settings stay as they were
AnswerLate ==
    /\ Doing("query")
    /\ line = << >> /\ due = << >>
    /\ Happens("late")
    /\ unit' = Asked(Arg)
    /\ due' = <<Answer(Arg)>>
    /\ slip' = TRUE
    /\ Go(Next1)
    /\ UNCHANGED <<line, s, logger, lock, told, comment, steered, day>>

Arrive ==
    /\ due # << >>
    /\ line' = line \o due
    /\ due' = << >>
    /\ UNCHANGED <<unit, s, todo, user, logger, lock, told, comment, steered, day, slip, mishaps>>

----------------------------------------------------------------------------
(* prs10c: commands that change the unit *)

LastTwo(days, d) ==
    IF \E i \in DOMAIN days : days[i] = d THEN days
    ELSE IF Len(days) < 2 THEN Append(days, d) ELSE <<days[2], d>>

\* setIntParam(): out of range, nothing is sent and the caller gives up
SetParam ==
    /\ Doing("set")
    /\ LET p == Arg[1]
           v == Arg[2]
       IN  IF v \in Allowed(p)
           THEN /\ s' = [s EXCEPT ![p] = v]
                /\ unit' = [unit EXCEPT ![p] = v]
                /\ steered' = LastTwo(steered, day)
                /\ Go(Next1)
           ELSE /\ Go(<< >>)
                /\ UNCHANGED <<s, unit, steered>>
    /\ UNCHANGED <<due, line, logger, lock, told, comment, day, slip, mishaps>>

\* PP is not kept by the unit and cannot be read
StepPPS ==
    /\ Doing("step")
    /\ steered' = LastTwo(steered, day)
    /\ Go(Next1)
    /\ UNCHANGED <<unit, due, line, s, logger, lock, told, comment, day, slip, mishaps>>

\* MO!: the unit writes the value to the EEPROM, or sets a flag
WriteEEPROM ==
    /\ Doing("write")
    /\ \/ unit' = [unit EXCEPT !.stored = unit.mo] /\ UNCHANGED mishaps
       \/ unit' = [unit EXCEPT !.flags = @ \cup {"eepromFail"}] /\ Happens("eeprom")
    /\ Go(Next1)
    /\ UNCHANGED <<due, line, s, logger, lock, told, comment, steered, day, slip>>

\* (Mutant) the wrong flag is tested
WriteFailedOther == "reset" \in s.flags

\* checkEEPROMWrite()
WriteFailed == "eepromFail" \in s.flags

Verify ==
    /\ Doing("verify")
    /\ IF WriteFailed
       THEN Go(<< >>) /\ UNCHANGED told
       ELSE Go(Next1) /\ told' = Arg
    /\ UNCHANGED <<unit, due, line, s, logger, lock, comment, steered, day, slip, mishaps>>

----------------------------------------------------------------------------
(* prs10c: the CCTF header *)

\* (Mutant) the older of two days is kept
CommentedOlder(days, d) ==
    IF \E i \in DOMAIN days : days[i] = d THEN days
    ELSE IF Len(days) = 2 THEN <<days[1], d>> ELSE Append(days, d)

\* Today is appended unless it is there, over the older of two days
Commented(days, d) ==
    IF \E i \in DOMAIN days : days[i] = d THEN days
    ELSE IF Len(days) = 2 THEN <<days[2], d>> ELSE Append(days, d)

\* The file is read, emptied, and written
CommentOpen ==
    /\ Doing("comment")
    /\ comment' = << >>
    /\ Go(<<Op("commentWrite", Commented(comment, day))>> \o Next1)
    /\ UNCHANGED <<unit, due, line, s, logger, lock, told, steered, day, slip, mishaps>>

CommentWrite ==
    /\ Doing("commentWrite")
    /\ comment' = Arg
    /\ Go(Next1)
    /\ UNCHANGED <<unit, due, line, s, logger, lock, told, steered, day, slip, mishaps>>

----------------------------------------------------------------------------
(* prs10c: the menu *)

\* (int) sqrt(), as it is used for the magnetic offset; the square of a negative
\* number is none
NewMO(old, d) ==
    LET x == old * old + d
    IN  IF x < 0 THEN None ELSE CHOOSE r \in 0 .. x : r * r <= x /\ x < (r + 1) * (r + 1)

\* getAllVariables(), of which these matter
AllVariables == <<Query("sf"), Query("mo"), Query("pl")>>

MenuChoice(x) ==
    /\ user = "menu"
    /\ Go(x)
    /\ UNCHANGED <<unit, due, line, s, logger, lock, told, comment, steered, day, slip, mishaps>>

AdjustRate(d) == MenuChoice(<<Query("status")>> \o AllVariables \o <<Op("newMO", d)>>)

\* The new offset, if it is in the range
SetRate ==
    /\ Doing("newMO")
    /\ LET mo == NewMO(s.mo, Arg)
       IN  Go(IF mo \notin MO THEN << >>
              ELSE <<Op("set", <<"mo", mo>>), Op("write", 0), Query("status"), Op("verify", mo),
                     Op("comment", 0), Query("mo"), Query("stored")>>)
    /\ UNCHANGED <<unit, due, line, s, logger, lock, told, comment, steered, day, slip, mishaps>>

AdjustRateSF == MenuChoice(<<Query("pl"), Query("sf"), Op("newSF", 0)>>)

\* Not while the unit is locked to a 1 PPS; the user is asked until the value is in range
SetRateSF ==
    /\ Doing("newSF")
    /\ \/ s.pl = 1 /\ Go(<< >>)
       \/ /\ s.pl # 1
          /\ \E v \in SF : Go(<<Op("set", <<"sf", v>>), Query("sf"), Op("comment", 0)>>)
    /\ UNCHANGED <<unit, due, line, s, logger, lock, told, comment, steered, day, slip, mishaps>>

Adjust1PPSphase == MenuChoice(<<Op("step", 0), Op("comment", 0)>>)
PrintStatus == MenuChoice(<<Query("status")>>)
PrintVariables == MenuChoice(AllVariables)

----------------------------------------------------------------------------
(* Start and end, and the lock of the port *)

\* (Mutant) every lock is taken for stale
AliveNever(who) == FALSE

\* Of the process in the lock file
Alive(who) == (who = "logger" /\ logger) \/ (who = "prs10c" /\ user # "none")

\* lockport; prs10c that is turned away takes the lock file with it
Refused ==
    /\ user = "none" /\ Alive(lock)
    /\ Happens("turned")
    /\ lock' = "free"
    /\ UNCHANGED <<unit, due, line, s, todo, user, logger, told, comment, steered, day, slip>>

\* (Mutant) the port is not flushed when it is opened
LinesKept == line

\* openPort(): tcflush(); then the serial number is asked for
LinesLeft == << >>

Start ==
    /\ user = "none" /\ ~Alive(lock)
    /\ lock' = "prs10c"
    /\ line' = LinesLeft
    /\ s' = [mo |-> 0, sf |-> 0, pl |-> 0, stored |-> 0, flags |-> {}]
    /\ slip' = (due # << >>)
    /\ Go(<< >>)
    /\ UNCHANGED <<unit, due, logger, told, comment, steered, day, mishaps>>

Quit ==
    /\ user = "menu"
    /\ user' = "none" /\ todo' = << >>
    /\ lock' = "free"
    /\ UNCHANGED <<unit, due, line, s, logger, told, comment, steered, day, slip, mishaps>>

\* Control-C
Killed ==
    /\ user # "none"
    /\ Happens("killed")
    /\ user' = "none" /\ todo' = << >>
    /\ UNCHANGED <<unit, due, line, s, logger, lock, told, comment, steered, day, slip>>

----------------------------------------------------------------------------
(* prs10log *)

LoggerStart ==
    /\ ~logger /\ ~Alive(lock)
    /\ logger' = TRUE
    /\ lock' = "logger"
    /\ line' = << >>
    /\ UNCHANGED <<unit, due, s, todo, user, told, comment, steered, day, slip, mishaps>>

LoggerStop ==
    /\ logger
    /\ logger' = FALSE
    /\ UNCHANGED <<unit, due, line, s, todo, user, lock, told, comment, steered, day, slip, mishaps>>

\* GetStatus() asks again until a line looks like a status
LogStatus ==
    /\ logger
    /\ unit' = Asked("status")
    /\ line' = << >> /\ due' = << >>
    /\ UNCHANGED <<s, todo, user, logger, lock, told, comment, steered, day, slip, mishaps>>

----------------------------------------------------------------------------
(* The unit and the calendar *)

PowerCycle ==
    /\ Happens("power")
    /\ unit' = [unit EXCEPT !.mo = unit.stored, !.sf = 0, !.flags = {"reset"}]
    /\ due' = << >> /\ line' = << >>
    /\ UNCHANGED <<s, todo, user, logger, lock, told, comment, steered, day, slip>>

NextDay ==
    /\ day < MaxDay
    /\ day' = day + 1
    /\ IF user = "busy" THEN Happens("midnight") ELSE UNCHANGED mishaps
    /\ UNCHANGED <<unit, due, line, s, todo, user, logger, lock, told, comment, steered, slip>>

Init ==
    /\ \E m \in MO, p \in {0, 1} : unit = [mo |-> m, sf |-> 0, pl |-> p, stored |-> m, flags |-> {"reset"}]
    /\ due = << >> /\ line = << >>
    /\ s = [mo |-> 0, sf |-> 0, pl |-> 0, stored |-> 0, flags |-> {}]
    /\ todo = << >> /\ user = "none"
    /\ logger = FALSE /\ lock = "free"
    /\ told = None
    /\ comment = << >> /\ steered = << >>
    /\ day = 1
    /\ slip = FALSE
    /\ mishaps = {}

Next ==
    \/ AnswerRead \/ AnswerLate \/ Arrive
    \/ SetParam \/ StepPPS \/ WriteEEPROM \/ Verify
    \/ CommentOpen \/ CommentWrite
    \/ \E d \in Steers : AdjustRate(d)
    \/ SetRate \/ AdjustRateSF \/ SetRateSF \/ Adjust1PPSphase \/ PrintStatus \/ PrintVariables
    \/ Start \/ Refused \/ Quit \/ Killed
    \/ LoggerStart \/ LoggerStop \/ LogStatus
    \/ PowerCycle \/ NextDay

Spec == Init /\ [][Next]_vars

----------------------------------------------------------------------------
\* Whatever line is taken for an answer, and whatever the user asks for, the unit is
\* only told values it allows and prs10c only believes such values
TypeOK ==
    /\ unit.mo \in MO /\ unit.sf \in SF \cup {0} /\ unit.stored \in MO
    /\ s \in Settings
    /\ user \in {"none", "menu", "busy"} /\ (user = "busy" <=> todo # << >>)

Quiet(ms) == mishaps \cap ms = {}

\* The port has one user, as long as nobody was turned away from it
OnePortUser == Quiet({"turned"}) => ~(logger /\ user # "none")

\* "MO = .. written to EEPROM" in the history means that it was, also with failures of
\* the EEPROM and after a power cycle; answers that come late in the same session, or
\* the logger on the same port, can hide the failure
ToldIsStored ==
    [][(told' # told /\ ~slip /\ Quiet({"turned", "power"})) => unit.stored = told']_vars

\* The magnetic offset is changed from the one that the unit has, by what was asked for
RateFromUnit ==
    [][(Doing("newMO") /\ todo' # << >> /\ Head(todo').op = "set" /\ ~slip /\ Quiet({"turned", "power"}))
            => Head(todo').arg[2] = NewMO(unit.mo, Arg)]_vars

\* At rest the CCTF header names the last two days on which the unit was steered - the
\* offset set and not stored, a step before midnight and one cut short apart
SteersKept ==
    (user # "busy" /\ Quiet({"late", "turned", "power", "killed", "eeprom", "midnight"})) => comment = steered
=============================================================================
