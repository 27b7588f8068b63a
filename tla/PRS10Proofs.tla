----------------------------- MODULE PRS10Proofs -----------------------------
(***************************************************************************)
(* For any offsets, steers and mishaps: types, that the port has one user, *)
(* that what the history says was stored is stored, and that the rate is   *)
(* changed from the unit's own offset.                                     *)
(*                                                                         *)
(* The last two are about a line of operations of which each relies on     *)
(* what those before it have done, so the invariant says for each place    *)
(* that the check or the new offset may have in the line what the unit and *)
(* the settings are by then.                                               *)
(***************************************************************************)
EXTENDS PRS10, SequenceTheorems, TLAPS

-----------------------------------------------------------------------------

Queries == {"status", "mo", "sf", "pl", "stored"}
Units   == [mo : MO, sf : SF \cup {0}, pl : {0, 1}, stored : MO, flags : SUBSET Flags]
Answers == [k : {"status", "int"}, v : Int, flags : SUBSET Flags]

OpNames == {"query", "set", "step", "write", "verify", "comment", "commentWrite", "newMO", "newSF"}
Args    == Queries \cup ({"mo", "sf"} \X Int) \cup Int \cup Seq(Nat)
Ops     == [op : OpNames, arg : Args]

Types ==
  /\ unit \in Units /\ s \in Settings
  /\ due \in Seq(Answers) /\ line \in Seq(Answers)
  /\ comment \in Seq(Nat) /\ day \in Nat
  /\ todo \in Seq(Ops)
  /\ user \in {"none", "menu", "busy"} /\ (user = "busy" <=> todo # << >>)
  /\ \A i \in DOMAIN todo :
       /\ todo[i].op = "query" => todo[i].arg \in Queries
       /\ todo[i].op = "set" => todo[i].arg \in {"mo", "sf"} \X Int
       /\ todo[i].op = "commentWrite" => todo[i].arg \in Seq(Nat)

\* Whoever runs is in the lock file.
PortInv == Quiet({"turned"}) => /\ logger => lock = "logger"
                                /\ user # "none" => lock = "prs10c"

\* No answer is missing or waiting in a session where none was late.
InStep == ~slip /\ user # "none" => line = << >> /\ due = << >>

Sound == ~slip /\ Quiet({"turned", "power"})

\* The offset is set, written, the status asked for and the flag looked at.
VerifyInv ==
  \A i \in DOMAIN todo : todo[i].op = "verify" =>
    LET v == todo[i].arg IN
    /\ i \in 1..4
    /\ i = 4 => todo[1] = Op("set", <<"mo", v>>) /\ v \in MO
    /\ i \in 3..4 => todo[i - 2].op = "write"
    /\ i \in 2..4 => todo[i - 1] = Query("status")
    /\ i = 3 /\ Sound => unit.mo = v
    /\ i = 2 /\ Sound => unit.stored = v \/ "eepromFail" \in unit.flags
    /\ i = 1 /\ Sound => unit.stored = v \/ "eepromFail" \in s.flags

\* The offset is asked for before it is changed.
RateInv ==
  \A i \in DOMAIN todo : todo[i].op = "newMO" =>
    /\ i \in 1..5
    /\ \A j \in 1..i - 1 : todo[j].op = "query"
    /\ i \in 3..5 => todo[i - 2] = Query("mo")
    /\ i \in 1..2 /\ Sound => s.mo = unit.mo

IInv == Types /\ PortInv /\ InStep /\ VerifyInv /\ RateInv

-----------------------------------------------------------------------------
(* What is to be done *)

LEMMA Line ==
  ASSUME NEW S, NEW q \in Seq(S), q # << >>
  PROVE  /\ Len(q) \in Nat \ {0} /\ DOMAIN q = 1..Len(q)
         /\ Head(q) = q[1] /\ q[1] \in S
         /\ Tail(q) \in Seq(S) /\ DOMAIN Tail(q) = 1..Len(q) - 1
         /\ \A i \in 1..Len(q) - 1 : Tail(q)[i] = q[i + 1]
OBVIOUS

LEMMA Busy ==
  ASSUME Types, NEW op, Doing(op)
  PROVE  /\ todo \in Seq(Ops) /\ todo # << >> /\ user = "busy"
         /\ todo[1].op = op /\ Arg = todo[1].arg
         /\ DOMAIN todo = 1..Len(todo) /\ Len(todo) \in Nat \ {0}
<1>1. todo \in Seq(Ops) /\ todo # << >> /\ user = "busy"
  BY DEF Types, Doing
<1> QED  BY <1>1, Line DEF Doing, Arg

\* The types of what is to be done, next
TodoTypes ==
  /\ todo \in Seq(Ops)
  /\ user \in {"none", "menu", "busy"} /\ (user = "busy" <=> todo # << >>)
  /\ \A i \in DOMAIN todo :
       /\ todo[i].op = "query" => todo[i].arg \in Queries
       /\ todo[i].op = "set" => todo[i].arg \in {"mo", "sf"} \X Int
       /\ todo[i].op = "commentWrite" => todo[i].arg \in Seq(Nat)

LEMMA DoneTypes ==
  ASSUME Types, NEW op, Doing(op), Go(Next1)
  PROVE  TodoTypes' /\ user' # "none"
<1>1. todo \in Seq(Ops) /\ todo # << >>
  BY Busy
<1>2. todo' = Tail(todo) /\ user' = IF Tail(todo) = << >> THEN "menu" ELSE "busy"
  BY DEF Go, Next1
<1>3. /\ todo' \in Seq(Ops) /\ DOMAIN todo' = 1..Len(todo) - 1 /\ Len(todo) \in Nat
      /\ \A i \in DOMAIN todo' : todo'[i] = todo[i + 1] /\ i + 1 \in DOMAIN todo
  BY <1>1, <1>2, Line
<1>4. \A i \in DOMAIN todo' :
        /\ todo'[i].op = "query" => todo'[i].arg \in Queries
        /\ todo'[i].op = "set" => todo'[i].arg \in {"mo", "sf"} \X Int
        /\ todo'[i].op = "commentWrite" => todo'[i].arg \in Seq(Nat)
  BY <1>3 DEF Types
<1> QED  BY <1>2, <1>3, <1>4 DEF TodoTypes

LEMMA NothingTypes ==
  ASSUME todo' = << >>, user' \in {"none", "menu"}
  PROVE  TodoTypes' /\ VerifyInv' /\ RateInv'
BY DEF TodoTypes, VerifyInv, RateInv

\* The first operation is done: what comes after it relies on what it did.
LEMMA DoneVerify ==
  ASSUME Types, VerifyInv, NEW op, Doing(op), Go(Next1), Sound' => Sound,
         \A v \in MO : Sound' /\ todo[1] = Op("set", <<"mo", v>>) => unit'.mo = v,
         Sound' /\ op = "write" =>
            unit'.stored = unit.mo \/ "eepromFail" \in unit'.flags,
         Sound' /\ todo[1] = Query("status") =>
            unit'.stored = unit.stored /\ ("eepromFail" \in unit.flags => "eepromFail" \in s'.flags)
  PROVE  VerifyInv'
<1>1. /\ todo[1].op = op /\ Len(todo) \in Nat /\ DOMAIN todo = 1..Len(todo)
      /\ DOMAIN todo' = 1..Len(todo) - 1
      /\ \A i \in DOMAIN todo' : todo'[i] = todo[i + 1]
  BY Busy, Line DEF Go, Next1
<1> SUFFICES ASSUME NEW i \in DOMAIN todo', todo'[i].op = "verify"
             PROVE  LET v == todo'[i].arg IN
                    /\ i \in 1..4
                    /\ i = 4 => todo'[1] = Op("set", <<"mo", v>>) /\ v \in MO
                    /\ i \in 3..4 => todo'[i - 2].op = "write"
                    /\ i \in 2..4 => todo'[i - 1] = Query("status")
                    /\ i = 3 /\ Sound' => unit'.mo = v
                    /\ i = 2 /\ Sound' => unit'.stored = v \/ "eepromFail" \in unit'.flags
                    /\ i = 1 /\ Sound' => unit'.stored = v \/ "eepromFail" \in s'.flags
  BY DEF VerifyInv
<1> DEFINE v == todo[i + 1].arg
<1>2. i \in 1..Len(todo) - 1 /\ i + 1 \in DOMAIN todo /\ todo'[i] = todo[i + 1]
  BY <1>1
<1>3. /\ i + 1 \in 1..4
      /\ i + 1 = 4 => todo[1] = Op("set", <<"mo", v>>) /\ v \in MO
      /\ i + 1 \in 3..4 => todo[i + 1 - 2].op = "write"
      /\ i + 1 \in 2..4 => todo[i + 1 - 1] = Query("status")
      /\ i + 1 = 3 /\ Sound => unit.mo = v
      /\ i + 1 = 2 /\ Sound => unit.stored = v \/ "eepromFail" \in unit.flags
  BY <1>2 DEF VerifyInv
<1>4. i \in 1..3
  BY <1>2, <1>3
<1>5. CASE i = 3
  <2>1. todo'[1] = todo[2] /\ todo'[2] = todo[3]
    BY <1>1, <1>5
  <2> QED  BY <1>2, <1>3, <1>5, <2>1
<1>6. CASE i = 2
  <2>1. todo'[1] = todo[2] /\ todo[1].op = "write"
    BY <1>1, <1>3, <1>6
  <2> QED  BY <1>1, <1>2, <1>3, <1>6, <2>1
<1>7. CASE i = 1
  BY <1>1, <1>2, <1>3, <1>7
<1> QED  BY <1>4, <1>5, <1>6, <1>7

LEMMA DoneRate ==
  ASSUME Types, RateInv, NEW op, Doing(op), Go(Next1), Sound' => Sound,
         Sound' /\ todo[1] = Query("mo") => s'.mo = unit'.mo,
         Sound' /\ op = "query" /\ s.mo = unit.mo => s'.mo = unit'.mo
  PROVE  RateInv'
<1>1. /\ todo[1].op = op /\ Len(todo) \in Nat /\ DOMAIN todo = 1..Len(todo)
      /\ DOMAIN todo' = 1..Len(todo) - 1
      /\ \A i \in DOMAIN todo' : todo'[i] = todo[i + 1]
  BY Busy, Line DEF Go, Next1
<1> SUFFICES ASSUME NEW i \in DOMAIN todo', todo'[i].op = "newMO"
             PROVE  /\ i \in 1..5
                    /\ \A j \in 1..i - 1 : todo'[j].op = "query"
                    /\ i \in 3..5 => todo'[i - 2] = Query("mo")
                    /\ i \in 1..2 /\ Sound' => s'.mo = unit'.mo
  BY DEF RateInv
<1>2. i \in 1..Len(todo) - 1 /\ i + 1 \in DOMAIN todo /\ todo[i + 1].op = "newMO"
  BY <1>1
<1>3. /\ i + 1 \in 1..5
      /\ \A j \in 1..i + 1 - 1 : todo[j].op = "query"
      /\ i + 1 \in 3..5 => todo[i + 1 - 2] = Query("mo")
      /\ i + 1 \in 1..2 /\ Sound => s.mo = unit.mo
  BY <1>2 DEF RateInv
<1>4. i \in 1..4 /\ op = "query"
  BY <1>1, <1>2, <1>3
<1>5. \A j \in 1..i - 1 : todo'[j].op = "query"
  BY <1>1, <1>2, <1>3
<1>6. i \in 3..5 => todo'[i - 2] = Query("mo")
  BY <1>1, <1>2, <1>3
<1>7. i = 2 => todo[1] = Query("mo")
  BY <1>3
<1> QED  BY <1>3, <1>4, <1>5, <1>6, <1>7

\* Nothing but the mishaps and the line of operations: who else acts
LEMMA SameTodo ==
  ASSUME IInv, UNCHANGED <<todo, s>>, Sound' => Sound,
         Sound' /\ todo # << >> => unit' = unit
  PROVE  VerifyInv' /\ RateInv'
<1>1. Sound' /\ DOMAIN todo # {} => unit' = unit
  OBVIOUS
<1>2. VerifyInv'
  BY <1>1 DEF IInv, VerifyInv
<1>3. RateInv'
  BY <1>1 DEF IInv, RateInv
<1> QED  BY <1>2, <1>3

LEMMA SameTypes == Types /\ UNCHANGED <<todo, user>> => TodoTypes'
BY DEF Types, TodoTypes

LEMMA TypeParts ==
  Types' <=> /\ TodoTypes'
             /\ unit' \in Units /\ s' \in Settings
             /\ due' \in Seq(Answers) /\ line' \in Seq(Answers)
             /\ comment' \in Seq(Nat) /\ day' \in Nat
BY DEF Types, TodoTypes

LEMMA QuietBefore == ASSUME NEW ms, mishaps \subseteq mishaps', Quiet(ms)' PROVE Quiet(ms)
BY DEF Quiet

-----------------------------------------------------------------------------
(* Queries *)

LEMMA AnswerTypes ==
  ASSUME unit \in Units, NEW q \in Queries
  PROVE  /\ Answer(q) \in Answers /\ Asked(q) \in Units
         /\ Asked(q).mo = unit.mo /\ Asked(q).stored = unit.stored
         /\ q # "status" => Asked(q) = unit
<1>1. unit.mo \in Int /\ unit.sf \in Int /\ unit.pl \in Int /\ unit.stored \in Int
         /\ unit.flags \in SUBSET Flags
  <2>1. /\ unit.mo \in MO /\ unit.stored \in MO /\ unit.sf \in SF \cup {0} /\ unit.pl \in {0, 1}
        /\ unit.flags \in SUBSET Flags
    BY DEF Units
  <2>2. MO \subseteq Int /\ SF \cup {0} \subseteq Int /\ {0, 1} \subseteq Int
    BY PRS10Assumption
  <2> QED  BY <2>1, <2>2
<1>2. Answer(q) \in Answers
  <2>1. CASE q = "status"
    BY <1>1, <2>1 DEF Answer, Answers
  <2>2. CASE q # "status"
    <3>1. (CASE q = "mo" -> unit.mo [] q = "sf" -> unit.sf
             [] q = "pl" -> unit.pl [] q = "stored" -> unit.stored) \in Int
      BY <1>1, <2>2 DEF Queries
    <3>2. {} \in SUBSET Flags
      OBVIOUS
    <3> QED  BY <2>2, <3>1, <3>2 DEF Answer, Answers
  <2> QED  BY <2>1, <2>2
<1>3. /\ Asked(q) \in Units /\ Asked(q).mo = unit.mo /\ Asked(q).stored = unit.stored
      /\ q # "status" => Asked(q) = unit
  BY DEF Asked, Units
<1> QED  BY <1>2, <1>3

LEMMA TakenTypes ==
  ASSUME s \in Settings, NEW q \in Queries, NEW a \in Answers, NEW r \in Taken(q, a)
  PROVE  /\ r \in Settings
         /\ q # "mo" => r.mo = s.mo
         /\ q = "mo" /\ a.v \in MO => r.mo = a.v
         /\ q = "status" /\ a.k = "status" => r.flags = a.flags
<1>1. CASE q = "status"
  BY <1>1 DEF Taken, Settings, Answers
<1>2. CASE q = "mo"
  BY <1>2 DEF Taken, Allowed, Settings
<1>3. CASE q = "stored"
  BY <1>3 DEF Taken, Allowed, Settings
<1>4. CASE q = "sf"
  BY <1>4 DEF Taken, Allowed, Settings
<1>5. CASE q = "pl"
  BY <1>5 DEF Taken, Allowed, Settings
<1> QED  BY <1>1, <1>2, <1>3, <1>4, <1>5 DEF Queries

LEMMA Queued ==
  ASSUME NEW S, NEW q \in Seq(S), NEW a \in S
  PROVE  /\ Append(q, a) \in Seq(S) /\ Append(q, a) # << >>
         /\ q = << >> => Head(Append(q, a)) = a /\ Tail(Append(q, a)) = << >>
<1>1. Append(q, a) \in Seq(S) /\ Append(q, a) # << >>
  BY AppendProperties
<1>2. CASE q = << >>
  <2>1. Append(q, a) = <<a>>
    BY <1>2
  <2> QED  BY <1>1, <2>1
<1> QED  BY <1>1, <1>2

LEMMA AnswerReadIInv == IInv /\ AnswerRead => IInv'
<1> SUFFICES ASSUME IInv, AnswerRead PROVE IInv'
  OBVIOUS
<1> DEFINE q == Arg
           lines == Append(line, Answer(q))
<1>1. /\ Types /\ Doing("query") /\ Go(Next1) /\ q = todo[1].arg /\ todo[1].op = "query"
      /\ todo[1] \in Ops /\ user = "busy"
  BY Busy, Line DEF IInv, AnswerRead
<1>2. q \in Queries
  BY <1>1, Busy DEF Types
<1>3. /\ Answer(q) \in Answers /\ Asked(q) \in Units
      /\ unit' = Asked(q) /\ unit'.mo = unit.mo /\ unit'.stored = unit.stored
  BY <1>1, <1>2, AnswerTypes DEF Types, AnswerRead
<1>4. /\ lines \in Seq(Answers) /\ lines # << >>
      /\ line = << >> => Head(lines) = Answer(q) /\ Tail(lines) = << >>
  BY <1>1, <1>3, Queued DEF Types
<1>5. s' \in Taken(q, Head(lines)) /\ line' = Tail(lines) /\ Head(lines) \in Answers
         /\ line' \in Seq(Answers)
  BY <1>4 DEF AnswerRead
<1>6. /\ s' \in Settings
      /\ q # "mo" => s'.mo = s.mo
      /\ q = "mo" /\ Head(lines).v \in MO => s'.mo = Head(lines).v
      /\ q = "status" /\ Head(lines).k = "status" => s'.flags = Head(lines).flags
  BY <1>1, <1>2, <1>5, TakenTypes DEF Types
<1>7. Types'
  BY <1>1, <1>3, <1>5, <1>6, TypeParts, DoneTypes DEF Types, AnswerRead
<1>8. UNCHANGED <<due, logger, lock, slip, mishaps>> /\ user' # "none"
  BY <1>1, DoneTypes DEF AnswerRead
<1>9. PortInv'
  BY <1>1, <1>8 DEF IInv, PortInv, Quiet
<1>10. ~slip => line = << >> /\ due = << >>
  BY <1>1 DEF IInv, InStep
<1>11. InStep'
  BY <1>4, <1>5, <1>8, <1>10 DEF InStep
<1>12. Sound' = Sound
  BY <1>8 DEF Sound, Quiet
<1>13. ~slip => Head(lines) = Answer(q)
  BY <1>4, <1>10
<1>14. Sound /\ q = "mo" => s'.mo = unit'.mo
  <2>1. Answer("mo").v = unit.mo /\ unit.mo \in MO
    BY <1>1 DEF Types, Units, Answer
  <2> QED  BY <1>3, <1>6, <1>13, <2>1 DEF Sound
<1>15. Sound /\ q = "status" => s'.flags = unit.flags
  BY <1>6, <1>13 DEF Sound, Answer
<1> HIDE DEF q, lines
<1>16. VerifyInv'
  <2>1. todo[1] = Query("status") => q = "status"
    BY <1>1 DEF Query, Op
  <2>2. \A v \in MO : todo[1] # Op("set", <<"mo", v>>)
    BY <1>1 DEF Op
  <2> QED  BY <1>1, <1>3, <1>12, <1>15, <2>1, <2>2, DoneVerify DEF IInv
<1>17. RateInv'
  <2>1. todo[1] = Query("mo") => q = "mo"
    BY <1>1 DEF Query, Op
  <2>2. Sound' /\ s.mo = unit.mo => s'.mo = unit'.mo
    BY <1>3, <1>6, <1>12, <1>14
  <2> QED  BY <1>1, <1>12, <1>14, <2>1, <2>2, DoneRate DEF IInv
<1> QED  BY <1>7, <1>9, <1>11, <1>16, <1>17 DEF IInv

LEMMA AnswerLateIInv == IInv /\ AnswerLate => IInv'
<1> SUFFICES ASSUME IInv, AnswerLate PROVE IInv'
  OBVIOUS
<1>1. /\ Types /\ Doing("query") /\ Go(Next1) /\ slip' /\ user = "busy"
      /\ UNCHANGED <<line, s, logger, lock, comment, day>> /\ mishaps \subseteq mishaps'
  BY Busy DEF IInv, AnswerLate, Happens
<1>2. Arg \in Queries
  BY <1>1, Busy DEF Types
<1>3. Answer(Arg) \in Answers /\ unit' \in Units /\ due' = <<Answer(Arg)>>
  BY <1>1, <1>2, AnswerTypes DEF Types, AnswerLate
<1>4. Types'
  BY <1>1, <1>3, TypeParts, DoneTypes DEF Types
<1>5. PortInv'
  BY <1>1, DoneTypes, QuietBefore DEF IInv, PortInv
<1>6. InStep' /\ ~Sound'
  BY <1>1 DEF InStep, Sound
<1>7. VerifyInv'
  BY <1>1, <1>6, DoneVerify DEF IInv
<1>8. RateInv'
  BY <1>1, <1>6, DoneRate DEF IInv
<1> QED  BY <1>4, <1>5, <1>6, <1>7, <1>8 DEF IInv

LEMMA ArriveIInv == IInv /\ Arrive => IInv'
<1> SUFFICES ASSUME IInv, Arrive PROVE IInv'
  OBVIOUS
<1>1. UNCHANGED <<unit, s, todo, user, logger, lock, comment, day, slip, mishaps>>
  BY DEF Arrive
<1>2. Types'
  BY <1>1, SameTypes, TypeParts DEF IInv, Types, Arrive
<1>3. PortInv' /\ InStep'
  BY <1>1 DEF IInv, PortInv, InStep, Quiet, Arrive
<1>4. VerifyInv' /\ RateInv'
  BY <1>1, SameTodo DEF Sound, Quiet
<1> QED  BY <1>2, <1>3, <1>4 DEF IInv

-----------------------------------------------------------------------------
(* prs10c, the rest of the line *)

\* A step of prs10c that is done, and changes neither the offset nor the line
LEMMA DoneIInv ==
  ASSUME IInv, NEW op, Doing(op), op \notin {"query", "set", "write"}, Go(Next1),
         UNCHANGED <<unit, s, due, line, logger, lock, slip, mishaps, day>>,
         comment' \in Seq(Nat)
  PROVE  IInv'
<1>1. Types /\ todo[1].op = op /\ user = "busy" /\ Sound' = Sound
  BY Busy DEF IInv, Sound, Quiet
<1>2. Types' /\ user' # "none"
  BY <1>1, TypeParts, DoneTypes DEF Types
<1>3. PortInv' /\ InStep'
  BY <1>1, <1>2 DEF IInv, PortInv, InStep, Quiet
<1>4. VerifyInv'
  BY <1>1, DoneVerify DEF IInv, Op, Query
<1>5. RateInv'
  BY <1>1, DoneRate DEF IInv, Op, Query
<1> QED  BY <1>2, <1>3, <1>4, <1>5 DEF IInv

\* A step that gives up the rest, or gets to the end of it
LEMMA NothingIInv ==
  ASSUME IInv, todo' = << >>, user' \in {"none", "menu"}, user = "none" => user' = "none",
         UNCHANGED <<unit, s, due, line, logger, comment, slip, day>>,
         mishaps \subseteq mishaps', lock' = lock \/ (user' = "none" /\ lock # "logger")
  PROVE  IInv'
<1>1. TodoTypes' /\ VerifyInv' /\ RateInv'
  BY NothingTypes
<1>2. Types'
  BY <1>1, TypeParts DEF IInv, Types
<1>3. PortInv'
  BY QuietBefore DEF IInv, PortInv
<1>4. InStep'
  BY DEF IInv, InStep
<1> QED  BY <1>1, <1>2, <1>3, <1>4 DEF IInv

LEMMA SetParamIInv == IInv /\ SetParam => IInv'
<1> SUFFICES ASSUME IInv, SetParam PROVE IInv'
  OBVIOUS
<1> DEFINE p == Arg[1]
           v == Arg[2]
<1>1. /\ Types /\ Doing("set") /\ user = "busy" /\ Arg = todo[1].arg /\ todo[1].op = "set"
      /\ Arg \in {"mo", "sf"} \X Int
      /\ UNCHANGED <<due, line, logger, lock, comment, day, slip, mishaps>>
  BY Busy DEF IInv, SetParam, Types
<1>2. p \in {"mo", "sf"}
  BY <1>1
<1>3. CASE v \notin Allowed(p)
  BY <1>1, <1>3, NothingIInv DEF SetParam, Go
<1>4. CASE v \in Allowed(p)
  <2>1. Go(Next1) /\ s' = [s EXCEPT ![p] = v] /\ unit' = [unit EXCEPT ![p] = v]
    BY <1>4 DEF SetParam
  <2>2. s' \in Settings /\ unit' \in Units /\ (p = "mo" => unit'.mo = v)
    BY <1>1, <1>2, <1>4, <2>1 DEF Types, Settings, Units, Allowed
  <2>3. Types' /\ user' # "none"
    BY <1>1, <2>1, <2>2, TypeParts, DoneTypes DEF Types
  <2>4. PortInv' /\ InStep' /\ Sound' = Sound
    BY <1>1, <2>3 DEF IInv, PortInv, InStep, Sound, Quiet
  <2>5. \A w \in MO : todo[1] = Op("set", <<"mo", w>>) => unit'.mo = w
    BY <1>1, <2>2 DEF Op
  <2>6. VerifyInv'
    BY <1>1, <2>1, <2>4, <2>5, DoneVerify DEF IInv, Op, Query
  <2>7. RateInv'
    BY <1>1, <2>1, <2>4, DoneRate DEF IInv, Op, Query
  <2> QED  BY <2>3, <2>4, <2>6, <2>7 DEF IInv
<1> QED  BY <1>3, <1>4

LEMMA StepPPSIInv == IInv /\ StepPPS => IInv'
BY DoneIInv DEF StepPPS, IInv, Types

LEMMA WriteEEPROMIInv == IInv /\ WriteEEPROM => IInv'
<1> SUFFICES ASSUME IInv, WriteEEPROM PROVE IInv'
  OBVIOUS
<1>1. /\ Types /\ Doing("write") /\ todo[1].op = "write" /\ user = "busy" /\ Go(Next1)
      /\ UNCHANGED <<due, line, s, logger, lock, comment, day, slip>> /\ mishaps \subseteq mishaps'
  BY Busy DEF IInv, WriteEEPROM, Happens
<1>2. unit' \in Units /\ (unit'.stored = unit.mo \/ "eepromFail" \in unit'.flags)
  BY <1>1, ZenonT(40) DEF Types, Units, WriteEEPROM, Flags
<1>3. Types' /\ user' # "none"
  BY <1>1, <1>2, TypeParts, DoneTypes DEF Types
<1>4. PortInv' /\ InStep'
  BY <1>1, <1>3, QuietBefore DEF IInv, PortInv, InStep
<1>5. Sound' => Sound
  BY <1>1, QuietBefore DEF Sound
<1>6. VerifyInv'
  BY <1>1, <1>2, <1>5, DoneVerify DEF IInv, Op, Query
<1>7. RateInv'
  BY <1>1, <1>5, DoneRate DEF IInv, Op, Query
<1> QED  BY <1>3, <1>4, <1>6, <1>7 DEF IInv

LEMMA VerifyIInv == IInv /\ Verify => IInv'
<1> SUFFICES ASSUME IInv, Verify PROVE IInv'
  OBVIOUS
<1>1. CASE WriteFailed
  BY <1>1, NothingIInv DEF Verify, Go, Doing
<1>2. CASE ~WriteFailed
  BY <1>2, DoneIInv DEF Verify, IInv, Types
<1> QED  BY <1>1, <1>2

LEMMA CommentTypes ==
  ASSUME NEW days \in Seq(Nat), NEW d \in Nat
  PROVE  Commented(days, d) \in Seq(Nat)
<1>1. ASSUME Len(days) = 2 PROVE days[2] \in Nat
  <2>1. 2 \in 1..Len(days)
    BY <1>1
  <2> QED  BY <2>1
<1> QED  BY <1>1 DEF Commented

LEMMA CommentOpenIInv == IInv /\ CommentOpen => IInv'
<1> SUFFICES ASSUME IInv, CommentOpen PROVE IInv'
  OBVIOUS
<1> DEFINE o == Op("commentWrite", Commented(comment, day))
<1>1. /\ Types /\ todo \in Seq(Ops) /\ todo # << >> /\ user = "busy" /\ todo[1].op = "comment"
      /\ comment' = << >> /\ Go(<<o>> \o Next1)
      /\ UNCHANGED <<unit, due, line, s, logger, lock, day, slip, mishaps>>
  BY Busy DEF IInv, CommentOpen
<1>2. o \in Ops /\ o.op = "commentWrite"
  BY <1>1, CommentTypes DEF Types, Op, Ops, OpNames, Args
<1>3. o.arg \in Seq(Nat)
  BY <1>1, CommentTypes DEF Types, Op
<1> HIDE DEF o
<1>4. /\ todo' = <<o>> \o Tail(todo) /\ todo' # << >> /\ user' = "busy"
  BY <1>1, <1>2, Line DEF Go, Next1
<1>5. /\ todo' \in Seq(Ops) /\ DOMAIN todo' = DOMAIN todo /\ todo'[1] = o
      /\ DOMAIN todo = 1..Len(todo) /\ Len(todo) \in Nat
      /\ \A i \in DOMAIN todo : i # 1 => todo'[i] = todo[i]
  BY <1>1, <1>2, <1>4, Line
<1>6. TodoTypes'
  BY <1>1, <1>2, <1>3, <1>4, <1>5 DEF TodoTypes, Types
<1>7. Types'
  BY <1>1, <1>6, TypeParts DEF Types
<1>8. PortInv' /\ InStep'
  BY <1>1, <1>4 DEF IInv, PortInv, InStep, Quiet
<1>9. \A i \in DOMAIN todo : todo[i].op # "verify" /\ todo[i].op # "newMO"
  <2>1. \A i \in DOMAIN todo : todo[i].op # "verify"
    <3> SUFFICES ASSUME NEW i \in DOMAIN todo, todo[i].op = "verify" PROVE FALSE
      OBVIOUS
    <3> DEFINE v == todo[i].arg
    <3>1. /\ i \in 1..4
          /\ i = 4 => todo[1] = Op("set", <<"mo", v>>)
          /\ i \in 3..4 => todo[i - 2].op = "write"
          /\ i \in 2..4 => todo[i - 1] = Query("status")
      BY DEF IInv, VerifyInv
    <3>2. CASE i = 4
      BY <1>1, <3>1, <3>2 DEF Op
    <3>3. CASE i = 3
      BY <1>1, <3>1, <3>3
    <3>4. CASE i = 2
      BY <1>1, <3>1, <3>4 DEF Query, Op
    <3>5. CASE i = 1
      BY <1>1, <3>5
    <3> QED  BY <3>1, <3>2, <3>3, <3>4, <3>5
  <2>2. \A i \in DOMAIN todo : todo[i].op # "newMO"
    BY <1>1, <1>5 DEF IInv, RateInv
  <2> QED  BY <2>1, <2>2
<1>10. VerifyInv' /\ RateInv'
  BY <1>2, <1>5, <1>9 DEF VerifyInv, RateInv
<1> QED  BY <1>7, <1>8, <1>10 DEF IInv

LEMMA CommentWriteIInv == IInv /\ CommentWrite => IInv'
<1> SUFFICES ASSUME IInv, CommentWrite PROVE IInv'
  OBVIOUS
<1>1. /\ Doing("commentWrite") /\ Types /\ comment' = Arg
  BY DEF IInv, CommentWrite
<1>2. Arg = todo[1].arg /\ todo[1].op = "commentWrite" /\ 1 \in DOMAIN todo
  BY <1>1, Busy
<1>3. comment' \in Seq(Nat)
  BY <1>1, <1>2 DEF Types
<1> QED  BY <1>3, DoneIInv DEF CommentWrite

-----------------------------------------------------------------------------
(* The menu *)

\* A line of queries and the like, with nothing to verify
LEMMA QueriesIInv ==
  ASSUME IInv, user # "none",
         todo' \in Seq(Ops), todo' # << >>, user' = "busy",
         \A i \in DOMAIN todo' :
           \/ todo'[i].op \in {"step", "comment", "newSF"}
           \/ todo'[i].op = "query" /\ todo'[i].arg \in Queries
           \/ todo'[i].op = "set" /\ todo'[i].arg \in {"mo", "sf"} \X Int,
         UNCHANGED <<unit, due, line, s, logger, lock, comment, day, slip, mishaps>>
  PROVE  IInv'
<1>1. TodoTypes' /\ VerifyInv' /\ RateInv'
  BY DEF TodoTypes, VerifyInv, RateInv
<1>2. Types'
  BY <1>1, TypeParts DEF IInv, Types
<1>3. PortInv' /\ InStep'
  BY DEF IInv, PortInv, InStep, Quiet
<1> QED  BY <1>1, <1>2, <1>3 DEF IInv

LEMMA OpTypes ==
  /\ \A q \in Queries : Query(q) \in Ops /\ Query(q).op = "query" /\ Query(q).arg = q
  /\ \A op \in OpNames : \A n \in Int : Op(op, n) \in Ops
  /\ \A p \in {"mo", "sf"}, n \in Int : Op("set", <<p, n>>) \in Ops
BY DEF Query, Op, Ops, OpNames, Args, Queries

\* A line that is not empty
LEMMA Going == ASSUME NEW x, x # << >>, Go(x) PROVE todo' = x /\ user' = "busy"
BY DEF Go

LEMMA ChoiceIInv ==
  ASSUME IInv, AdjustRateSF \/ Adjust1PPSphase \/ PrintStatus \/ PrintVariables
  PROVE  IInv'
<1>1. /\ user = "menu"
      /\ UNCHANGED <<unit, due, line, s, logger, lock, comment, day, slip, mishaps>>
  BY DEF AdjustRateSF, Adjust1PPSphase, PrintStatus, PrintVariables, MenuChoice
<1>2. CASE AdjustRateSF
  <2>1. todo' = <<Query("pl"), Query("sf"), Op("newSF", 0)>> /\ user' = "busy"
    BY <1>2, Going DEF AdjustRateSF, MenuChoice
  <2>2. Query("pl") \in Ops /\ Query("sf") \in Ops /\ Op("newSF", 0) \in Ops
    BY OpTypes DEF Queries, OpNames
  <2> QED  BY <1>1, <2>1, <2>2, OpTypes, QueriesIInv DEF Queries, Op
<1>3. CASE Adjust1PPSphase
  <2>1. todo' = <<Op("step", 0), Op("comment", 0)>> /\ user' = "busy"
    BY <1>3, Going DEF Adjust1PPSphase, MenuChoice
  <2>2. Op("step", 0) \in Ops /\ Op("comment", 0) \in Ops
    BY OpTypes DEF OpNames
  <2> QED  BY <1>1, <2>1, <2>2, QueriesIInv DEF Op
<1>4. CASE PrintStatus
  <2>1. todo' = <<Query("status")>> /\ user' = "busy"
    BY <1>4, Going DEF PrintStatus, MenuChoice
  <2> QED  BY <1>1, <2>1, OpTypes, QueriesIInv DEF Queries
<1>5. CASE PrintVariables
  <2>1. todo' = <<Query("sf"), Query("mo"), Query("pl")>> /\ user' = "busy"
    BY <1>5, Going DEF PrintVariables, MenuChoice, AllVariables
  <2>2. Query("sf") \in Ops /\ Query("mo") \in Ops /\ Query("pl") \in Ops
    BY OpTypes DEF Queries
  <2> QED  BY <1>1, <2>1, <2>2, OpTypes, QueriesIInv DEF Queries
<1> QED  BY <1>2, <1>3, <1>4, <1>5

LEMMA OneThreeOne ==
  ASSUME NEW a, NEW b, NEW c, NEW d, NEW e
  PROVE  <<a>> \o <<b, c, d>> \o <<e>> = <<a, b, c, d, e>>
<1> DEFINE S == {a, b, c, d, e}
           abcd == <<a>> \o <<b, c, d>>
           last == <<e>>
<1>1. <<a>> \in Seq(S) /\ <<b, c, d>> \in Seq(S) /\ <<e>> \in Seq(S)
  OBVIOUS
<1> HIDE DEF S
<1>2. /\ abcd \in Seq(S) /\ Len(abcd) = 4
      /\ abcd[1] = a /\ abcd[2] = b /\ abcd[3] = c /\ abcd[4] = d
  BY <1>1, ConcatProperties
<1>3. last \in Seq(S) /\ Len(last) = 1 /\ last[1] = e
  BY <1>1
<1> HIDE DEF abcd, last
<1>4. /\ abcd \o last \in Seq(S) /\ Len(abcd \o last) = 5
      /\ \A i \in 1..5 : (abcd \o last)[i] = IF i <= 4 THEN abcd[i] ELSE last[i - 4]
  <2>1. /\ abcd \o last \in Seq(S) /\ Len(abcd \o last) = Len(abcd) + Len(last)
        /\ \A i \in 1..Len(abcd) + Len(last) : (abcd \o last)[i] =
              IF i <= Len(abcd) THEN abcd[i] ELSE last[i - Len(abcd)]
    BY <1>2, <1>3, ConcatProperties, Zenon
  <2> QED  BY <1>2, <1>3, <2>1
<1>5. <<a, b, c, d, e>> \in Seq(S) /\ Len(<<a, b, c, d, e>>) = 5
  BY DEF S
<1>6. \A i \in 1..5 : (abcd \o last)[i] = <<a, b, c, d, e>>[i]
  BY <1>2, <1>3, <1>4
<1>7. abcd \o last = <<a, b, c, d, e>>
  BY <1>4, <1>5, <1>6, SeqEqual
<1> QED  BY <1>7 DEF abcd, last

LEMMA AdjustRateIInv ==
  ASSUME IInv, NEW d \in Steers, AdjustRate(d)
  PROVE  IInv'
<1> DEFINE x == <<Query("status"), Query("sf"), Query("mo"), Query("pl"), Op("newMO", d)>>
<1>1. <<Query("status")>> \o AllVariables \o <<Op("newMO", d)>> = x
  BY OneThreeOne DEF AllVariables
<1>2. /\ user = "menu" /\ todo' = x /\ user' = "busy"
      /\ UNCHANGED <<unit, due, line, s, logger, lock, comment, day, slip, mishaps>>
  BY <1>1, Going DEF AdjustRate, MenuChoice
<1>3. /\ \A q \in Queries : Query(q) \in Ops /\ Query(q).op = "query" /\ Query(q).arg = q
      /\ Op("newMO", d) \in Ops /\ Op("newMO", d).op = "newMO"
  BY OpTypes, PRS10Assumption DEF OpNames, Op
<1>4. x \in Seq(Ops) /\ x # << >> /\ DOMAIN x = 1..5
  BY <1>3 DEF Queries
<1>5. /\ \A i \in 1..4 : x[i].op = "query" /\ x[i].arg \in Queries
      /\ x[5].op = "newMO" /\ x[3] = Query("mo")
  BY <1>3 DEF Queries
<1> HIDE DEF x
<1>6. TodoTypes' /\ VerifyInv'
  BY <1>2, <1>4, <1>5 DEF TodoTypes, VerifyInv
<1>7. RateInv'
  BY <1>2, <1>4, <1>5 DEF RateInv
<1>8. Types'
  BY <1>2, <1>6, TypeParts DEF IInv, Types
<1>9. PortInv' /\ InStep'
  BY <1>2 DEF IInv, PortInv, InStep, Quiet
<1> QED  BY <1>6, <1>7, <1>8, <1>9 DEF IInv

LEMMA SetRateIInv == IInv /\ SetRate => IInv'
<1> SUFFICES ASSUME IInv, SetRate PROVE IInv'
  OBVIOUS
<1> DEFINE mo == NewMO(s.mo, Arg)
           x == <<Op("set", <<"mo", mo>>), Op("write", 0), Query("status"), Op("verify", mo),
                  Op("comment", 0), Query("mo"), Query("stored")>>
<1>1. /\ user = "busy"
      /\ UNCHANGED <<unit, due, line, s, logger, lock, comment, day, slip, mishaps>>
  BY DEF SetRate, Doing
<1>2. CASE mo \notin MO
  BY <1>1, <1>2, NothingIInv DEF SetRate, Go
<1>3. CASE mo \in MO
  <2>1. todo' = x /\ user' = "busy"
    BY <1>3, Going DEF SetRate
  <2> HIDE DEF mo
  <2>2. mo \in Int
    BY <1>3, PRS10Assumption
  <2>3. /\ Op("set", <<"mo", mo>>) \in Ops /\ Op("write", 0) \in Ops /\ Query("status") \in Ops
        /\ Op("verify", mo) \in Ops /\ Op("comment", 0) \in Ops
        /\ Query("mo") \in Ops /\ Query("stored") \in Ops
    BY <2>2, OpTypes DEF OpNames, Queries
  <2>4. x \in Seq(Ops) /\ x # << >> /\ DOMAIN x = 1..7
    BY <2>3
  <2>5. /\ x[1] = Op("set", <<"mo", mo>>) /\ x[2] = Op("write", 0) /\ x[3] = Query("status")
        /\ x[4] = Op("verify", mo) /\ x[5] = Op("comment", 0)
        /\ x[6] = Query("mo") /\ x[7] = Query("stored")
    OBVIOUS
  <2> HIDE DEF x
  <2>6. \A i \in 1..7 : i \in {1, 2, 3, 4, 5, 6, 7}
    OBVIOUS
  <2>7. /\ \A i \in 1..7 : x[i].op = "verify" <=> i = 4
        /\ \A i \in 1..7 : x[i].op = "set" <=> i = 1
        /\ \A i \in 1..7 : x[i].op = "query" <=> i \in {3, 6, 7}
        /\ \A i \in 1..7 : x[i].op # "newMO" /\ x[i].op # "commentWrite"
    BY <2>5, <2>6 DEF Op, Query
  <2>8. /\ x[1].arg \in {"mo", "sf"} \X Int /\ x[4].arg = mo
        /\ x[3].arg \in Queries /\ x[6].arg \in Queries /\ x[7].arg \in Queries
    BY <2>2, <2>5 DEF Op, Query, Queries
  <2>9. TodoTypes'
    BY <2>1, <2>4, <2>7, <2>8 DEF TodoTypes
  <2>10. x[2].op = "write"
    BY <2>5 DEF Op
  <2>11. VerifyInv' /\ RateInv'
    <3>1. \A i \in DOMAIN todo' : todo'[i].op = "verify" => i = 4 /\ todo'[i].arg = mo
      BY <2>1, <2>4, <2>7, <2>8
    <3>2. /\ todo'[1] = Op("set", <<"mo", mo>>) /\ todo'[2].op = "write"
          /\ todo'[3] = Query("status")
      BY <2>1, <2>5, <2>10
    <3>3. VerifyInv'
      BY <1>3, <3>1, <3>2 DEF VerifyInv
    <3>4. RateInv'
      BY <2>1, <2>4, <2>7 DEF RateInv
    <3> QED  BY <3>3, <3>4
  <2>12. Types'
    BY <1>1, <2>9, TypeParts DEF IInv, Types
  <2>13. PortInv' /\ InStep'
    BY <1>1, <2>1 DEF IInv, PortInv, InStep, Quiet
  <2> QED  BY <2>11, <2>12, <2>13 DEF IInv
<1> QED  BY <1>2, <1>3

LEMMA SetRateSFIInv == IInv /\ SetRateSF => IInv'
<1> SUFFICES ASSUME IInv, SetRateSF PROVE IInv'
  OBVIOUS
<1>1. /\ user = "busy"
      /\ UNCHANGED <<unit, due, line, s, logger, lock, comment, day, slip, mishaps>>
  BY DEF SetRateSF, Doing
<1>2. CASE Go(<< >>)
  BY <1>1, <1>2, NothingIInv DEF Go
<1>3. CASE ~Go(<< >>)
  <2>1. PICK v \in SF : Go(<<Op("set", <<"sf", v>>), Query("sf"), Op("comment", 0)>>)
    BY <1>3 DEF SetRateSF
  <2>2. todo' = <<Op("set", <<"sf", v>>), Query("sf"), Op("comment", 0)>> /\ user' = "busy"
    BY <2>1, Going
  <2>3. Op("set", <<"sf", v>>) \in Ops /\ Query("sf") \in Ops /\ Op("comment", 0) \in Ops
    BY OpTypes, PRS10Assumption DEF Queries, OpNames
  <2>4. Op("set", <<"sf", v>>).arg \in {"mo", "sf"} \X Int
    BY PRS10Assumption DEF Op
  <2> QED  BY <1>1, <2>2, <2>3, <2>4, OpTypes, QueriesIInv DEF Queries, Op
<1> QED  BY <1>2, <1>3

-----------------------------------------------------------------------------
(* Start and end, the logger, the unit and the calendar *)

LEMMA StartIInv == IInv /\ Start => IInv'
<1> SUFFICES ASSUME IInv, Start PROVE IInv'
  OBVIOUS
<1>1. /\ user = "none" /\ ~Alive(lock) /\ lock' = "prs10c" /\ line' = << >>
      /\ todo' = << >> /\ user' = "menu" /\ slip' = (due # << >>)
      /\ UNCHANGED <<unit, due, logger, comment, day, mishaps>>
  BY DEF Start, Go, LinesLeft
<1>2. s' \in Settings
  BY DEF Start, Settings
<1>3. TodoTypes' /\ VerifyInv' /\ RateInv'
  BY <1>1, NothingTypes
<1>4. Types'
  BY <1>1, <1>2, <1>3, TypeParts DEF IInv, Types
<1>5. PortInv'
  BY <1>1 DEF IInv, PortInv, Quiet, Alive
<1>6. InStep'
  BY <1>1 DEF InStep
<1> QED  BY <1>3, <1>4, <1>5, <1>6 DEF IInv

LEMMA RefusedIInv == IInv /\ Refused => IInv'
<1> SUFFICES ASSUME IInv, Refused PROVE IInv'
  OBVIOUS
<1>1. /\ user = "none" /\ mishaps' = mishaps \cup {"turned"}
      /\ UNCHANGED <<unit, due, line, s, todo, user, logger, comment, day, slip>>
  BY DEF Refused, Happens
<1>2. todo' = << >> /\ user' = "none"
  BY <1>1 DEF IInv, Types
<1>3. TodoTypes' /\ VerifyInv' /\ RateInv'
  BY <1>2, NothingTypes
<1>4. Types'
  BY <1>1, <1>3, TypeParts DEF IInv, Types
<1>5. PortInv' /\ InStep'
  BY <1>1 DEF IInv, PortInv, InStep, Quiet
<1> QED  BY <1>3, <1>4, <1>5 DEF IInv

LEMMA QuitIInv == IInv /\ Quit => IInv'
<1> SUFFICES ASSUME IInv, Quit PROVE IInv'
  OBVIOUS
<1>1. /\ user = "menu" /\ user' = "none" /\ todo' = << >> /\ lock' = "free"
      /\ UNCHANGED <<unit, due, line, s, logger, comment, day, slip, mishaps>>
  BY DEF Quit
<1>2. TodoTypes' /\ VerifyInv' /\ RateInv'
  BY <1>1, NothingTypes
<1>3. Types'
  BY <1>1, <1>2, TypeParts DEF IInv, Types
<1>4. PortInv' /\ InStep'
  BY <1>1 DEF IInv, PortInv, InStep, Quiet
<1> QED  BY <1>2, <1>3, <1>4 DEF IInv

LEMMA KilledIInv == IInv /\ Killed => IInv'
BY NothingIInv DEF Killed, Happens

LEMMA LoggerStartIInv == IInv /\ LoggerStart => IInv'
<1> SUFFICES ASSUME IInv, LoggerStart PROVE IInv'
  OBVIOUS
<1>1. /\ ~Alive(lock) /\ lock' = "logger" /\ line' = << >>
      /\ UNCHANGED <<unit, due, s, todo, user, comment, day, slip, mishaps>>
  BY DEF LoggerStart
<1>2. Types'
  BY <1>1, SameTypes, TypeParts DEF IInv, Types
<1>3. PortInv' /\ InStep'
  BY <1>1 DEF IInv, PortInv, InStep, Quiet, Alive
<1>4. VerifyInv' /\ RateInv'
  BY <1>1, SameTodo DEF Sound, Quiet
<1> QED  BY <1>2, <1>3, <1>4 DEF IInv

LEMMA LoggerStopIInv == IInv /\ LoggerStop => IInv'
<1> SUFFICES ASSUME IInv, LoggerStop PROVE IInv'
  OBVIOUS
<1>1. /\ ~logger'
      /\ UNCHANGED <<unit, due, line, s, todo, user, lock, comment, day, slip, mishaps>>
  BY DEF LoggerStop
<1>2. Types'
  BY <1>1, SameTypes, TypeParts DEF IInv, Types
<1>3. PortInv' /\ InStep'
  BY <1>1 DEF IInv, PortInv, InStep, Quiet
<1>4. VerifyInv' /\ RateInv'
  BY <1>1, SameTodo DEF Sound, Quiet
<1> QED  BY <1>2, <1>3, <1>4 DEF IInv

\* The logger takes the flags away: prs10c is not on the port, or was turned away
LEMMA LogStatusIInv == IInv /\ LogStatus => IInv'
<1> SUFFICES ASSUME IInv, LogStatus PROVE IInv'
  OBVIOUS
<1>1. /\ logger /\ unit' = Asked("status") /\ line' = << >> /\ due' = << >>
      /\ UNCHANGED <<s, todo, user, logger, lock, comment, day, slip, mishaps>>
  BY DEF LogStatus
<1>2. unit' \in Units
  BY <1>1, AnswerTypes DEF IInv, Types, Queries
<1>3. Types'
  BY <1>1, <1>2, SameTypes, TypeParts DEF IInv, Types
<1>4. PortInv' /\ InStep'
  BY <1>1 DEF IInv, PortInv, InStep, Quiet
<1>5. Sound => todo = << >>
  BY <1>1 DEF IInv, Types, PortInv, Sound, Quiet
<1>6. VerifyInv' /\ RateInv'
  BY <1>1, <1>5, SameTodo DEF Sound, Quiet
<1> QED  BY <1>3, <1>4, <1>6 DEF IInv

LEMMA PowerCycleIInv == IInv /\ PowerCycle => IInv'
<1> SUFFICES ASSUME IInv, PowerCycle PROVE IInv'
  OBVIOUS
<1>1. /\ unit' = [unit EXCEPT !.mo = unit.stored, !.sf = 0, !.flags = {"reset"}]
      /\ due' = << >> /\ line' = << >> /\ mishaps' = mishaps \cup {"power"}
      /\ UNCHANGED <<s, todo, user, logger, lock, comment, day, slip>>
  BY DEF PowerCycle, Happens
<1>2. unit' \in Units
  BY <1>1 DEF IInv, Types, Units, Flags
<1>3. Types'
  BY <1>1, <1>2, SameTypes, TypeParts DEF IInv, Types
<1>4. PortInv'
  BY <1>1, QuietBefore DEF IInv, PortInv
<1>5. InStep' /\ ~Sound'
  BY <1>1 DEF InStep, Sound, Quiet
<1>6. VerifyInv' /\ RateInv'
  BY <1>1, <1>5, SameTodo
<1> QED  BY <1>3, <1>4, <1>5, <1>6 DEF IInv

LEMMA NextDayIInv == IInv /\ NextDay => IInv'
<1> SUFFICES ASSUME IInv, NextDay PROVE IInv'
  OBVIOUS
<1>1. /\ day' = day + 1 /\ mishaps \subseteq mishaps'
      /\ UNCHANGED <<unit, due, line, s, todo, user, logger, lock, comment, slip>>
  BY DEF NextDay, Happens
<1>2. Types'
  BY <1>1, SameTypes, TypeParts DEF IInv, Types
<1>3. PortInv' /\ InStep'
  BY <1>1, QuietBefore DEF IInv, PortInv, InStep
<1>4. VerifyInv' /\ RateInv'
  <2>1. Sound' => Sound
    BY <1>1, QuietBefore DEF Sound
  <2> QED  BY <1>1, <2>1, SameTodo
<1> QED  BY <1>2, <1>3, <1>4 DEF IInv

-----------------------------------------------------------------------------

LEMMA InitIInv == Init => IInv
<1> SUFFICES ASSUME Init PROVE IInv
  OBVIOUS
<1>1. unit \in Units /\ s \in Settings
  BY DEF Init, Units, Settings, Flags
<1>2. todo = << >> /\ due = << >> /\ line = << >> /\ comment = << >>
  BY DEF Init
<1>3. Types
  BY <1>1, <1>2 DEF Init, Types
<1>4. PortInv /\ InStep /\ VerifyInv /\ RateInv
  BY <1>2 DEF Init, PortInv, InStep, VerifyInv, RateInv
<1> QED  BY <1>3, <1>4 DEF IInv

LEMMA StepIInv == IInv /\ [Next]_vars => IInv'
<1> SUFFICES ASSUME IInv, [Next]_vars PROVE IInv'
  OBVIOUS
<1>1. CASE UNCHANGED vars
  BY <1>1 DEF vars, IInv, Types, PortInv, InStep, VerifyInv, RateInv, Sound, Quiet
<1>2. ASSUME NEW d \in Steers, AdjustRate(d) PROVE IInv'
  BY <1>2, AdjustRateIInv
<1> QED  BY <1>1, <1>2, AnswerReadIInv, AnswerLateIInv, ArriveIInv, SetParamIInv, StepPPSIInv,
            WriteEEPROMIInv, VerifyIInv, CommentOpenIInv, CommentWriteIInv, SetRateIInv,
            SetRateSFIInv, ChoiceIInv, StartIInv, RefusedIInv, QuitIInv, KilledIInv,
            LoggerStartIInv, LoggerStopIInv, LogStatusIInv, PowerCycleIInv, NextDayIInv DEF Next

\* The invariant of which the others are consequences.
THEOREM InductiveInvariant == Spec => []IInv
BY InitIInv, StepIInv, PTL DEF Spec

\* The unit is only told values that it allows, and prs10c only believes such values.
THEOREM TypeCorrect == Spec => []TypeOK
<1>1. IInv => TypeOK
  BY DEF IInv, Types, Units, TypeOK
<1> QED  BY <1>1, InductiveInvariant, PTL

\* lockport keeps prs10c and prs10log apart, as long as nobody was turned away.
THEOREM OnePortUsers == Spec => []OnePortUser
<1>1. IInv => OnePortUser
  BY DEF IInv, PortInv, OnePortUser
<1> QED  BY <1>1, InductiveInvariant, PTL

\* In step, and with no failure but that of the EEPROM, the offset that the history says
\* was written is in the EEPROM.
THEOREM ToldStored == Spec => ToldIsStored
<1>1. IInv /\ [Next]_vars =>
        [(told' # told /\ ~slip /\ Quiet({"turned", "power"})) => unit.stored = told']_vars
  <2> SUFFICES ASSUME IInv, Next, told' # told, ~slip, Quiet({"turned", "power"})
               PROVE  unit.stored = told'
    OBVIOUS
  <2>1. Verify
    BY DEF Next, AnswerRead, AnswerLate, Arrive, SetParam, StepPPS, WriteEEPROM, CommentOpen,
           CommentWrite, AdjustRate, SetRate, AdjustRateSF, SetRateSF, Adjust1PPSphase,
           PrintStatus, PrintVariables, MenuChoice, Start, Refused, Quit, Killed, LoggerStart,
           LoggerStop, LogStatus, PowerCycle, NextDay
  <2>2. Doing("verify") /\ "eepromFail" \notin s.flags /\ told' = Arg
    BY <2>1 DEF Verify, WriteFailed
  <2>3. todo[1].op = "verify" /\ Arg = todo[1].arg /\ 1 \in DOMAIN todo
    BY <2>2, Busy DEF IInv
  <2> QED  BY <2>2, <2>3 DEF IInv, VerifyInv, Sound
<1> QED  BY <1>1, InductiveInvariant, PTL DEF Spec, ToldIsStored

\* In step, the offset is changed from the one that the unit has.
THEOREM RatesFromUnit == Spec => RateFromUnit
<1>1. IInv /\ [Next]_vars =>
        [(Doing("newMO") /\ todo' # << >> /\ Head(todo').op = "set" /\ ~slip
            /\ Quiet({"turned", "power"})) => Head(todo').arg[2] = NewMO(unit.mo, Arg)]_vars
  <2> SUFFICES ASSUME IInv, Next, Doing("newMO"), todo' # << >>, Head(todo').op = "set", ~slip,
                      Quiet({"turned", "power"})
               PROVE  Head(todo').arg[2] = NewMO(unit.mo, Arg)
    OBVIOUS
  <2>1. todo[1].op = "newMO" /\ 1 \in DOMAIN todo /\ user = "busy" /\ todo # << >>
        /\ Head(todo).op = "newMO"
    BY Busy DEF IInv, Doing
  <2>2. s.mo = unit.mo
    BY <2>1 DEF IInv, RateInv, Sound
  <2>3. todo' # todo
    BY <2>1
  <2>4. SetRate
    BY <2>1, <2>3 DEF Next, AnswerRead, AnswerLate, Arrive, SetParam, StepPPS, WriteEEPROM,
           Verify, CommentOpen, CommentWrite, AdjustRate, AdjustRateSF, SetRateSF,
           Adjust1PPSphase, PrintStatus, PrintVariables, MenuChoice, Doing, Start, Refused,
           Quit, Killed, LoggerStart, LoggerStop, LogStatus, PowerCycle, NextDay
  <2> DEFINE mo == NewMO(s.mo, Arg)
  <2>5. todo' = IF mo \notin MO THEN << >>
                ELSE <<Op("set", <<"mo", mo>>), Op("write", 0), Query("status"),
                       Op("verify", mo), Op("comment", 0), Query("mo"), Query("stored")>>
    BY <2>4 DEF SetRate, Go
  <2> HIDE DEF mo
  <2>6. Head(todo') = Op("set", <<"mo", mo>>)
    BY <2>5
  <2>7. Head(todo').arg[2] = mo
    BY <2>6 DEF Op
  <2> QED  BY <2>2, <2>7 DEF mo
<1> QED  BY <1>1, InductiveInvariant, PTL DEF Spec, RateFromUnit
-----------------------------------------------------------------------------
(* The CCTF header.  What prs10c is about to do has an order: it steers first, and then
   writes the comment; between the two, the days on which the unit was steered are those
   of the header and today. *)

Disturbances == {"late", "turned", "power", "killed", "eeprom", "midnight"}
Steering     == {"set", "step"}
Pending(op)  == \E i \in DOMAIN todo : todo[i].op = op

\* The order of what is to be done
OrderInv ==
  \A i \in DOMAIN todo :
    /\ todo[i].op \in Steering => i = 1 /\ Pending("comment")
    /\ todo[i].op = "comment" => \A j \in DOMAIN todo : todo[j].op = "comment" => j = i
    /\ todo[i].op = "commentWrite" => i = 1 /\ ~Pending("comment")
    /\ todo[i].op \in {"newMO", "newSF"} => /\ i = Len(todo)
                                            /\ \A j \in 1..i - 1 : todo[j].op = "query"

\* No answer waits for the next query, and no write to the EEPROM has failed.
Clear == /\ due = << >> /\ line = << >>
         /\ "eepromFail" \notin unit.flags /\ "eepromFail" \notin s.flags

\* What the header lacks is about to be written.
Header ==
  /\ Len(comment) <= 2
  /\ Pending("comment") => IF todo[1].op \in Steering THEN comment = steered
                           ELSE steered = LastTwo(comment, day)
  /\ ~Pending("comment") => IF Pending("commentWrite") THEN todo[1].arg = steered
                            ELSE comment = steered

SteerInv ==
  /\ OrderInv
  /\ steered \in Seq(Nat) /\ Len(steered) <= 2
  /\ Quiet(Disturbances) => Clear /\ Header

LEMMA LastTwoTypes ==
  ASSUME NEW days \in Seq(Nat), Len(days) <= 2, NEW d \in Nat
  PROVE  /\ LastTwo(days, d) \in Seq(Nat) /\ Len(LastTwo(days, d)) <= 2
         /\ Commented(days, d) = LastTwo(days, d)
<1>1. Len(days) \in Nat /\ (Len(days) = 2 => days[2] \in Nat)
  <2>1. Len(days) = 2 => 2 \in 1..Len(days)
    OBVIOUS
  <2> QED  BY <2>1
<1>2. CASE \E i \in DOMAIN days : days[i] = d
  BY <1>2 DEF LastTwo, Commented
<1>3. CASE ~(\E i \in DOMAIN days : days[i] = d) /\ Len(days) = 2
  <2>1. LastTwo(days, d) = <<days[2], d>> /\ Commented(days, d) = <<days[2], d>>
    BY <1>3 DEF LastTwo, Commented
  <2> QED  BY <1>1, <1>3, <2>1
<1>4. CASE ~(\E i \in DOMAIN days : days[i] = d) /\ Len(days) < 2
  <2>1. LastTwo(days, d) = Append(days, d) /\ Commented(days, d) = Append(days, d)
    BY <1>4 DEF LastTwo, Commented
  <2> QED  BY <1>1, <1>4, <2>1, AppendProperties
<1>5. Len(days) = 2 \/ Len(days) < 2
  <2>1. PICK n \in Nat : n = Len(days)
    BY <1>1
  <2>2. n <= 2
    BY <2>1
  <2>3. n = 2 \/ n < 2
    BY ONLY n \in Nat, <2>2
  <2> QED  BY <2>1, <2>3
<1> QED  BY <1>2, <1>3, <1>4, <1>5, Zenon

\* The first operation is done: what steers, and the comment half written, come first, so
\* neither is left.
LEMMA DoneOrder ==
  ASSUME Types, OrderInv, NEW op, Doing(op), Go(Next1)
  PROVE  /\ OrderInv' /\ ~Pending("commentWrite")'
         /\ op # "comment" => (Pending("comment")' <=> Pending("comment"))
         /\ op = "comment" => ~Pending("comment")'
         /\ Pending("comment")' => todo'[1].op \notin Steering
<1>1. /\ todo[1].op = op /\ Len(todo) \in Nat \ {0} /\ DOMAIN todo = 1..Len(todo)
      /\ DOMAIN todo' = 1..Len(todo) - 1 /\ Len(todo') = Len(todo) - 1
      /\ \A i \in DOMAIN todo' : todo'[i] = todo[i + 1] /\ i + 1 \in DOMAIN todo /\ i + 1 # 1
  BY Busy, Line DEF Go, Next1
<1>2. \A i \in DOMAIN todo : i = 1 \/ (i - 1 \in DOMAIN todo' /\ todo'[i - 1] = todo[i])
  BY <1>1
<1>3. \A i \in DOMAIN todo' : todo'[i].op \notin Steering /\ todo'[i].op # "commentWrite"
  BY <1>1 DEF OrderInv
<1>4. op # "comment" => (Pending("comment")' <=> Pending("comment"))
  BY <1>1, <1>2 DEF Pending
<1>5. op = "comment" => ~Pending("comment")'
  <2> SUFFICES ASSUME op = "comment", NEW i \in DOMAIN todo', todo'[i].op = "comment"
               PROVE  FALSE
    BY DEF Pending
  <2>1. 1 \in DOMAIN todo /\ i + 1 \in DOMAIN todo /\ todo[i + 1].op = "comment" /\ i + 1 # 1
    BY <1>1
  <2> QED  BY <1>1, <2>1 DEF OrderInv
<1>6. ASSUME NEW i \in DOMAIN todo', todo'[i].op = "comment",
             NEW j \in DOMAIN todo', todo'[j].op = "comment"
      PROVE  j = i
  <2>1. j + 1 = i + 1
    BY <1>1, <1>6 DEF OrderInv
  <2> QED  BY <1>1, <2>1
<1>7. ASSUME NEW i \in DOMAIN todo', todo'[i].op \in {"newMO", "newSF"}
      PROVE  i = Len(todo') /\ \A j \in 1..i - 1 : todo'[j].op = "query"
  <2>1. i + 1 = Len(todo) /\ \A j \in 1..i + 1 - 1 : todo[j].op = "query"
    BY <1>1, <1>7 DEF OrderInv
  <2>2. \A j \in 1..i - 1 : j + 1 \in 1..i + 1 - 1 /\ j \in DOMAIN todo'
    BY <1>1
  <2> QED  BY <1>1, <2>1, <2>2
<1>8. OrderInv'
  BY <1>3, <1>6, <1>7 DEF OrderInv
<1>9. Pending("comment")' => todo'[1].op \notin Steering
  <2>1. Pending("comment")' => 1 \in DOMAIN todo'
    BY <1>1 DEF Pending
  <2> QED  BY <1>3, <2>1
<1> QED  BY <1>3, <1>4, <1>5, <1>8, <1>9 DEF Pending

LEMMA NothingOrder ==
  ASSUME todo' = << >>
  PROVE  OrderInv' /\ ~Pending("comment")' /\ ~Pending("commentWrite")'
BY DEF OrderInv, Pending

LEMMA QuietParts ==
  Quiet(Disturbances)' => /\ "late" \notin mishaps' /\ "turned" \notin mishaps'
                          /\ "power" \notin mishaps' /\ "killed" \notin mishaps'
                          /\ "eeprom" \notin mishaps' /\ "midnight" \notin mishaps'
BY DEF Quiet, Disturbances

\* A step that leaves the line of operations, the header and the calendar alone
LEMMA SameSteers ==
  ASSUME SteerInv, UNCHANGED <<todo, comment, steered, day>>, mishaps \subseteq mishaps',
         Quiet(Disturbances)' /\ Clear => Clear'
  PROVE  SteerInv'
<1>1. OrderInv' /\ Header' = Header
  BY DEF SteerInv, OrderInv, Header, Pending
<1>2. Quiet(Disturbances)' => Quiet(Disturbances)
  BY QuietBefore
<1> QED  BY <1>1, <1>2 DEF SteerInv

\* A step that neither steers nor writes the header
LEMMA DoneSteers ==
  ASSUME IInv, SteerInv, NEW op, Doing(op), Go(Next1),
         op \notin Steering, op # "comment", op # "commentWrite",
         UNCHANGED <<comment, steered, day>>, mishaps \subseteq mishaps',
         Quiet(Disturbances)' /\ Clear => Clear'
  PROVE  SteerInv'
<1>1. Quiet(Disturbances)' => Quiet(Disturbances)
  BY QuietBefore
<1>2. Types /\ todo[1].op = op /\ 1 \in DOMAIN todo
  BY Busy DEF IInv
<1>3. /\ OrderInv' /\ ~Pending("commentWrite")'
      /\ Pending("comment")' <=> Pending("comment")
      /\ Pending("comment")' => todo'[1].op \notin Steering
  BY <1>2, DoneOrder DEF SteerInv
<1>4. ~Pending("commentWrite")
  BY <1>2 DEF SteerInv, OrderInv, Pending
<1>5. Header => Header'
  BY <1>2, <1>3, <1>4 DEF Header
<1> QED  BY <1>1, <1>2, <1>3, <1>5 DEF SteerInv

\* The rest is given up, or nothing was to be done: the header is right already.
LEMMA NothingSteers ==
  ASSUME SteerInv, todo' = << >>, UNCHANGED <<comment, steered>>, mishaps \subseteq mishaps',
         Quiet(Disturbances)' /\ Clear /\ Header => Clear' /\ comment = steered
  PROVE  SteerInv'
<1>1. OrderInv' /\ ~Pending("comment")' /\ ~Pending("commentWrite")'
  BY NothingOrder
<1>2. Quiet(Disturbances)' => Quiet(Disturbances)
  BY QuietBefore
<1> QED  BY <1>1, <1>2 DEF SteerInv, Header

LEMMA NothingPending ==
  ASSUME Types, user # "busy"
  PROVE  todo = << >> /\ ~Pending("comment") /\ ~Pending("commentWrite")
BY DEF Types, Pending

LEMMA AnswerReadSteers == IInv /\ SteerInv /\ AnswerRead => SteerInv'
<1> SUFFICES ASSUME IInv, SteerInv, AnswerRead PROVE SteerInv'
  OBVIOUS
<1> DEFINE q == Arg
           lines == Append(line, Answer(q))
<1>1. /\ Types /\ Doing("query") /\ Go(Next1) /\ unit' = Asked(q)
      /\ UNCHANGED <<due, comment, steered, day, mishaps>>
      /\ s' \in Taken(q, Head(lines)) /\ line' = Tail(lines)
  BY DEF IInv, AnswerRead
<1>2. q \in Queries
  BY <1>1, Busy, SMTT(30) DEF Types
<1>3. Answer(q) \in Answers /\ (q = "status" => Answer(q).k = "status" /\ Answer(q).flags = unit.flags)
  BY <1>1, <1>2, AnswerTypes DEF Types, Answer
<1>4. line = << >> => Head(lines) = Answer(q) /\ line' = << >>
  BY <1>1, <1>3, Queued DEF Types
<1>5. unit'.flags = IF q = "status" THEN {} ELSE unit.flags
  BY <1>1 DEF Asked, Types, Units
<1>6. line = << >> /\ q = "status" => s'.flags = unit.flags
  BY <1>1, <1>3, <1>4, TakenTypes, <1>2 DEF Types
<1> HIDE DEF q
<1>7. line = << >> /\ q # "status" => s'.flags = s.flags
  BY <1>1, <1>2 DEF Taken, Types, Settings, Queries
<1> HIDE DEF lines
<1>8. Clear => Clear'
  BY <1>1, <1>4, <1>5, <1>6, <1>7 DEF Clear
<1> QED  BY <1>1, <1>8, DoneSteers DEF Steering

LEMMA AnswerLateSteers == IInv /\ SteerInv /\ AnswerLate => SteerInv'
BY DoneSteers, QuietParts DEF AnswerLate, Happens, Steering

LEMMA ArriveSteers == SteerInv /\ Arrive => SteerInv'
BY SameSteers DEF Arrive, Clear

\* Out of range, nothing is sent: the header is right as it is, and the rest is given up.
LEMMA SetParamSteers == IInv /\ SteerInv /\ SetParam => SteerInv'
<1> SUFFICES ASSUME IInv, SteerInv, SetParam PROVE SteerInv'
  OBVIOUS
<1> DEFINE p == Arg[1]
           v == Arg[2]
<1>1. /\ Types /\ Doing("set") /\ todo[1].op = "set" /\ 1 \in DOMAIN todo
      /\ p \in {"mo", "sf"} /\ unit \in Units /\ s \in Settings
      /\ comment \in Seq(Nat) /\ day \in Nat
      /\ UNCHANGED <<due, line, comment, day, mishaps>>
  BY Busy DEF IInv, SetParam, Types
<1>2. Pending("comment") /\ (Header => comment = steered)
  BY <1>1 DEF SteerInv, OrderInv, Header, Steering
<1>3. CASE v \notin Allowed(p)
  <2>1. todo' = << >> /\ UNCHANGED <<s, unit, steered>>
    BY <1>3 DEF SetParam, Go
  <2> QED  BY <1>1, <1>2, <2>1, NothingSteers DEF Clear
<1>4. CASE v \in Allowed(p)
  <2>1. /\ Go(Next1) /\ s' = [s EXCEPT ![p] = v] /\ unit' = [unit EXCEPT ![p] = v]
        /\ steered' = LastTwo(steered, day)
    BY <1>4 DEF SetParam
  <2>2. unit'.flags = unit.flags /\ s'.flags = s.flags
    BY <1>1, <2>1 DEF Units, Settings
  <2>3. OrderInv' /\ Pending("comment")' /\ todo'[1].op \notin Steering
    BY <1>1, <1>2, <2>1, DoneOrder DEF SteerInv
  <2>4. Header => Header'
    BY <1>1, <1>2, <2>1, <2>3 DEF Header
  <2>5. steered' \in Seq(Nat) /\ Len(steered') <= 2
    BY <1>1, <2>1, LastTwoTypes DEF SteerInv
  <2> QED  BY <1>1, <2>2, <2>3, <2>4, <2>5 DEF SteerInv, Clear, Quiet
<1> QED  BY <1>3, <1>4

LEMMA StepPPSSteers == IInv /\ SteerInv /\ StepPPS => SteerInv'
<1> SUFFICES ASSUME IInv, SteerInv, StepPPS PROVE SteerInv'
  OBVIOUS
<1>1. /\ Types /\ Doing("step") /\ todo[1].op = "step" /\ 1 \in DOMAIN todo /\ Go(Next1)
      /\ comment \in Seq(Nat) /\ day \in Nat /\ steered' = LastTwo(steered, day)
      /\ UNCHANGED <<unit, s, due, line, comment, day, mishaps>>
  BY Busy DEF IInv, StepPPS, Types
<1>2. Pending("comment") /\ (Header => comment = steered)
  BY <1>1 DEF SteerInv, OrderInv, Header, Steering
<1>3. OrderInv' /\ Pending("comment")' /\ todo'[1].op \notin Steering
  BY <1>1, <1>2, DoneOrder DEF SteerInv
<1>4. Header => Header'
  BY <1>1, <1>2, <1>3 DEF Header
<1>5. steered' \in Seq(Nat) /\ Len(steered') <= 2
  BY <1>1, LastTwoTypes DEF SteerInv
<1> QED  BY <1>1, <1>3, <1>4, <1>5 DEF SteerInv, Clear, Quiet

LEMMA WriteEEPROMSteers == IInv /\ SteerInv /\ WriteEEPROM => SteerInv'
<1> SUFFICES ASSUME IInv, SteerInv, WriteEEPROM PROVE SteerInv'
  OBVIOUS
<1>1. /\ Doing("write") /\ Go(Next1) /\ mishaps \subseteq mishaps' /\ unit \in Units
      /\ UNCHANGED <<due, line, s, comment, steered, day>>
  BY DEF WriteEEPROM, Happens, IInv, Types
<1>2. Quiet(Disturbances)' => unit' = [unit EXCEPT !.stored = unit.mo]
  BY QuietParts DEF WriteEEPROM, Happens
<1>3. Quiet(Disturbances)' => unit'.flags = unit.flags
  BY <1>1, <1>2 DEF Units
<1> QED  BY <1>1, <1>3, DoneSteers DEF Clear, Steering

LEMMA VerifySteers == IInv /\ SteerInv /\ Verify => SteerInv'
<1> SUFFICES ASSUME IInv, SteerInv, Verify PROVE SteerInv'
  OBVIOUS
<1>1. /\ Doing("verify")
      /\ UNCHANGED <<unit, due, line, s, comment, steered, day, mishaps>>
  BY DEF Verify
<1>2. CASE WriteFailed
  <2>1. todo' = << >> /\ ~Clear
    BY <1>2 DEF Verify, Go, Clear, WriteFailed
  <2> QED  BY <1>1, <2>1, NothingSteers
<1>3. CASE ~WriteFailed
  <2>1. Go(Next1)
    BY <1>3 DEF Verify
  <2> QED  BY <1>1, <2>1, DoneSteers DEF Clear, Steering
<1> QED  BY <1>2, <1>3

\* The file is empty; what is written to it are the days on which the unit was steered.
LEMMA CommentOpenSteers == IInv /\ SteerInv /\ CommentOpen => SteerInv'
<1> SUFFICES ASSUME IInv, SteerInv, CommentOpen PROVE SteerInv'
  OBVIOUS
<1> DEFINE o == Op("commentWrite", Commented(comment, day))
<1>1. /\ Types /\ todo \in Seq(Ops) /\ todo # << >> /\ todo[1].op = "comment"
      /\ 1 \in DOMAIN todo /\ comment \in Seq(Nat) /\ day \in Nat
      /\ comment' = << >> /\ Go(<<o>> \o Next1)
      /\ UNCHANGED <<unit, due, line, s, steered, day, mishaps>>
  BY Busy DEF IInv, CommentOpen, Types
<1>2. o \in Ops /\ o.op = "commentWrite" /\ o.arg = Commented(comment, day)
  BY <1>1, CommentTypes DEF Op, Ops, OpNames, Args
<1> HIDE DEF o
<1>3. /\ DOMAIN todo' = DOMAIN todo /\ todo'[1] = o
      /\ DOMAIN todo = 1..Len(todo) /\ Len(todo) \in Nat
      /\ \A i \in DOMAIN todo : i # 1 => todo'[i] = todo[i]
  BY <1>1, <1>2, Line DEF Go, Next1
<1>4. \A i \in DOMAIN todo : i # 1 =>
        todo[i].op \notin Steering \cup {"comment", "commentWrite", "newMO", "newSF"}
  <2> SUFFICES ASSUME NEW i \in DOMAIN todo, i # 1,
                      todo[i].op \in Steering \cup {"comment", "commentWrite", "newMO", "newSF"}
               PROVE  FALSE
    OBVIOUS
  <2>1. todo[i].op \in {"newMO", "newSF"}
    BY <1>1 DEF SteerInv, OrderInv
  <2>2. 1 \in 1..i - 1
    BY <1>3
  <2>3. todo[1].op = "query"
    BY <2>1, <2>2 DEF SteerInv, OrderInv
  <2> QED  BY <1>1, <2>3
<1>5. \A i \in DOMAIN todo' : IF i = 1 THEN todo'[i].op = "commentWrite"
        ELSE todo'[i].op \notin Steering \cup {"comment", "commentWrite", "newMO", "newSF"}
  BY <1>2, <1>3, <1>4
<1>6. ~Pending("comment")' /\ Pending("commentWrite")'
  BY <1>1, <1>3, <1>5 DEF Pending
<1>7. OrderInv'
  BY <1>5, <1>6 DEF OrderInv, Steering
<1>8. Header => todo'[1].arg = steered
  <2>1. Pending("comment") /\ todo[1].op \notin Steering
    BY <1>1 DEF Pending, Steering
  <2> QED  BY <1>1, <1>2, <1>3, <2>1, LastTwoTypes DEF Header
<1>9. Len(comment') <= 2
  BY <1>1
<1>10. Header => Header'
  BY <1>1, <1>6, <1>8, <1>9 DEF Header
<1> QED  BY <1>1, <1>7, <1>10 DEF SteerInv, Clear, Quiet

LEMMA CommentWriteSteers == IInv /\ SteerInv /\ CommentWrite => SteerInv'
<1> SUFFICES ASSUME IInv, SteerInv, CommentWrite PROVE SteerInv'
  OBVIOUS
<1>1. /\ Types /\ Doing("commentWrite") /\ todo[1].op = "commentWrite" /\ 1 \in DOMAIN todo
      /\ Go(Next1) /\ comment' = todo[1].arg
      /\ UNCHANGED <<unit, due, line, s, steered, day, mishaps>>
  BY Busy DEF IInv, CommentWrite
<1>2. ~Pending("comment") /\ Pending("commentWrite")
  BY <1>1 DEF SteerInv, OrderInv, Pending
<1>3. OrderInv' /\ ~Pending("comment")' /\ ~Pending("commentWrite")'
  BY <1>1, <1>2, DoneOrder DEF SteerInv
<1>4. Header => comment' = steered
  BY <1>1, <1>2 DEF Header
<1> QED  BY <1>1, <1>3, <1>4 DEF SteerInv, Header, Clear, Quiet

\* What the user chooses at the menu: it steers first, or asks and then works out how.
LEMMA ChoiceSteers ==
  ASSUME IInv, SteerInv,
         (\E d \in Steers : AdjustRate(d)) \/ AdjustRateSF \/ Adjust1PPSphase
           \/ PrintStatus \/ PrintVariables
  PROVE  SteerInv'
<1>1. /\ Types /\ user = "menu"
      /\ UNCHANGED <<unit, due, line, s, comment, steered, day, mishaps>>
  BY DEF AdjustRate, AdjustRateSF, Adjust1PPSphase, PrintStatus, PrintVariables, MenuChoice, IInv
<1>2. ~Pending("comment") /\ ~Pending("commentWrite")
  BY <1>1, NothingPending
<1>3. ASSUME OrderInv', ~Pending("commentWrite")',
             Pending("comment")' => todo'[1].op \in Steering
      PROVE  SteerInv'
  BY <1>1, <1>2, <1>3 DEF SteerInv, Header, Clear, Quiet
<1>4. \A q : Query(q).op = "query"
  BY DEF Query, Op
<1>5. ASSUME NEW d \in Steers, AdjustRate(d) PROVE SteerInv'
  <2> DEFINE x == <<Query("status"), Query("sf"), Query("mo"), Query("pl"), Op("newMO", d)>>
  <2>1. <<Query("status")>> \o AllVariables \o <<Op("newMO", d)>> = x
    BY OneThreeOne DEF AllVariables
  <2>2. todo' = x
    BY <1>5, <2>1 DEF AdjustRate, MenuChoice, Go
  <2>3. /\ DOMAIN x = 1..5 /\ Len(x) = 5 /\ x[5].op = "newMO"
        /\ \A i \in 1..4 : x[i].op = "query"
    BY <1>4 DEF Op
  <2> HIDE DEF x
  <2>4. OrderInv' /\ ~Pending("comment")' /\ ~Pending("commentWrite")'
    BY <2>2, <2>3 DEF OrderInv, Pending, Steering
  <2> QED  BY <1>3, <2>4
<1>6. CASE AdjustRateSF
  <2> DEFINE x == <<Query("pl"), Query("sf"), Op("newSF", 0)>>
  <2>1. todo' = x
    BY <1>6 DEF AdjustRateSF, MenuChoice, Go
  <2>2. /\ DOMAIN x = 1..3 /\ Len(x) = 3 /\ x[3].op = "newSF"
        /\ \A i \in 1..2 : x[i].op = "query"
    BY <1>4 DEF Op
  <2> HIDE DEF x
  <2>3. OrderInv' /\ ~Pending("comment")' /\ ~Pending("commentWrite")'
    BY <2>1, <2>2 DEF OrderInv, Pending, Steering
  <2> QED  BY <1>3, <2>3
<1>7. CASE Adjust1PPSphase
  <2> DEFINE x == <<Op("step", 0), Op("comment", 0)>>
  <2>1. todo' = x
    BY <1>7 DEF Adjust1PPSphase, MenuChoice, Go
  <2>2. DOMAIN x = 1..2 /\ x[1].op = "step" /\ x[2].op = "comment"
    BY DEF Op
  <2> HIDE DEF x
  <2>3. OrderInv' /\ ~Pending("commentWrite")' /\ todo'[1].op \in Steering
    BY <2>1, <2>2 DEF OrderInv, Pending, Steering
  <2> QED  BY <1>3, <2>3
<1>8. CASE PrintStatus \/ PrintVariables
  <2>1. \A i \in DOMAIN todo' : todo'[i].op = "query"
    BY <1>4, <1>8 DEF PrintStatus, PrintVariables, AllVariables, MenuChoice, Go
  <2>2. OrderInv' /\ ~Pending("comment")' /\ ~Pending("commentWrite")'
    BY <2>1 DEF OrderInv, Pending, Steering
  <2> QED  BY <1>3, <2>2
<1> QED  BY <1>5, <1>6, <1>7, <1>8

\* The new value is worked out last, with nothing left to write to the header.
LEMMA LastPending ==
  ASSUME Types, OrderInv, NEW op \in {"newMO", "newSF"}, Doing(op)
  PROVE  ~Pending("comment") /\ ~Pending("commentWrite")
<1>1. todo[1].op = op /\ DOMAIN todo = 1..Len(todo) /\ Len(todo) \in Nat \ {0}
  BY Busy
<1>2. Len(todo) = 1
  BY <1>1 DEF OrderInv
<1> QED  BY <1>1, <1>2 DEF Pending

LEMMA SetRateSteers == IInv /\ SteerInv /\ SetRate => SteerInv'
<1> SUFFICES ASSUME IInv, SteerInv, SetRate PROVE SteerInv'
  OBVIOUS
<1> DEFINE mo == NewMO(s.mo, Arg)
           x == <<Op("set", <<"mo", mo>>), Op("write", 0), Query("status"), Op("verify", mo),
                  Op("comment", 0), Query("mo"), Query("stored")>>
<1>1. UNCHANGED <<unit, due, line, s, comment, steered, day, mishaps>>
  BY DEF SetRate
<1>2. ~Pending("comment") /\ ~Pending("commentWrite")
  BY LastPending DEF SetRate, IInv, SteerInv
<1>3. CASE mo \notin MO
  <2>1. todo' = << >>
    BY <1>3 DEF SetRate, Go
  <2> QED  BY <1>1, <1>2, <2>1, NothingSteers DEF Clear, Header
<1>4. CASE mo \in MO
  <2>1. todo' = x
    BY <1>4 DEF SetRate, Go
  <2> HIDE DEF mo
  <2>2. /\ DOMAIN x = 1..7 /\ x[1].op = "set" /\ x[2].op = "write" /\ x[3].op = "query"
        /\ x[4].op = "verify" /\ x[5].op = "comment" /\ x[6].op = "query" /\ x[7].op = "query"
    BY DEF Op, Query
  <2> HIDE DEF x
  <2>3. \A i \in DOMAIN todo' : i \in {1, 2, 3, 4, 5, 6, 7}
    BY <2>1, <2>2
  <2>4. \A i \in DOMAIN todo' : /\ todo'[i].op \in Steering <=> i = 1
                                /\ todo'[i].op = "comment" <=> i = 5
                                /\ todo'[i].op \notin {"commentWrite", "newMO", "newSF"}
    BY <2>1, <2>2, <2>3 DEF Steering
  <2>5. 1 \in DOMAIN todo' /\ 5 \in DOMAIN todo'
    BY <2>1, <2>2
  <2>6. Pending("comment")' /\ ~Pending("commentWrite")' /\ todo'[1].op \in Steering
    BY <2>4, <2>5 DEF Pending
  <2>7. OrderInv'
    BY <2>4, <2>6 DEF OrderInv
  <2> QED  BY <1>1, <1>2, <2>6, <2>7 DEF SteerInv, Header, Clear, Quiet
<1> QED  BY <1>3, <1>4

LEMMA SetRateSFSteers == IInv /\ SteerInv /\ SetRateSF => SteerInv'
<1> SUFFICES ASSUME IInv, SteerInv, SetRateSF PROVE SteerInv'
  OBVIOUS
<1>1. UNCHANGED <<unit, due, line, s, comment, steered, day, mishaps>>
  BY DEF SetRateSF
<1>2. ~Pending("comment") /\ ~Pending("commentWrite")
  BY LastPending DEF SetRateSF, IInv, SteerInv
<1>3. CASE Go(<< >>)
  <2>1. todo' = << >>
    BY <1>3 DEF Go
  <2> QED  BY <1>1, <1>2, <2>1, NothingSteers DEF Clear, Header
<1>4. CASE ~Go(<< >>)
  <2>1. PICK v \in SF : Go(<<Op("set", <<"sf", v>>), Query("sf"), Op("comment", 0)>>)
    BY <1>4 DEF SetRateSF
  <2> DEFINE x == <<Op("set", <<"sf", v>>), Query("sf"), Op("comment", 0)>>
  <2>2. todo' = x
    BY <2>1 DEF Go
  <2>3. DOMAIN x = 1..3 /\ x[1].op = "set" /\ x[2].op = "query" /\ x[3].op = "comment"
    BY DEF Op, Query
  <2> HIDE DEF x
  <2>4. /\ Pending("comment")' /\ ~Pending("commentWrite")' /\ todo'[1].op \in Steering
        /\ OrderInv'
    BY <2>2, <2>3 DEF OrderInv, Pending, Steering
  <2> QED  BY <1>1, <1>2, <2>4 DEF SteerInv, Header, Clear, Quiet
<1> QED  BY <1>3, <1>4

\* prs10c is not running, or waits for the user
LEMMA RestSteers ==
  ASSUME IInv, SteerInv, user # "busy", todo' = << >>, UNCHANGED <<comment, steered>>,
         mishaps \subseteq mishaps', Quiet(Disturbances)' /\ Clear => Clear'
  PROVE  SteerInv'
<1>1. ~Pending("comment") /\ ~Pending("commentWrite")
  BY NothingPending DEF IInv
<1> QED  BY <1>1, NothingSteers DEF Header

LEMMA StartSteers == IInv /\ SteerInv /\ Start => SteerInv'
<1> SUFFICES ASSUME IInv, SteerInv, Start PROVE SteerInv'
  OBVIOUS
<1>1. /\ user # "busy" /\ todo' = << >> /\ line' = << >> /\ s'.flags = {}
      /\ UNCHANGED <<unit, due, comment, steered, mishaps>>
  BY DEF Start, Go, LinesLeft
<1> QED  BY <1>1, RestSteers DEF Clear

LEMMA QuitSteers == IInv /\ SteerInv /\ Quit => SteerInv'
BY RestSteers DEF Quit, Clear

LEMMA RefusedSteers == SteerInv /\ Refused => SteerInv'
BY SameSteers, QuietParts DEF Refused, Happens

\* Control-C between what steers and the comment: what it may leave is not claimed.
LEMMA KilledSteers == SteerInv /\ Killed => SteerInv'
BY NothingSteers, QuietParts DEF Killed, Happens

LEMMA LoggerSteers == IInv /\ SteerInv /\ (LoggerStart \/ LoggerStop \/ LogStatus) => SteerInv'
<1> SUFFICES ASSUME IInv, SteerInv, LoggerStart \/ LoggerStop \/ LogStatus PROVE SteerInv'
  OBVIOUS
<1>1. UNCHANGED <<todo, s, comment, steered, day, mishaps>>
  BY DEF LoggerStart, LoggerStop, LogStatus
<1>2. Clear => Clear'
  BY <1>1 DEF LoggerStart, LoggerStop, LogStatus, Clear, Asked, IInv, Types, Units
<1> QED  BY <1>1, <1>2, SameSteers

LEMMA PowerCycleSteers == SteerInv /\ PowerCycle => SteerInv'
BY SameSteers, QuietParts DEF PowerCycle, Happens

\* Between days nothing is to be done.
LEMMA NextDaySteers == IInv /\ SteerInv /\ NextDay => SteerInv'
<1> SUFFICES ASSUME IInv, SteerInv, NextDay PROVE SteerInv'
  OBVIOUS
<1>1. /\ mishaps \subseteq mishaps'
      /\ UNCHANGED <<unit, due, line, s, todo, comment, steered>>
  BY DEF NextDay, Happens
<1>2. CASE user = "busy"
  <2>1. ~Quiet(Disturbances)'
    BY <1>2, QuietParts DEF NextDay, Happens
  <2>2. OrderInv'
    BY <1>1 DEF SteerInv, OrderInv, Pending
  <2> QED  BY <1>1, <2>1, <2>2 DEF SteerInv
<1>3. CASE user # "busy"
  <2>1. todo' = << >>
    BY <1>1, <1>3, NothingPending DEF IInv
  <2> QED  BY <1>1, <1>3, <2>1, RestSteers DEF Clear
<1> QED  BY <1>2, <1>3

LEMMA InitSteerInv == Init => SteerInv
<1> SUFFICES ASSUME Init PROVE SteerInv
  OBVIOUS
<1>1. /\ todo = << >> /\ comment = << >> /\ steered = << >> /\ due = << >> /\ line = << >>
      /\ unit.flags = {"reset"} /\ s.flags = {}
  BY DEF Init
<1>2. Len(comment) <= 2 /\ Len(steered) <= 2 /\ steered \in Seq(Nat)
  BY <1>1
<1> QED  BY <1>1, <1>2 DEF SteerInv, OrderInv, Clear, Header, Pending

LEMMA StepSteerInv == IInv /\ SteerInv /\ [Next]_vars => SteerInv'
<1> SUFFICES ASSUME IInv, SteerInv, [Next]_vars PROVE SteerInv'
  OBVIOUS
<1>1. CASE UNCHANGED vars
  BY <1>1, SameSteers DEF vars, Clear
<1> QED  BY <1>1, AnswerReadSteers, AnswerLateSteers, ArriveSteers, SetParamSteers,
            StepPPSSteers, WriteEEPROMSteers, VerifySteers, CommentOpenSteers,
            CommentWriteSteers, ChoiceSteers, SetRateSteers, SetRateSFSteers, StartSteers,
            RefusedSteers, QuitSteers, KilledSteers, LoggerSteers, PowerCycleSteers,
            NextDaySteers DEF Next

\* When prs10c rests, the CCTF header names the last two days on which it steered the unit
\* - the disturbances that the property leaves out apart.
THEOREM SteersInHeader == Spec => []SteersKept
<1>1. Spec => []SteerInv
  BY InitSteerInv, StepSteerInv, InductiveInvariant, PTL DEF Spec
<1>2. IInv /\ SteerInv => SteersKept
  BY NothingPending DEF IInv, SteerInv, Header, SteersKept, Disturbances
<1> QED  BY <1>1, <1>2, InductiveInvariant, PTL
=============================================================================
