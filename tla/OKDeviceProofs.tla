--------------------------- MODULE OKDeviceProofs ---------------------------
(***************************************************************************)
(* The driver's handle for any bit files, commands, failures and times     *)
(* that the board is unplugged: types, that no handle is leaked, and that  *)
(* only a program that was sent a command uses one that it has closed.     *)
(*                                                                         *)
(* Neither of the last two is inductive: CloseEnds() forgets the handle,   *)
(* so it matters that the thread at "null" has closed it, and that no      *)
(* other thread of the program has opened it since; and a transfer uses    *)
(* the handle that the call found when it began, so it matters who could   *)
(* have closed that one meanwhile.                                         *)
(*                                                                         *)
(* That a failure which does not last makes no program deaf, and leaves no *)
(* FPGA half configured behind a program that says it is done, is FailInv: *)
(* which calls can close the handle, and with what of the board.           *)
(***************************************************************************)
EXTENDS OKDevice, TLAPS

-----------------------------------------------------------------------------

InDriver == Calls \cup {"delete"}

\* A thread is in the middle of a call only in a call that has a middle.
Shape == \A t \in Threads : at[t] # "ready" => call[t] \in InDriver

\* The server thread does one thing, after a command, while main polls.
ServerInv ==
  /\ call["server"] \in {"off", "wires", "quit"}
  /\ call["server"] = "wires" => Polling
  /\ ncmd = 0 => call["server"] = "off"

\* Who is about to forget the handle has closed it.
NullInv == \A t \in Threads : at[t] = "null" => ~live[prog(t)]

\* A thread that is alone in its program
Alone(t) == t = "loader" \/ ncmd = 0

\* holds, in the middle of a call, a handle that is open.
HoldsInv ==
  \A t \in Threads :
    Alone(t) /\ at[t] \in {"transfer", "asking", "release", "closing"} => live[prog(t)]

Handling == Shape /\ ServerInv /\ NullInv /\ HoldsInv /\ HandlesMatch /\ UsedWhileOpen

IInv == TypeOK /\ Handling

-----------------------------------------------------------------------------

LEMMA InitIInv == Init => IInv
<1> SUFFICES ASSUME Init PROVE IInv
  OBVIOUS
<1>1. TypeOK
  <2>1. load \in -1..Chunks
    BY DEF Init, Chunks
  <2>2. ncmd \in 0..MaxCmd /\ nfail \in 0..MaxFail /\ nunplug \in 0..MaxUnplug
    BY OKDeviceAssumption DEF Init
  <2>3. "off" \in CallNames /\ "ready" \in Places
    BY DEF CallNames, Places
  <2>4. call \in [Threads -> CallNames] /\ at \in [Threads -> Places]
    BY <2>3 DEF Init
  <2> QED  BY <2>1, <2>2, <2>4 DEF Init, TypeOK
<1>2. Shape /\ ServerInv /\ NullInv /\ HoldsInv
  BY DEF Init, Shape, ServerInv, NullInv, HoldsInv, Threads
<1>3. HandlesMatch /\ UsedWhileOpen
  BY DEF Init, HandlesMatch, UsedWhileOpen, Programs
<1> QED  BY <1>1, <1>2, <1>3 DEF IInv, Handling

\* Where a call leads: the server thread only has UpdateWireIns(), main polls
\* until it ends, and a thread that goes to delete the object begins to close it.
LEMMA NextCallFacts ==
  ASSUME NEW t \in Threads, NEW ok \in BOOLEAN, TypeOK
  PROVE  /\ NextCall(t, ok) \in CallNames
         /\ call[t] = "wires" => NextCall(t, ok) = "off"
         /\ call[t] = "poll" => NextCall(t, ok) = "poll"
<1>1. call[t] \in CallNames
  BY DEF TypeOK
<1>2. DOMAIN Opening = {"list", "open", "claim", "probe"}
      /\ DOMAIN Configuring = {"configure", "start", "data1", "data2", "status"}
  BY DEF Opening, Configuring
<1>3. /\ Opening["list"] = "open" /\ Opening["open"] = "claim"
      /\ Opening["claim"] = "probe" /\ Opening["probe"] = "eeprom"
  BY DEF Opening
<1>4. /\ Configuring["configure"] = "start" /\ Configuring["start"] = "data1"
      /\ Configuring["data1"] = "data2" /\ Configuring["data2"] = "status"
      /\ Configuring["status"] = "check"
  BY DEF Configuring
<1>5. NextCall(t, ok) \in CallNames
  BY <1>1, <1>2, <1>3, <1>4 DEF NextCall, CallNames, Calls, Control, Bulk, Optional
<1>6. call[t] = "wires" => NextCall(t, ok) = "off"
  BY <1>2 DEF NextCall
<1>7. call[t] = "poll" => NextCall(t, ok) = "poll"
  BY <1>2 DEF NextCall
<1> QED  BY <1>5, <1>6, <1>7

\* Threads and programs, for the provers
LEMMA Progs ==
  /\ Threads = {"main", "server", "loader"} /\ Programs = {"okcounterd", "okbfloader"}
  /\ \A t \in Threads : prog(t) \in Programs
  /\ prog("main") = "okcounterd" /\ prog("server") = "okcounterd"
  /\ prog("loader") = "okbfloader"
BY DEF Threads, Programs, prog

-----------------------------------------------------------------------------
(* The ways in which a thread moves on *)

Handle == <<handle, live>>

\* A call returns: the thread is in the middle of nothing, or begins Close().
LEMMA Returning ==
  ASSUME IInv, NEW t \in Threads, NEW ok \in BOOLEAN, Return(t, ok),
         call[t] \in InDriver \cup {"list", "open", "claim", "configure"}, UNCHANGED ncmd
  PROVE  /\ Shape' /\ ServerInv'
         /\ call' \in [Threads -> CallNames] /\ at' \in [Threads -> Places]
         /\ \A s \in Threads : at'[s] = IF s = t THEN at'[t] ELSE at[s]
         /\ at'[t] \in {"ready", "close"}
         /\ at[t] # "null" /\ UNCHANGED <<handle, live, misused>> => Handling'
<1>1. /\ call' = [call EXCEPT ![t] = NextCall(t, ok)]
      /\ at' = [at EXCEPT ![t] = IF NextCall(t, ok) = "delete" THEN "close" ELSE "ready"]
  BY DEF Return
<1>2. call \in [Threads -> CallNames] /\ at \in [Threads -> Places]
  BY DEF IInv, TypeOK
<1>3. /\ NextCall(t, ok) \in CallNames
      /\ call[t] = "wires" => NextCall(t, ok) = "off"
      /\ call[t] = "poll" => NextCall(t, ok) = "poll"
  BY NextCallFacts DEF IInv
<1>4. call' \in [Threads -> CallNames] /\ at' \in [Threads -> Places]
  BY <1>1, <1>2, <1>3 DEF Places
<1>5. Shape'
  BY <1>1, <1>2 DEF IInv, Handling, Shape, InDriver
<1>6. ServerInv'
  <2>1. CASE t = "server"
    <3>1. call["server"] = "wires"
      BY <2>1 DEF IInv, Handling, ServerInv, InDriver, Calls, Control, Bulk, Optional
    <3> QED  BY <1>1, <1>2, <1>3, <2>1, <3>1, Progs DEF ServerInv
  <2>2. CASE t # "server"
    BY <1>1, <1>2, <1>3, <2>2, Progs DEF IInv, Handling, ServerInv, Polling
  <2> QED  BY <2>1, <2>2
<1>7. /\ \A s \in Threads : at'[s] = IF s = t THEN at'[t] ELSE at[s]
      /\ at'[t] \in {"ready", "close"}
  BY <1>1, <1>2
<1>8. ASSUME at[t] # "null", UNCHANGED <<handle, live, misused>> PROVE Handling'
  <2>1. NullInv' /\ HoldsInv'
    BY <1>1, <1>2, <1>8 DEF IInv, Handling, NullInv, HoldsInv, Alone
  <2>2. HandlesMatch' /\ UsedWhileOpen'
    BY <1>1, <1>2, <1>8 DEF IInv, Handling, HandlesMatch, UsedWhileOpen
  <2> QED  BY <1>5, <1>6, <2>1, <2>2 DEF Handling
<1> QED  BY <1>4, <1>5, <1>6, <1>7, <1>8

\* A thread goes on within its call.
LEMMA Going ==
  ASSUME IInv, NEW t \in Threads, NEW place \in Places \ {"null"}, Goto(t, place),
         call[t] \in InDriver, at[t] # "null",
         Alone(t) /\ place \in {"transfer", "asking", "release", "closing"} => live[prog(t)],
         UNCHANGED <<handle, live, misused, ncmd>>
  PROVE  Handling' /\ call' \in [Threads -> CallNames] /\ at' \in [Threads -> Places]
<1>1. call' = call /\ at' = [at EXCEPT ![t] = place]
  BY DEF Goto
<1>2. call \in [Threads -> CallNames] /\ at \in [Threads -> Places]
  BY DEF IInv, TypeOK
<1>3. call' \in [Threads -> CallNames] /\ at' \in [Threads -> Places]
  BY <1>1, <1>2
<1>4. Shape' /\ ServerInv'
  BY <1>1, <1>2 DEF IInv, Handling, Shape, ServerInv, InDriver, Polling
<1>5. NullInv' /\ HoldsInv'
  BY <1>1, <1>2 DEF IInv, Handling, NullInv, HoldsInv, Alone
<1>6. HandlesMatch' /\ UsedWhileOpen'
  BY <1>1, <1>2 DEF IInv, Handling, HandlesMatch, UsedWhileOpen
<1> QED  BY <1>3, <1>4, <1>5, <1>6 DEF Handling

\* A thread that is not alone in its program uses a handle that is not open.
LEMMA Misusing ==
  ASSUME IInv, NEW t \in Threads, Misuse(t), ~Alone(t), UNCHANGED <<handle, live, ncmd>>
  PROVE  /\ Handling' /\ misused' \in [Programs -> BOOLEAN]
         /\ call' \in [Threads -> CallNames] /\ at' \in [Threads -> Places]
<1>1. /\ misused' = [misused EXCEPT !["okcounterd"] = TRUE]
      /\ call' = [s \in Threads |-> IF s # "loader" THEN "quit" ELSE call[s]]
      /\ at' = [s \in Threads |-> IF s # "loader" THEN "ready" ELSE at[s]]
  BY Progs DEF Misuse, Alone
<1>2. /\ call \in [Threads -> CallNames] /\ at \in [Threads -> Places]
      /\ misused \in [Programs -> BOOLEAN] /\ ncmd \in Nat /\ ncmd # 0
  BY OKDeviceAssumption DEF IInv, TypeOK, Alone
<1>3. "quit" \in CallNames /\ "ready" \in Places
  BY DEF CallNames, Places
<1>4. /\ misused' \in [Programs -> BOOLEAN]
      /\ call' \in [Threads -> CallNames] /\ at' \in [Threads -> Places]
  BY <1>1, <1>2, <1>3
<1>5. Shape' /\ ServerInv'
  BY <1>1, <1>2, Progs DEF IInv, Handling, Shape, ServerInv, InDriver
<1>6. NullInv' /\ HoldsInv'
  BY <1>1 DEF IInv, Handling, NullInv, HoldsInv, Alone
<1>7. HandlesMatch'
  BY <1>1, <1>2, Progs DEF IInv, Handling, HandlesMatch
<1>8. UsedWhileOpen'
  BY <1>1, <1>2, Progs DEF IInv, Handling, UsedWhileOpen
<1> QED  BY <1>4, <1>5, <1>6, <1>7, <1>8 DEF Handling

\* When a thread that is alone in its program finds a handle, the handle is open.
LEMMA Found ==
  ASSUME IInv, NEW t \in Threads, Alone(t), call[t] \in InDriver,
         handle[prog(t)], at[t] # "null"
  PROVE  live[prog(t)]
<1>1. ~misused[prog(t)]
  BY Progs DEF IInv, Handling, UsedWhileOpen, Alone
<1>2. \A s \in Threads : prog(s) = prog(t) => at[s] # "null"
  <2>1. CASE t = "loader"
    BY <2>1, Progs
  <2>2. CASE t # "loader"
    <3>1. at["server"] = "ready"
      BY <2>2, Progs DEF IInv, Handling, ServerInv, Shape, Alone, InDriver, Calls, Control, Bulk, Optional
    <3>2. t # "server"
      BY <2>2, Progs DEF IInv, Handling, ServerInv, Alone, InDriver, Calls, Control, Bulk, Optional
    <3> QED  BY <2>2, <3>1, <3>2, Progs
  <2> QED  BY <2>1, <2>2
<1> QED  BY <1>1, <1>2, Progs DEF IInv, Handling, HandlesMatch

-----------------------------------------------------------------------------
(* Each action *)

\* The board, who owns it, and the counts: what a transfer can do to them
LEMMA EffectType ==
  ASSUME TypeOK, NEW p \in Programs, NEW c, Effect(p, c)
  PROVE  plugged' \in BOOLEAN /\ design' \in {"none", "counter"} /\ load' \in -1..Chunks
<1>1. \A n \in {1, 2} : LoadChunk(p, n) => 
        plugged' \in BOOLEAN /\ design' \in {"none", "counter"} /\ load' \in -1..Chunks
  BY DEF LoadChunk, TypeOK, Chunks
<1> QED  BY <1>1 DEF Effect, TypeOK, board, Chunks

LEMMA TransientType ==
  ASSUME TypeOK, Transient \/ UNCHANGED nfail PROVE nfail' \in 0..MaxFail
BY OKDeviceAssumption DEF TypeOK, Transient

LEMMA StartIInv == IInv /\ (\E t \in Threads : Start(t)) => IInv'
<1> SUFFICES ASSUME IInv, NEW t \in Threads, Start(t) PROVE IInv'
  OBVIOUS
<1>1. /\ call' = [call EXCEPT ![t] = "list"] /\ t # "server" /\ call[t] = "off"
      /\ UNCHANGED <<handle, live, at, misused, ncmd>>
  BY DEF Start, handles, counts
<1>2. "list" \in CallNames /\ call \in [Threads -> CallNames]
  BY DEF CallNames, IInv, TypeOK
<1>3. TypeOK'
  BY <1>1, <1>2 DEF Start, board, handles, counts, IInv, TypeOK
<1>4. Shape' /\ ServerInv'
  BY <1>1, <1>2, Progs
    DEF IInv, Handling, Shape, ServerInv, Polling, InDriver, Calls, Control, Bulk, Optional
<1>5. NullInv' /\ HoldsInv' /\ HandlesMatch' /\ UsedWhileOpen'
  BY <1>1 DEF IInv, Handling, NullInv, HoldsInv, Alone, HandlesMatch, UsedWhileOpen
<1> QED  BY <1>3, <1>4, <1>5 DEF IInv, Handling

LEMMA GetOKDevicesIInv == IInv /\ (\E t \in Threads : GetOKDevices(t)) => IInv'
<1> SUFFICES ASSUME IInv, NEW t \in Threads, GetOKDevices(t) PROVE IInv'
  OBVIOUS
<1>1. /\ call[t] = "list" /\ Return(t, plugged) /\ plugged \in BOOLEAN
      /\ UNCHANGED <<handle, live, misused, ncmd>>
  BY DEF GetOKDevices, counts, IInv, TypeOK
<1>2. at[t] # "null"
  BY <1>1 DEF IInv, Handling, Shape, InDriver, Calls, Control, Bulk, Optional
<1>3. Handling' /\ call' \in [Threads -> CallNames] /\ at' \in [Threads -> Places]
  BY <1>1, <1>2, Returning
<1>4. TypeOK'
  BY <1>3 DEF GetOKDevices, board, counts, IInv, TypeOK
<1> QED  BY <1>3, <1>4 DEF IInv

LEMMA OpenDeviceUSBIInv == IInv /\ (\E t \in Threads : OpenDeviceUSB(t)) => IInv'
<1> SUFFICES ASSUME IInv, NEW t \in Threads, OpenDeviceUSB(t) PROVE IInv'
  OBVIOUS
<1>1. at[t] = "ready" /\ call[t] = "open" /\ t # "server" /\ call \in [Threads -> CallNames]
  BY DEF OpenDeviceUSB, IInv, Handling, Shape, ServerInv, TypeOK, InDriver, Calls, Control, Bulk, Optional
<1>2. nfail' \in 0..MaxFail
  BY TransientType DEF OpenDeviceUSB, IInv
<1>3. /\ Shape' /\ ServerInv'
      /\ call' \in [Threads -> CallNames] /\ at' \in [Threads -> Places]
      /\ \A s \in Threads : at'[s] = IF s = t THEN at'[t] ELSE at[s]
      /\ at'[t] \in {"ready", "close"}
      /\ UNCHANGED <<handle, live, misused>> => Handling'
  BY <1>1, Returning DEF OpenDeviceUSB
<1>4. CASE UNCHANGED <<handle, live>>
  BY <1>2, <1>3, <1>4 DEF OpenDeviceUSB, board, IInv, TypeOK
<1>5. CASE /\ handle' = [handle EXCEPT ![prog(t)] = TRUE]
           /\ live' = [live EXCEPT ![prog(t)] = TRUE]
  <2>1. TypeOK'
    BY <1>2, <1>3, <1>5, Progs DEF OpenDeviceUSB, board, IInv, TypeOK
  <2>2. \A s \in Threads : prog(s) = prog(t) => at'[s] # "null"
    BY <1>1, <1>3, Progs
      DEF IInv, Handling, Shape, ServerInv, Polling, InDriver, Calls, Control, Bulk, Optional
  <2>3. NullInv' /\ HoldsInv'
    BY <1>3, <1>5, <2>2, Progs
      DEF OpenDeviceUSB, IInv, TypeOK, Handling, NullInv, HoldsInv, Alone
  <2>4. HandlesMatch' /\ UsedWhileOpen'
    BY <1>1, <1>3, <1>5, Progs
      DEF OpenDeviceUSB, IInv, TypeOK, Handling, HandlesMatch, UsedWhileOpen
  <2> QED  BY <1>3, <2>1, <2>3, <2>4 DEF IInv, Handling
<1> QED  BY <1>4, <1>5 DEF OpenDeviceUSB

LEMMA ClaimInterfaceIInv == IInv /\ (\E t \in Threads : ClaimInterface(t)) => IInv'
<1> SUFFICES ASSUME IInv, NEW t \in Threads, ClaimInterface(t) PROVE IInv'
  OBVIOUS
<1>1. /\ call[t] = "claim" /\ at[t] = "ready" /\ \E ok \in BOOLEAN : Return(t, ok)
      /\ UNCHANGED <<handle, live, misused, ncmd>>
  BY DEF ClaimInterface, handles
<1>2. Handling' /\ call' \in [Threads -> CallNames] /\ at' \in [Threads -> Places]
  BY <1>1, Returning
<1>3. nfail' \in 0..MaxFail
  BY TransientType DEF ClaimInterface, IInv
<1>4. TypeOK'
  BY <1>2, <1>3, Progs DEF ClaimInterface, board, handles, IInv, TypeOK
<1> QED  BY <1>2, <1>4 DEF IInv

LEMMA ConfigureFPGAIInv == IInv /\ (\E t \in Threads : ConfigureFPGA(t)) => IInv'
<1> SUFFICES ASSUME IInv, NEW t \in Threads, ConfigureFPGA(t) PROVE IInv'
  OBVIOUS
<1>1. /\ call[t] = "configure" /\ at[t] = "ready" /\ \E ok \in BOOLEAN : Return(t, ok)
      /\ UNCHANGED <<handle, live, misused, ncmd>>
  BY Progs DEF ConfigureFPGA, handles, counts, IInv, TypeOK
<1>2. Handling' /\ call' \in [Threads -> CallNames] /\ at' \in [Threads -> Places]
  BY <1>1, Returning
<1>3. TypeOK'
  BY <1>2 DEF ConfigureFPGA, board, handles, counts, IInv, TypeOK
<1> QED  BY <1>2, <1>3 DEF IInv

\* Begin(), Ask() and CloseBegins() look for the handle at a place, and go on
\* to another when there is one.
LEMMA Looking ==
  ASSUME IInv, NEW t \in Threads, NEW place \in {"transfer", "asking", "release"},
         call[t] \in InDriver, at[t] # "null",
         IF handle[prog(t)] THEN Goto(t, place) ELSE Return(t, FALSE),
         UNCHANGED <<board, owner, handles, bitfile, told, misused, reloaded, counts>>
  PROVE  IInv'
<1>1. UNCHANGED <<handle, live, misused, ncmd>> /\ place \in Places \ {"null"}
  BY DEF handles, counts, Places
<1>2. Handling' /\ call' \in [Threads -> CallNames] /\ at' \in [Threads -> Places]
  <2>1. CASE handle[prog(t)]
    <3>1. Alone(t) => live[prog(t)]
      BY <2>1, Found
    <3> QED  BY <1>1, <2>1, <3>1, Going
  <2>2. CASE ~handle[prog(t)]
    BY <1>1, <2>2, Returning
  <2> QED  BY <2>1, <2>2
<1>3. TypeOK'
  BY <1>2 DEF board, handles, counts, IInv, TypeOK
<1> QED  BY <1>2, <1>3 DEF IInv

LEMMA LookIInv ==
  IInv /\ (\E t \in Threads : Begin(t) \/ Ask(t) \/ CloseBegins(t)) => IInv'
<1> SUFFICES ASSUME IInv, NEW t \in Threads, Begin(t) \/ Ask(t) \/ CloseBegins(t) PROVE IInv'
  OBVIOUS
<1>1. CASE Begin(t)
  BY <1>1, Looking DEF Begin, InDriver
<1>2. CASE Ask(t)
  <2>1. call[t] \in InDriver
    BY <1>2 DEF Ask, IInv, Handling, Shape
  <2> QED  BY <1>2, <2>1, Looking DEF Ask
<1>3. CASE CloseBegins(t)
  <2>1. call[t] \in InDriver
    BY <1>3 DEF CloseBegins, IInv, Handling, Shape
  <2> QED  BY <1>3, <2>1, Looking DEF CloseBegins
<1> QED  BY <1>1, <1>2, <1>3

LEMMA TransferredIInv == IInv /\ (\E t \in Threads : Transferred(t)) => IInv'
<1> SUFFICES ASSUME IInv, NEW t \in Threads, Transferred(t) PROVE IInv'
  OBVIOUS
<1>1. /\ at[t] = "transfer" /\ call[t] \in InDriver
      /\ UNCHANGED <<handle, live, ncmd>>
  BY DEF Transferred, handles, counts, IInv, Handling, Shape
<1>2. CASE ~live[prog(t)] /\ Misuse(t) /\ UNCHANGED <<board, owner, reloaded>>
  <2>1. ~Alone(t)
    BY <1>1, <1>2 DEF IInv, Handling, HoldsInv
  <2>2. /\ Handling' /\ misused' \in [Programs -> BOOLEAN]
        /\ call' \in [Threads -> CallNames] /\ at' \in [Threads -> Places]
    BY <1>1, <1>2, <2>1, Misusing
  <2>3. TypeOK'
    BY <1>2, <2>2 DEF Transferred, board, handles, counts, IInv, TypeOK
  <2> QED  BY <2>2, <2>3 DEF IInv
<1>3. CASE Goto(t, "close") /\ UNCHANGED <<board, owner, misused, reloaded>>
  <2>1. Handling' /\ call' \in [Threads -> CallNames] /\ at' \in [Threads -> Places]
    BY <1>1, <1>3, Going DEF Places
  <2>2. TypeOK'
    BY <1>3, <2>1 DEF Transferred, board, handles, counts, IInv, TypeOK
  <2> QED  BY <2>1, <2>2 DEF IInv
<1>4. CASE /\ Effect(prog(t), call[t]) /\ Return(t, TRUE)
           /\ reloaded' = (reloaded \/ Erases(t))
           /\ owner' = IF call[t] \in Bulk THEN prog(t) ELSE owner
           /\ UNCHANGED misused
  <2>1. Handling' /\ call' \in [Threads -> CallNames] /\ at' \in [Threads -> Places]
    BY <1>1, <1>4, Returning
  <2>2. plugged' \in BOOLEAN /\ design' \in {"none", "counter"} /\ load' \in -1..Chunks
    BY <1>4, EffectType, Progs DEF IInv
  <2>3. owner' \in Programs \cup {"none"} /\ reloaded' \in BOOLEAN
    BY <1>4, Progs DEF IInv, TypeOK, Erases
  <2>4. TypeOK'
    BY <1>4, <2>1, <2>2, <2>3 DEF Transferred, handles, counts, IInv, TypeOK
  <2> QED  BY <2>1, <2>4 DEF IInv
<1> QED  BY <1>2, <1>3, <1>4 DEF Transferred

LEMMA FailedIInv ==
  ASSUME IInv, NEW t \in Threads, Failed(t), Return(t, FALSE) \/ Goto(t, "ask")
  PROVE  IInv'
<1>1. /\ at[t] = "transfer" /\ call[t] \in InDriver
      /\ UNCHANGED <<handle, live, misused, ncmd>>
  BY DEF Failed, handles, IInv, Handling, Shape
<1>2. Handling' /\ call' \in [Threads -> CallNames] /\ at' \in [Threads -> Places]
  BY <1>1, Returning, Going DEF Places
<1>3. nfail' \in 0..MaxFail
  BY TransientType DEF Failed, IInv
<1>4. TypeOK'
  BY <1>2, <1>3 DEF Failed, board, handles, IInv, TypeOK
<1> QED  BY <1>2, <1>4 DEF IInv

LEMMA TransferIInv ==
  IInv /\ (\E t \in Threads :
             OptionalControlTransfer(t) \/ ControlTransfer(t) \/ BulkTransfer(t)) => IInv'
BY TransferredIInv, FailedIInv DEF OptionalControlTransfer, ControlTransfer, BulkTransfer, AsksOrReports

LEMMA AskedIInv == IInv /\ (\E t \in Threads : Asked(t)) => IInv'
<1> SUFFICES ASSUME IInv, NEW t \in Threads, Asked(t) PROVE IInv'
  OBVIOUS
<1>1. /\ at[t] = "asking" /\ call[t] \in InDriver
      /\ UNCHANGED <<handle, live, ncmd>>
  BY DEF Asked, handles, IInv, Handling, Shape
<1>2. nfail' \in 0..MaxFail
  BY TransientType DEF Asked, IInv
<1>3. CASE ~live[prog(t)] /\ Misuse(t)
  <2>1. ~Alone(t)
    BY <1>1, <1>3 DEF IInv, Handling, HoldsInv
  <2>2. /\ Handling' /\ misused' \in [Programs -> BOOLEAN]
        /\ call' \in [Threads -> CallNames] /\ at' \in [Threads -> Places]
    BY <1>1, <1>3, <2>1, Misusing
  <2>3. TypeOK'
    BY <1>2, <2>2 DEF Asked, board, handles, IInv, TypeOK
  <2> QED  BY <2>2, <2>3 DEF IInv
<1>4. CASE (Goto(t, "close") \/ Return(t, FALSE)) /\ UNCHANGED misused
  <2>1. Handling' /\ call' \in [Threads -> CallNames] /\ at' \in [Threads -> Places]
    BY <1>1, <1>4, Returning, Going DEF Places
  <2>2. TypeOK'
    BY <1>2, <1>4, <2>1 DEF Asked, board, handles, IInv, TypeOK
  <2> QED  BY <2>1, <2>2 DEF IInv
<1> QED  BY <1>3, <1>4 DEF Asked

LEMMA ReleaseInterfaceIInv == IInv /\ (\E t \in Threads : ReleaseInterface(t)) => IInv'
<1> SUFFICES ASSUME IInv, NEW t \in Threads, ReleaseInterface(t) PROVE IInv'
  OBVIOUS
<1>1. /\ at[t] = "release" /\ call[t] \in InDriver
      /\ UNCHANGED <<handle, live, ncmd>>
  BY DEF ReleaseInterface, handles, counts, IInv, Handling, Shape
<1>2. CASE ~live[prog(t)] /\ Misuse(t) /\ UNCHANGED owner
  <2>1. ~Alone(t)
    BY <1>1, <1>2 DEF IInv, Handling, HoldsInv
  <2>2. /\ Handling' /\ misused' \in [Programs -> BOOLEAN]
        /\ call' \in [Threads -> CallNames] /\ at' \in [Threads -> Places]
    BY <1>1, <1>2, <2>1, Misusing
  <2>3. TypeOK'
    BY <1>2, <2>2 DEF ReleaseInterface, board, handles, counts, IInv, TypeOK
  <2> QED  BY <2>2, <2>3 DEF IInv
<1>3. CASE /\ owner' = IF handle[prog(t)] /\ owner = prog(t) THEN "none" ELSE owner
           /\ Goto(t, "closing") /\ UNCHANGED misused
  <2>1. Alone(t) => live[prog(t)]
    BY <1>1 DEF IInv, Handling, HoldsInv
  <2>2. Handling' /\ call' \in [Threads -> CallNames] /\ at' \in [Threads -> Places]
    BY <1>1, <1>3, <2>1, Going DEF Places
  <2>3. TypeOK'
    BY <1>3, <2>2 DEF ReleaseInterface, board, handles, counts, IInv, TypeOK
  <2> QED  BY <2>2, <2>3 DEF IInv
<1> QED  BY <1>2, <1>3 DEF ReleaseInterface

LEMMA CloseDeviceUSBIInv == IInv /\ (\E t \in Threads : CloseDeviceUSB(t)) => IInv'
<1> SUFFICES ASSUME IInv, NEW t \in Threads, CloseDeviceUSB(t) PROVE IInv'
  OBVIOUS
<1>1. at[t] = "closing" /\ call[t] \in InDriver /\ UNCHANGED <<handle, ncmd>>
  BY DEF CloseDeviceUSB, counts, IInv, Handling, Shape
<1>2. CASE ~live[prog(t)] /\ Misuse(t) /\ UNCHANGED live
  <2>1. ~Alone(t)
    BY <1>1, <1>2 DEF IInv, Handling, HoldsInv
  <2>2. /\ Handling' /\ misused' \in [Programs -> BOOLEAN]
        /\ call' \in [Threads -> CallNames] /\ at' \in [Threads -> Places]
    BY <1>1, <1>2, <2>1, Misusing
  <2>3. TypeOK'
    BY <1>2, <2>2 DEF CloseDeviceUSB, board, counts, IInv, TypeOK
  <2> QED  BY <2>2, <2>3 DEF IInv
<1>3. CASE /\ live' = [live EXCEPT ![prog(t)] = FALSE]
           /\ Goto(t, "null") /\ UNCHANGED misused
  <2>1. /\ call' = call /\ at' = [at EXCEPT ![t] = "null"] /\ "null" \in Places
        /\ live \in [Programs -> BOOLEAN] /\ at \in [Threads -> Places]
    BY <1>3 DEF Goto, Places, IInv, TypeOK
  <2>2. TypeOK'
    BY <1>3, <2>1 DEF CloseDeviceUSB, board, counts, IInv, TypeOK
  <2>3. Shape' /\ ServerInv' /\ NullInv'
    BY <1>1, <1>3, <2>1, Progs DEF IInv, Handling, Shape, ServerInv, NullInv, Polling
  <2>4. HoldsInv'
    BY <1>1, <1>3, <2>1, Progs
      DEF Alone, IInv, Handling, Shape, ServerInv, HoldsInv, InDriver, Calls, Control, Bulk, Optional
  <2>5. HandlesMatch' /\ UsedWhileOpen'
    BY <1>1, <1>3, <2>1, Progs DEF IInv, Handling, HandlesMatch, UsedWhileOpen
  <2> QED  BY <2>2, <2>3, <2>4, <2>5 DEF IInv, Handling
<1> QED  BY <1>2, <1>3 DEF CloseDeviceUSB

\* No other thread of the program can be in the middle of a call that trusts the
\* handle, unless the program has two.
LEMMA CloseEndsIInv == IInv /\ (\E t \in Threads : CloseEnds(t)) => IInv'
<1> SUFFICES ASSUME IInv, NEW t \in Threads, CloseEnds(t) PROVE IInv'
  OBVIOUS
<1>1. /\ at[t] = "null" /\ call[t] \in InDriver /\ ~live[prog(t)]
      /\ handle' = [handle EXCEPT ![prog(t)] = FALSE] /\ Return(t, FALSE)
      /\ UNCHANGED <<live, misused, ncmd>>
  BY DEF CloseEnds, counts, IInv, Handling, Shape, NullInv
<1>2. /\ Shape' /\ ServerInv'
      /\ call' \in [Threads -> CallNames] /\ at' \in [Threads -> Places]
      /\ \A s \in Threads : at'[s] = IF s = t THEN at'[t] ELSE at[s]
      /\ at'[t] \in {"ready", "close"}
  BY <1>1, Returning
<1>3. TypeOK'
  BY <1>1, <1>2 DEF CloseEnds, board, counts, IInv, TypeOK
<1>4. NullInv' /\ HoldsInv'
  BY <1>1, <1>2 DEF IInv, Handling, NullInv, HoldsInv, Alone
<1>5. HandlesMatch' /\ UsedWhileOpen'
  BY <1>1, <1>2, Progs DEF IInv, TypeOK, Handling, HandlesMatch, UsedWhileOpen
<1> QED  BY <1>2, <1>3, <1>4, <1>5 DEF IInv, Handling

LEMMA EndIInv == IInv /\ (\E t \in Threads : End(t)) => IInv'
<1> SUFFICES ASSUME IInv, NEW t \in Threads, End(t) PROVE IInv'
  OBVIOUS
<1>1. /\ call[t] \in {"quit", "exit"} /\ t # "server"
      /\ call' = [call EXCEPT ![t] = "ended"] /\ "ended" \in CallNames
      /\ handle' = [handle EXCEPT ![prog(t)] = FALSE]
      /\ live' = [live EXCEPT ![prog(t)] = FALSE]
      /\ UNCHANGED <<at, misused, ncmd>>
  BY DEF End, counts, CallNames
<1>2. /\ call \in [Threads -> CallNames] /\ live \in [Programs -> BOOLEAN]
      /\ handle \in [Programs -> BOOLEAN]
  BY DEF IInv, TypeOK
<1>3. TypeOK'
  <2>1. told' \in [Programs -> {"nothing", "done", "failed"}] /\ owner' \in Programs \cup {"none"}
    BY Progs DEF End, IInv, TypeOK
  <2> QED  BY <1>1, <1>2, <2>1 DEF End, board, counts, IInv, TypeOK
<1>4. at[t] = "ready"
  BY <1>1 DEF IInv, Handling, Shape, InDriver, Calls, Control, Bulk, Optional
<1>5. Shape' /\ ServerInv'
  BY <1>1, <1>2, <1>4, Progs DEF IInv, Handling, Shape, ServerInv, Polling
<1>6. NullInv'
  BY <1>1, <1>2, Progs DEF IInv, Handling, NullInv
<1>7. HoldsInv'
  BY <1>1, <1>2, <1>4, Progs
    DEF Alone, IInv, Handling, Shape, ServerInv, HoldsInv, InDriver, Calls, Control, Bulk, Optional
<1>8. HandlesMatch' /\ UsedWhileOpen'
  BY <1>1, <1>2, Progs DEF IInv, Handling, HandlesMatch, UsedWhileOpen
<1> QED  BY <1>3, <1>5, <1>6, <1>7, <1>8 DEF IInv, Handling

LEMMA CommandIInv == IInv /\ Command => IInv'
<1> SUFFICES ASSUME IInv, Command PROVE IInv'
  OBVIOUS
<1>1. /\ call' = [call EXCEPT !["server"] = "wires"] /\ ncmd' = ncmd + 1 /\ ncmd' # 0
      /\ ncmd' \in 0..MaxCmd /\ Polling /\ call["server"] = "off"
      /\ UNCHANGED <<handle, live, at, misused>>
  BY OKDeviceAssumption DEF Command, handles, IInv, TypeOK
<1>2. /\ call \in [Threads -> CallNames] /\ "wires" \in CallNames
      /\ ncmd \in Nat
  BY OKDeviceAssumption DEF IInv, TypeOK, CallNames, Calls, Control
<1>3. TypeOK'
  BY <1>1, <1>2 DEF Command, board, handles, IInv, TypeOK
<1>4. Shape' /\ ServerInv'
  BY <1>1, <1>2, Progs DEF IInv, Handling, Shape, ServerInv, Polling, InDriver, Calls, Control
<1>5. NullInv' /\ HoldsInv' /\ HandlesMatch'
  BY <1>1, Progs DEF IInv, Handling, NullInv, HoldsInv, Alone, HandlesMatch
<1>6. UsedWhileOpen'
  BY <1>1, <1>2 DEF IInv, Handling, UsedWhileOpen
<1> QED  BY <1>3, <1>4, <1>5, <1>6 DEF IInv, Handling

\* What leaves the threads and the handles alone keeps what is said of them.
LEMMA Elsewhere ==
  IInv /\ TypeOK' /\ UNCHANGED <<handle, live, call, at, misused, ncmd>> => IInv'
BY DEF IInv, Handling, Shape, ServerInv, Polling, NullInv, HoldsInv, Alone, HandlesMatch, UsedWhileOpen

LEMMA BusIInv == IInv /\ (Unplug \/ Plug) => IInv'
<1> SUFFICES ASSUME IInv, Unplug \/ Plug PROVE IInv'
  OBVIOUS
<1>1. CASE Unplug
  <2>1. nunplug' \in 0..MaxUnplug /\ 0 \in -1..Chunks
    BY <1>1, OKDeviceAssumption DEF Unplug, IInv, TypeOK, Chunks
  <2>2. TypeOK'
    BY <1>1, <2>1 DEF Unplug, threads, IInv, TypeOK
  <2> QED  BY <1>1, <2>2, Elsewhere DEF Unplug, threads
<1>2. CASE Plug
  <2>1. TypeOK'
    BY <1>2 DEF Plug, handles, threads, counts, IInv, TypeOK
  <2> QED  BY <1>2, <2>1, Elsewhere DEF Plug, handles, threads, counts
<1> QED  BY <1>1, <1>2

LEMMA StepIInv == IInv /\ [Next]_vars => IInv'
<1> SUFFICES ASSUME IInv, [Next]_vars PROVE IInv'
  OBVIOUS
<1>1. CASE Next
  BY <1>1, StartIInv, GetOKDevicesIInv, OpenDeviceUSBIInv, ClaimInterfaceIInv,
     ConfigureFPGAIInv, LookIInv, TransferIInv, AskedIInv, ReleaseInterfaceIInv,
     CloseDeviceUSBIInv, CloseEndsIInv, EndIInv, CommandIInv, BusIInv DEF Next
<1>2. CASE UNCHANGED vars
  <2>1. TypeOK'
    BY <1>2 DEF vars, board, handles, threads, counts, IInv, TypeOK
  <2> QED  BY <1>2, <2>1, Elsewhere DEF vars, handles, threads, counts
<1> QED  BY <1>1, <1>2

\* What every thread knows of the handle, at each place of its calls, is kept
\* by every step of either program and of the bus.
THEOREM InductiveInvariant == Spec => []IInv
<1>1. Init => IInv
  BY InitIInv
<1>2. IInv /\ [Next]_vars => IInv'
  BY StepIInv
<1> QED  BY <1>1, <1>2, PTL DEF Spec

\* The variables of the driver's model keep their types.
THEOREM TypeCorrect == Spec => []TypeOK
<1>1. IInv => TypeOK
  BY DEF IInv
<1> QED  BY <1>1, InductiveInvariant, PTL

\* OpenOK::Close() and OpenDeviceUSB(): no handle of libusb is leaked and none
\* is left in m_deviceHandle, however often the transfers of either program
\* fail, the board is unplugged and the server thread is sent commands.
THEOREM HandlesMatched == Spec => []HandlesMatch
<1>1. IInv => HandlesMatch
  BY DEF IInv, Handling
<1> QED  BY <1>1, InductiveInvariant, PTL

\* okbfloader, and okcounterd until its first command, never give libusb a
\* handle that they have closed.
THEOREM UsedWhileOpened == Spec => []UsedWhileOpen
<1>1. IInv => UsedWhileOpen
  BY DEF IInv, Handling
<1> QED  BY <1>1, InductiveInvariant, PTL

-----------------------------------------------------------------------------
(* What the failures of transfers come to.                                  *)

Closing == {"close", "release", "closing", "null"}

\* The thread's program has configured the FPGA, and found it so.
Loaded(t) ==
  t # "server" /\ bitfile[prog(t)] # "none" /\ call[t] \in {"check", "poll", "exit", "ended"}

\* A program that has said what its start up came to has ended.
ToldInv ==
  /\ \A t \in {"main", "loader"} : told[prog(t)] # "nothing" => call[t] = "ended"
  /\ bitfile["okbfloader"] # "none"

LoadInv ==
  /\ nunplug = 0
  /\ \A p \in Programs : told[p] # "failed"
  /\ \A t \in Threads : ~Busy(t)
  /\ \E t \in Threads : Loaded(t)
  => design = "counter"

PlugInv == nunplug = 0 => plugged /\ \A p \in Programs : ~lost[p]

\* A transfer of which nothing is asked closes the handle only when the board has gone.
OptionalInv ==
  nunplug = 0 => \A t \in Threads : call[t] \in Optional => at[t] \in {"ready", "transfer"}

\* main sends the bit file with a handle
StartedInv == call["main"] \in {"start", "data1", "data2", "status"} => handle["okcounterd"]

\* and keeps it, when the FPGA has its design.
DeafInv ==
  nunplug = 0 /\ ~reloaded /\ bitfile["okcounterd"] # "none" /\ call["main"] \in {"check", "poll"}
    => /\ design = "counter" /\ handle["okcounterd"]
       /\ \A t \in {"main", "server"} : at[t] \notin Closing

FailInv == ToldInv /\ LoadInv /\ PlugInv /\ OptionalInv /\ StartedInv /\ DeafInv

\* NextCall, call by call
LEMMA NextCallTable ==
  ASSUME NEW t \in Threads, NEW ok \in BOOLEAN
  PROVE  LET c == call[t]
             n == NextCall(t, ok)
         IN /\ c \in {"list", "open"} /\ ~ok => n = "quit"
            /\ c = "list" /\ ok => n = "open"
            /\ c = "open" /\ ok => n = "claim"
            /\ c \in {"claim", "probe", "configure", "start", "data1", "data2", "status"} /\ ~ok
                 => n = "delete"
            /\ c = "claim" /\ ok => n = "probe"
            /\ c = "probe" /\ ok => n = "eeprom"
            /\ c = "eeprom" /\ ok => n = "pll"
            /\ c \in {"eeprom", "pll"} =>
                 n \in {"pll", IF bitfile[prog(t)] = "none" THEN "check" ELSE "configure"}
            /\ c = "configure" /\ ok => n = "start"
            /\ c = "start" /\ ok => n = "data1"
            /\ c = "data1" /\ ok => n = "data2"
            /\ c = "data2" /\ ok => n = "status"
            /\ c = "status" /\ ok => n = "check"
            /\ c = "check" => n = (IF prog(t) = "okbfloader" THEN "exit" ELSE "poll")
            /\ c = "poll" => n = "poll"
            /\ c = "wires" => n = "off"
            /\ c = "delete" => n = "quit"
<1> DEFINE c == call[t]
<1>1. DOMAIN Opening = {"list", "open", "claim", "probe"}
      /\ DOMAIN Configuring = {"configure", "start", "data1", "data2", "status"}
  BY DEF Opening, Configuring
<1>2. /\ Opening["list"] = "open" /\ Opening["open"] = "claim"
      /\ Opening["claim"] = "probe" /\ Opening["probe"] = "eeprom"
  BY DEF Opening
<1>3. /\ Configuring["configure"] = "start" /\ Configuring["start"] = "data1"
      /\ Configuring["data1"] = "data2" /\ Configuring["data2"] = "status"
      /\ Configuring["status"] = "check"
  BY DEF Configuring
<1>4. c \in {"list", "open"} /\ ~ok => NextCall(t, ok) = "quit"
  BY <1>1 DEF NextCall
<1>5. ASSUME c = "list", ok PROVE NextCall(t, ok) = "open"
  BY <1>5, <1>1, <1>2 DEF NextCall
<1>6. ASSUME c = "open", ok PROVE NextCall(t, ok) = "claim"
  BY <1>6, <1>1, <1>2 DEF NextCall
<1>7. ASSUME c = "claim", ok PROVE NextCall(t, ok) = "probe"
  BY <1>7, <1>1, <1>2 DEF NextCall
<1>8. ASSUME c = "probe", ok PROVE NextCall(t, ok) = "eeprom"
  BY <1>8, <1>1, <1>2 DEF NextCall
<1>9. c \in {"claim", "probe", "configure", "start", "data1", "data2", "status"} /\ ~ok
        => NextCall(t, ok) = "delete"
  BY <1>1 DEF NextCall
<1>10. ASSUME c = "eeprom", ok PROVE NextCall(t, ok) = "pll"
  BY <1>10, <1>1 DEF NextCall
<1>11. ASSUME (c = "eeprom" /\ ~ok) \/ c = "pll"
       PROVE  NextCall(t, ok) = IF bitfile[prog(t)] = "none" THEN "check" ELSE "configure"
  BY <1>11, <1>1 DEF NextCall
<1>12. ASSUME c = "configure", ok PROVE NextCall(t, ok) = "start"
  BY <1>12, <1>1, <1>3 DEF NextCall
<1>13. ASSUME c = "start", ok PROVE NextCall(t, ok) = "data1"
  BY <1>13, <1>1, <1>3 DEF NextCall
<1>14. ASSUME c = "data1", ok PROVE NextCall(t, ok) = "data2"
  BY <1>14, <1>1, <1>3 DEF NextCall
<1>15. ASSUME c = "data2", ok PROVE NextCall(t, ok) = "status"
  BY <1>15, <1>1, <1>3 DEF NextCall
<1>16. ASSUME c = "status", ok PROVE NextCall(t, ok) = "check"
  BY <1>16, <1>1, <1>3 DEF NextCall
<1>17. ASSUME c = "check" PROVE NextCall(t, ok) = IF prog(t) = "okbfloader" THEN "exit" ELSE "poll"
  BY <1>17, <1>1 DEF NextCall
<1>18. ASSUME c = "poll" PROVE NextCall(t, ok) = "poll"
  BY <1>18, <1>1 DEF NextCall
<1>19. ASSUME c = "wires" PROVE NextCall(t, ok) = "off"
  BY <1>19, <1>1 DEF NextCall
<1>20. ASSUME c = "delete" PROVE NextCall(t, ok) = "quit"
  BY <1>20, <1>1 DEF NextCall
<1> QED  BY <1>4, <1>5, <1>6, <1>7, <1>8, <1>9, <1>10, <1>11, <1>12, <1>13, <1>14, <1>15, <1>16, <1>17, <1>18, <1>19, <1>20

LEMMA Names ==
  /\ Optional = {"start", "status", "check"}
  /\ InDriver = {"probe", "eeprom", "pll", "poll", "wires", "data1", "data2",
                 "start", "status", "check", "delete"}
  /\ \A t : Busy(t) <=> call[t] \in {"configure", "start", "data1", "data2", "status", "delete", "quit"}
BY DEF Optional, InDriver, Calls, Control, Bulk, Busy, Configuring

\* A thread goes on within its call, and closes the handle only if the board has
\* gone or has no design.
LEMMA GoingFail ==
  ASSUME IInv, FailInv, NEW t \in Threads, NEW place \in Places, Goto(t, place),
         UNCHANGED <<plugged, design, lost, handle, bitfile, told, reloaded, nunplug>>,
         nunplug = 0 /\ call[t] \in Optional => place = "transfer",
         nunplug = 0 /\ place \in Closing => at[t] \in Closing \/ design = "none"
  PROVE  FailInv'
<1>1. call' = call /\ at' = [at EXCEPT ![t] = place] /\ at \in [Threads -> Places]
  BY DEF Goto, IInv, TypeOK
<1>2. ToldInv' /\ LoadInv' /\ PlugInv' /\ StartedInv'
  BY <1>1 DEF FailInv, ToldInv, LoadInv, PlugInv, StartedInv, Busy, Loaded
<1>3. OptionalInv'
  BY <1>1 DEF FailInv, OptionalInv
<1>4. DeafInv'
  BY <1>1, Progs DEF FailInv, DeafInv
<1> QED  BY <1>2, <1>3, <1>4 DEF FailInv

\* A call returns.
LEMMA ReturningFail ==
  ASSUME IInv, FailInv, NEW t \in Threads, NEW ok \in BOOLEAN, Return(t, ok),
         call[t] \in InDriver \cup {"list", "open", "claim", "configure"},
         UNCHANGED <<plugged, bitfile, told, nunplug>>, reloaded => reloaded',
         \A p \in Programs : lost'[p] => lost[p],
         \/ design' = design \/ design' = "counter"
         \/ call[t] = "start" /\ ok /\ (reloaded' \/ ~Erases(t)),
         call[t] = "status" /\ ok => design = "counter" /\ design' = design,
         call[t] = "configure" /\ ok => handle["okcounterd"] \/ t = "loader",
         ok => at[t] # "null",
         \A p \in Programs : handle'[p] \/ handle'[p] = handle[p] \/ (p = prog(t) /\ at[t] = "null")
  PROVE  FailInv'
<1> DEFINE n == NextCall(t, ok)
<1>1. /\ call' = [call EXCEPT ![t] = n]
      /\ at' = [at EXCEPT ![t] = IF n = "delete" THEN "close" ELSE "ready"]
      /\ at \in [Threads -> Places] /\ call \in [Threads -> CallNames]
  BY DEF Return, IInv, TypeOK
<1>2. \A s \in Threads : /\ call'[s] = IF s = t THEN n ELSE call[s]
                         /\ s # t => at'[s] = at[s]
                         /\ at'[t] = IF n = "delete" THEN "close" ELSE "ready"
  BY <1>1
<1> HIDE DEF n
<1>3. t = "server" => call[t] = "wires" /\ call["main"] = "poll" /\ n = "off"
  BY NextCallTable, Names DEF IInv, Handling, ServerInv, Polling, n
<1>4. at["server"] = "ready" \/ call["main"] = "poll"
  BY Progs, Names DEF IInv, Handling, ServerInv, Shape, Polling
<1>5. ToldInv'
  BY <1>2, Progs, Names DEF FailInv, ToldInv
<1>6. LoadInv'
  <2> SUFFICES ASSUME nunplug = 0, \A p \in Programs : told[p] # "failed",
                      \A s \in Threads : ~Busy(s)', \E s \in Threads : Loaded(s)'
               PROVE  design' = "counter"
    BY DEF LoadInv
  <2>1. n \notin {"configure", "start", "data1", "data2", "status", "delete", "quit"}
    BY <1>2, Names DEF Busy, Configuring
  <2>2. CASE call[t] = "status"
    BY <2>1, <2>2, NextCallTable DEF n
  <2>3. CASE call[t] # "status"
    <3>1. ~Busy(t) /\ call[t] # "start"
      BY <2>1, <2>3, NextCallTable, Names DEF n
    <3>2. \A s \in Threads : ~Busy(s)
      BY <1>2, <3>1 DEF Busy
    <3>3. \E s \in Threads : Loaded(s)
      <4>1. PICK s \in Threads : Loaded(s)'
        OBVIOUS
      <4>2. CASE s # t
        BY <1>2, <4>1, <4>2 DEF Loaded
      <4>3. CASE s = t
        <5>1. n \in {"check", "poll", "exit", "ended"} /\ bitfile[prog(t)] # "none" /\ t # "server"
          BY <1>2, <4>1, <4>3 DEF Loaded
        <5>2. call[t] \in {"check", "poll"}
          BY <2>3, <5>1, NextCallTable, Names DEF n
        <5> QED  BY <5>1, <5>2 DEF Loaded
      <4> QED  BY <4>2, <4>3
    <3> QED  BY <3>1, <3>2, <3>3 DEF FailInv, LoadInv
  <2> QED  BY <2>2, <2>3
<1>7. PlugInv'
  BY DEF FailInv, PlugInv
<1>8. OptionalInv'
  BY <1>2, Names DEF FailInv, OptionalInv
<1>9. StartedInv'
  <2> SUFFICES ASSUME call'["main"] \in {"start", "data1", "data2", "status"}
               PROVE  handle'["okcounterd"]
    BY DEF StartedInv
  <2>1. CASE t = "main"
    <3>1. ok /\ handle["okcounterd"] /\ at[t] # "null"
      <4>1. n \in {"start", "data1", "data2", "status"}
        BY <1>2, <2>1, Progs
      <4>2. ok /\ call[t] \in {"configure", "start", "data1", "data2"}
        BY <4>1, NextCallTable, Names DEF n
      <4> QED  BY <2>1, <4>2 DEF FailInv, StartedInv
    <3> QED  BY <2>1, <3>1, Progs
  <2>2. CASE t = "loader"
    BY <1>2, <2>2, Progs DEF FailInv, StartedInv
  <2>3. CASE t = "server"
    BY <1>2, <1>3, <2>3, Progs
  <2> QED  BY <2>1, <2>2, <2>3, Progs
<1>10. DeafInv'
  <2> SUFFICES ASSUME nunplug = 0, ~reloaded', bitfile["okcounterd"] # "none",
                      call'["main"] \in {"check", "poll"}
               PROVE  /\ design' = "counter" /\ handle'["okcounterd"]
                      /\ \A s \in {"main", "server"} : at'[s] \notin Closing
    BY DEF DeafInv
  <2>1. CASE t = "main"
    <3>1. n \in {"check", "poll"} /\ at'["main"] = "ready" /\ at'["server"] = at["server"]
      BY <1>2, <2>1, Progs
    <3>2. CASE call[t] = "status"
      <4>1. ok /\ at[t] # "null"
        BY <3>1, <3>2, NextCallTable DEF n
      <4>2. handle["okcounterd"] /\ at["server"] = "ready"
        BY <1>4, <2>1, <3>2 DEF FailInv, StartedInv
      <4> QED  BY <2>1, <3>1, <3>2, <4>1, <4>2, Progs DEF Closing
    <3>3. CASE call[t] \in {"check", "poll"}
      <4>1. /\ design = "counter" /\ handle["okcounterd"]
            /\ \A s \in {"main", "server"} : at[s] \notin Closing
        BY <2>1, <3>3 DEF FailInv, DeafInv
      <4> QED  BY <2>1, <3>1, <3>3, <4>1, Progs DEF Closing
    <3> QED  BY <2>1, <3>1, <3>2, <3>3, NextCallTable, Names, Progs DEF n
  <2>2. CASE t # "main"
    <3>1. /\ design = "counter" /\ handle["okcounterd"]
          /\ \A s \in {"main", "server"} : at[s] \notin Closing
          /\ call["main"] \in {"check", "poll"}
      BY <1>2, <2>2, Progs DEF FailInv, DeafInv
    <3>2. design' = "counter"
      BY <1>3, <2>2, <3>1, Progs DEF Erases
    <3>3. handle'["okcounterd"]
      BY <2>2, <3>1, Progs DEF Closing
    <3>4. \A s \in {"main", "server"} : at'[s] \notin Closing
      BY <1>2, <1>3, <2>2, <3>1, Progs DEF Closing
    <3> QED  BY <3>2, <3>3, <3>4
  <2> QED  BY <2>1, <2>2
<1> QED  BY <1>5, <1>6, <1>7, <1>8, <1>9, <1>10 DEF FailInv

LEMMA MisusingFail ==
  ASSUME IInv, FailInv, NEW t \in Threads, Misuse(t), call[t] \in InDriver,
         UNCHANGED <<plugged, design, lost, handle, bitfile, told, reloaded, nunplug>>
  PROVE  FailInv'
<1>1. \A s \in Threads : /\ call'[s] = IF prog(s) = prog(t) THEN "quit" ELSE call[s]
                         /\ at'[s] = IF prog(s) = prog(t) THEN "ready" ELSE at[s]
  BY DEF Misuse
<1>2. told[prog(t)] = "nothing"
  <2>1. CASE t = "server"
    BY <2>1, Progs, Names DEF IInv, Handling, ServerInv, Polling, FailInv, ToldInv
  <2>2. CASE t # "server"
    BY <2>2, Progs, Names DEF FailInv, ToldInv
  <2> QED  BY <2>1, <2>2
<1>3. ToldInv'
  BY <1>1, <1>2, Progs DEF FailInv, ToldInv
<1>4. LoadInv'
  <2>1. Busy(t)'
    BY <1>1 DEF Busy
  <2> QED  BY <2>1 DEF LoadInv
<1>5. PlugInv'
  BY DEF FailInv, PlugInv
<1>6. OptionalInv'
  BY <1>1, Names DEF FailInv, OptionalInv
<1>7. StartedInv'
  BY <1>1, Progs DEF FailInv, StartedInv
<1>8. DeafInv'
  BY <1>1, Progs DEF FailInv, DeafInv, Closing
<1> QED  BY <1>3, <1>4, <1>5, <1>6, <1>7, <1>8 DEF FailInv

\* The board has not gone while nobody has unplugged it.
LEMMA NotGone ==
  ASSUME FailInv, NEW t \in Threads, nunplug = 0
  PROVE  ~Gone(t)
BY Progs DEF FailInv, PlugInv, Gone

LEMMA StartFail ==
  ASSUME IInv, FailInv, NEW t \in Threads, Start(t)
  PROVE  FailInv'
<1>1. /\ t # "server" /\ call[t] = "off" /\ call' = [call EXCEPT ![t] = "list"]
      /\ call \in [Threads -> CallNames]
      /\ UNCHANGED <<plugged, design, lost, handle, at, bitfile, told, reloaded, nunplug>>
  BY DEF Start, board, handles, counts, IInv, TypeOK
<1>2. \A s \in Threads : call'[s] = IF s = t THEN "list" ELSE call[s]
  BY <1>1
<1>3. ToldInv' /\ PlugInv' /\ OptionalInv' /\ StartedInv' /\ DeafInv'
  BY <1>1, <1>2, Progs, Names
    DEF FailInv, ToldInv, PlugInv, OptionalInv, StartedInv, DeafInv
<1>4. LoadInv'
  <2>1. \A s \in Threads : (~Busy(s)' => ~Busy(s)) /\ (Loaded(s)' => Loaded(s))
    <3>1. ~Busy(t) /\ ~Loaded(t)'
      BY <1>1, <1>2, Names DEF Loaded
    <3> QED  BY <1>1, <1>2, <3>1 DEF Busy, Loaded
  <2> QED  BY <1>1, <2>1 DEF FailInv, LoadInv
<1> QED  BY <1>3, <1>4 DEF FailInv

\* The calls that make no transfer
LEMMA CallsFail ==
  ASSUME IInv, FailInv, NEW t \in Threads,
         GetOKDevices(t) \/ OpenDeviceUSB(t) \/ ClaimInterface(t) \/ ConfigureFPGA(t)
  PROVE  FailInv'
<1>1. at[t] = "ready"
  BY Names DEF GetOKDevices, OpenDeviceUSB, ClaimInterface, ConfigureFPGA, IInv, Handling, Shape
<1>2. PICK ok \in BOOLEAN : Return(t, ok) /\ (call[t] = "configure" => (ok => handle[prog(t)]))
  BY <1>1, Progs DEF GetOKDevices, OpenDeviceUSB, ClaimInterface, ConfigureFPGA, IInv, TypeOK
<1>3. /\ call[t] \in {"list", "open", "claim", "configure"}
      /\ UNCHANGED <<plugged, design, bitfile, told, reloaded, nunplug>>
      /\ \A p \in Programs : lost'[p] => lost[p]
      /\ \A p \in Programs : handle'[p] \/ handle'[p] = handle[p]
  BY DEF GetOKDevices, OpenDeviceUSB, ClaimInterface, ConfigureFPGA, board, handles, counts,
         IInv, TypeOK
<1>4. call[t] = "configure" /\ ok => handle["okcounterd"] \/ t = "loader"
  BY <1>2, Progs
<1> QED  BY <1>1, <1>2, <1>3, <1>4, ReturningFail

\* Begin(), Ask() and CloseBegins()
LEMMA LookFail ==
  ASSUME IInv, FailInv, NEW t \in Threads, Begin(t) \/ Ask(t) \/ CloseBegins(t)
  PROVE  FailInv'
<1>1. UNCHANGED <<plugged, design, lost, handle, bitfile, told, reloaded, nunplug>>
  BY DEF Begin, Ask, CloseBegins, board, handles, counts
<1>2. call[t] \in InDriver /\ at[t] # "null"
  BY DEF Begin, Ask, CloseBegins, InDriver, IInv, Handling, Shape
<1>3. CASE Return(t, FALSE)
  BY <1>1, <1>2, <1>3, ReturningFail, Names
<1>4. CASE Begin(t) /\ Goto(t, "transfer")
  BY <1>1, <1>4, GoingFail DEF Places, Closing
<1>5. CASE Ask(t) /\ Goto(t, "asking")
  <2>1. nunplug = 0 => call[t] \notin Optional
    BY <1>5 DEF Ask, FailInv, OptionalInv
  <2> QED  BY <1>1, <1>5, <2>1, GoingFail DEF Places, Closing
<1>6. CASE CloseBegins(t) /\ Goto(t, "release")
  <2>1. nunplug = 0 => call[t] \notin Optional
    BY <1>6 DEF CloseBegins, FailInv, OptionalInv
  <2> QED  BY <1>1, <1>6, <2>1, GoingFail DEF CloseBegins, Places, Closing
<1> QED  BY <1>3, <1>4, <1>5, <1>6 DEF Begin, Ask, CloseBegins

LEMMA EffectDesign ==
  ASSUME IInv, NEW p \in Programs, NEW c, Effect(p, c)
  PROVE  /\ plugged' = plugged
         /\ design' = design \/ design' = "counter" \/ c = "start"
         /\ c = "status" => design' = design
<1>1. \A m \in {1, 2} : LoadChunk(p, m) => plugged' = plugged /\ (design' = design \/ design' = "counter")
  BY DEF LoadChunk
<1> QED  BY <1>1 DEF Effect, board

LEMMA TransferFail ==
  ASSUME IInv, FailInv, NEW t \in Threads,
         OptionalControlTransfer(t) \/ ControlTransfer(t) \/ BulkTransfer(t)
  PROVE  FailInv'
<1>1. at[t] = "transfer" /\ call[t] \in InDriver
  BY DEF OptionalControlTransfer, ControlTransfer, BulkTransfer, AsksOrReports, Transferred, Failed, InDriver,
         Calls
<1>2. CASE Transferred(t)
  <2>1. UNCHANGED <<lost, handle, bitfile, told, nunplug>>
    BY <1>2 DEF Transferred, handles, counts
  <2>2. CASE Misuse(t) /\ UNCHANGED <<board, owner, reloaded>>
    BY <1>1, <2>1, <2>2, MisusingFail DEF board
  <2>3. CASE Gone(t) /\ Goto(t, "close") /\ UNCHANGED <<board, owner, misused, reloaded>>
    <3>1. nunplug # 0
      BY <2>3, NotGone
    <3> QED  BY <2>1, <2>3, <3>1, GoingFail DEF board, Places
  <2>4. CASE /\ Served(call[t]) /\ Effect(prog(t), call[t]) /\ Return(t, TRUE)
             /\ reloaded' = (reloaded \/ Erases(t))
    <3>1. /\ plugged' = plugged
          /\ design' = design \/ design' = "counter" \/ call[t] = "start"
          /\ call[t] = "status" => design' = design
      BY <2>4, EffectDesign, Progs
    <3>2. call[t] = "status" => design = "counter"
      BY <2>4 DEF Served
    <3>3. (reloaded => reloaded') /\ (reloaded' \/ ~Erases(t))
      BY <2>4
    <3>4. call[t] # "configure"
      BY <1>1, Names
    <3> QED  BY <1>1, <2>1, <2>4, <3>1, <3>2, <3>3, <3>4, ReturningFail
  <2> QED  BY <1>2, <2>2, <2>3, <2>4 DEF Transferred
<1>3. CASE Failed(t) /\ (Return(t, FALSE) \/ (Goto(t, "ask") /\ call[t] \notin Optional))
  <2>1. UNCHANGED <<plugged, design, lost, handle, bitfile, told, reloaded, nunplug>>
    BY <1>3 DEF Failed, board, handles
  <2> QED  BY <1>1, <1>3, <2>1, ReturningFail, GoingFail, Names DEF Places, Closing
<1> QED  BY <1>2, <1>3, Names DEF OptionalControlTransfer, ControlTransfer, BulkTransfer, AsksOrReports,
            Control, Bulk

LEMMA AskedFail ==
  ASSUME IInv, FailInv, NEW t \in Threads, Asked(t)
  PROVE  FailInv'
<1>1. /\ at[t] = "asking" /\ call[t] \in InDriver
      /\ UNCHANGED <<plugged, design, lost, handle, bitfile, told, reloaded, nunplug>>
  BY DEF Asked, board, handles, IInv, Handling, Shape
<1>2. nunplug = 0 => call[t] \notin Optional
  BY <1>1 DEF FailInv, OptionalInv
<1>3. CASE Misuse(t)
  BY <1>1, <1>3, MisusingFail
<1>4. CASE (Gone(t) \/ design = "none") /\ Goto(t, "close")
  BY <1>1, <1>2, <1>4, NotGone, GoingFail DEF Places
<1>5. CASE Return(t, FALSE)
  BY <1>1, <1>5, ReturningFail, Names
<1> QED  BY <1>3, <1>4, <1>5 DEF Asked

LEMMA CloseFail ==
  ASSUME IInv, FailInv, NEW t \in Threads,
         ReleaseInterface(t) \/ CloseDeviceUSB(t) \/ CloseEnds(t)
  PROVE  FailInv'
<1>1. /\ at[t] \in Closing /\ call[t] \in InDriver
      /\ UNCHANGED <<plugged, design, lost, bitfile, told, reloaded, nunplug>>
  BY DEF ReleaseInterface, CloseDeviceUSB, CloseEnds, board, handles, counts, IInv, Handling,
         Shape, Closing
<1>2. nunplug = 0 => call[t] \notin Optional
  BY <1>1 DEF FailInv, OptionalInv, Closing
<1>3. CASE ReleaseInterface(t) \/ CloseDeviceUSB(t)
  <2>1. handle' = handle /\ (Misuse(t) \/ Goto(t, "closing") \/ Goto(t, "null"))
    BY <1>3 DEF ReleaseInterface, CloseDeviceUSB, handles
  <2> QED  BY <1>1, <1>2, <2>1, MisusingFail, GoingFail DEF Places
<1>4. CASE CloseEnds(t)
  <2>1. /\ at[t] = "null" /\ Return(t, FALSE) /\ handle' = [handle EXCEPT ![prog(t)] = FALSE]
        /\ handle \in [Programs -> BOOLEAN]
    BY <1>4 DEF CloseEnds, IInv, TypeOK
  <2>2. \A p \in Programs : handle'[p] = handle[p] \/ p = prog(t)
    BY <2>1
  <2> QED  BY <1>1, <2>1, <2>2, ReturningFail, Names
<1> QED  BY <1>3, <1>4

LEMMA EndFail ==
  ASSUME IInv, FailInv, NEW t \in Threads, End(t)
  PROVE  FailInv'
<1>1. /\ call[t] \in {"quit", "exit"} /\ t # "server"
      /\ told' = [told EXCEPT ![prog(t)] = IF call[t] = "exit" THEN "done" ELSE "failed"]
      /\ handle' = [handle EXCEPT ![prog(t)] = FALSE]
      /\ call' = [call EXCEPT ![t] = "ended"]
      /\ UNCHANGED <<plugged, design, lost, at, bitfile, reloaded, nunplug>>
      /\ call \in [Threads -> CallNames] /\ handle \in [Programs -> BOOLEAN]
      /\ told \in [Programs -> {"nothing", "done", "failed"}]
  BY DEF End, board, counts, IInv, TypeOK
<1>2. \A s \in Threads : call'[s] = IF s = t THEN "ended" ELSE call[s]
  BY <1>1
<1>3. \A p \in Programs : p # prog(t) => told'[p] = told[p] /\ handle'[p] = handle[p]
  BY <1>1
<1>4. told'[prog(t)] = IF call[t] = "exit" THEN "done" ELSE "failed"
  BY <1>1, Progs
<1>5. told[prog(t)] = "nothing"
  BY <1>1, Progs DEF FailInv, ToldInv
<1>6. ToldInv'
  BY <1>1, <1>2, <1>3, Progs DEF FailInv, ToldInv
<1>7. LoadInv'
  <2> SUFFICES ASSUME nunplug = 0, \A p \in Programs : told'[p] # "failed",
                      \A s \in Threads : ~Busy(s)', \E s \in Threads : Loaded(s)'
               PROVE  design = "counter"
    BY <1>1 DEF LoadInv
  <2>1. call[t] = "exit" /\ \A p \in Programs : told[p] # "failed"
    BY <1>3, <1>4, <1>5, Progs
  <2>2. \A s \in Threads : ~Busy(s)
    BY <1>2, <2>1, Names DEF Busy
  <2>3. \E s \in Threads : Loaded(s)
    BY <1>1, <1>2, <2>1 DEF Loaded
  <2> QED  BY <2>1, <2>2, <2>3 DEF FailInv, LoadInv
<1>8. PlugInv' /\ OptionalInv'
  BY <1>1, <1>2, Names DEF FailInv, PlugInv, OptionalInv
<1>9. StartedInv' /\ DeafInv'
  BY <1>1, <1>2, <1>3, Progs DEF FailInv, StartedInv, DeafInv
<1> QED  BY <1>6, <1>7, <1>8, <1>9 DEF FailInv

LEMMA OthersFail ==
  ASSUME IInv, FailInv, Command \/ Unplug \/ Plug
  PROVE  FailInv'
<1>1. CASE Command
  <2>1. /\ call' = [call EXCEPT !["server"] = "wires"] /\ call \in [Threads -> CallNames]
        /\ call["server"] = "off"
        /\ UNCHANGED <<plugged, design, lost, handle, at, bitfile, told, reloaded, nunplug>>
    BY <1>1 DEF Command, board, handles, IInv, TypeOK
  <2>2. \A s \in Threads : call'[s] = IF s = "server" THEN "wires" ELSE call[s]
    BY <2>1
  <2>3. ToldInv' /\ PlugInv' /\ OptionalInv' /\ StartedInv' /\ DeafInv'
    BY <2>1, <2>2, Progs, Names
      DEF FailInv, ToldInv, PlugInv, OptionalInv, StartedInv, DeafInv
  <2>4. LoadInv'
    <3>1. \A s \in Threads : (~Busy(s)' => ~Busy(s)) /\ (Loaded(s)' => Loaded(s))
      <4>1. ~Busy("server")
        BY <2>1, Names
      <4> QED  BY <2>1, <2>2, <4>1 DEF Busy, Loaded
    <3> QED  BY <2>1, <3>1 DEF FailInv, LoadInv
  <2> QED  BY <2>3, <2>4 DEF FailInv
<1>2. CASE Unplug
  <2>1. nunplug' # 0
    BY <1>2, OKDeviceAssumption DEF Unplug, IInv, TypeOK
  <2>2. UNCHANGED <<handle, call, at, bitfile, told>>
    BY <1>2 DEF Unplug, threads
  <2> QED  BY <2>1, <2>2 DEF FailInv, ToldInv, LoadInv, PlugInv, OptionalInv, StartedInv, DeafInv
<1>3. CASE Plug
  <2>1. UNCHANGED <<design, handle, call, at, bitfile, told, lost, reloaded, nunplug>> /\ plugged'
    BY <1>3 DEF Plug, handles, threads, counts
  <2> QED  BY <2>1 DEF FailInv, ToldInv, LoadInv, PlugInv, OptionalInv, StartedInv, DeafInv,
                       Busy, Loaded
<1> QED  BY <1>1, <1>2, <1>3

LEMMA InitFailInv == Init => FailInv
<1> SUFFICES ASSUME Init PROVE FailInv
  OBVIOUS
<1>1. ToldInv /\ PlugInv
  BY Progs DEF Init, ToldInv, PlugInv
<1>2. LoadInv /\ OptionalInv /\ StartedInv /\ DeafInv
  BY Progs, Names DEF Init, LoadInv, Loaded, OptionalInv, StartedInv, DeafInv
<1> QED  BY <1>1, <1>2 DEF FailInv

LEMMA StepFailInv == IInv /\ FailInv /\ [Next]_vars => FailInv'
<1> SUFFICES ASSUME IInv, FailInv, [Next]_vars PROVE FailInv'
  OBVIOUS
<1>1. CASE Next
  BY <1>1, StartFail, CallsFail, LookFail, TransferFail, AskedFail, CloseFail, EndFail,
     OthersFail DEF Next
<1>2. CASE UNCHANGED vars
  BY <1>2 DEF vars, board, handles, threads, counts, FailInv, ToldInv, LoadInv, PlugInv,
              OptionalInv, StartedInv, DeafInv, Busy, Loaded
<1> QED  BY <1>1, <1>2

\* What failed transfers can come to, while the board stays where it is, is kept
\* by every step of either program.
THEOREM FailuresContained == Spec => [](IInv /\ FailInv)
<1>1. Init => IInv /\ FailInv
  BY InitIInv, InitFailInv
<1>2. IInv /\ FailInv /\ [Next]_vars => IInv' /\ FailInv'
  BY StepIInv, StepFailInv
<1> QED  BY <1>1, <1>2, PTL DEF Spec

\* However many transfers fail for no lasting reason, okcounterd keeps its handle.
THEOREM DeafOnlyIfBoardLost == Spec => []DeafOnlyIfLost
<1>1. IInv /\ FailInv => DeafOnlyIfLost
  BY OKDeviceAssumption DEF IInv, TypeOK, FailInv, DeafInv, DeafOnlyIfLost, Polling
<1> QED  BY <1>1, FailuresContained, PTL

\* When no program has failed and none is configuring the FPGA, and one has, it
\* has its design.
THEOREM LoadedOrTold == Spec => []LoadedUnlessTold
<1>1. FailInv => LoadedUnlessTold
  <2> SUFFICES ASSUME FailInv, nunplug = 0, \A p \in Programs : told[p] # "failed",
                      \A t \in Threads : ~Busy(t),
                      told["okbfloader"] = "done" \/ (bitfile["okcounterd"] # "none" /\ Polling)
               PROVE  design = "counter"
    BY DEF LoadedUnlessTold
  <2>1. Loaded("loader") \/ Loaded("main")
    BY Progs DEF FailInv, ToldInv, Loaded, Polling
  <2> QED  BY <2>1, Progs DEF FailInv, LoadInv
<1> QED  BY <1>1, FailuresContained, PTL
=============================================================================
