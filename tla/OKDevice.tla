------------------------------ MODULE OKDevice ------------------------------
(***************************************************************************)
(* The life of the driver's USB handle.  okcounterd (threads main and      *)
(* server) and okbfloader (thread loader) each open the board through an   *)
(* OpenOK object: OpenBySerial() lists the boards, reads the ID of each,   *)
(* opens one and claims it; the PLL is loaded, the FPGA may be configured, *)
(* and okcounterd then polls it, and serves commands.  Every transfer      *)
(* takes m_deviceHandle as it is when the transfer begins, and one that    *)
(* fails may close the handle, whichever thread it is in.                  *)
(*                                                                         *)
(* A thread is at a driver call, and within the call at a place: a call    *)
(* begins ("ready"), makes its transfer ("transfer"), asks what is wrong   *)
(* when that fails ("ask", "asking"), and perhaps closes the handle        *)
(* ("close", "release", "closing", "null").                                *)
(***************************************************************************)
EXTENDS Integers

CONSTANTS
  Bitfile,        \* what the programs may be given to load: "none" (okcounterd only), a
                  \* "good" file, a "bad" one without a sync word, a "short" one
  MaxCmd,         \* bound: commands that the server takes
  MaxFail,        \* bound: transfers that fail for no lasting reason
  MaxUnplug       \* bound: times that the board is unplugged

ASSUME OKDeviceAssumption ==
  /\ Bitfile \subseteq {"none", "good", "bad", "short"}
  /\ MaxCmd \in Nat /\ MaxFail \in Nat /\ MaxUnplug \in Nat

VARIABLES
  plugged, design, load,      \* the board: its FPGA is "none" or "counter"; chunks loaded
  owner,                      \* the program whose claim of the interface the kernel granted
  handle,                     \* per program: m_deviceHandle is set
  live,                       \* per program: the handle is open in libusb
  lost,                       \* per program: the board that it listed was unplugged since
  call, at,                   \* per thread: the driver call it is in, and the place in it
  bitfile,                    \* per program: the bit file that it was given
  told,                       \* per program: what its start up came to
  misused,                    \* per program: a closed handle was used, or closed again
  reloaded,                   \* okbfloader began to configure an FPGA that okcounterd had begun to
  ncmd, nfail, nunplug

board   == <<plugged, design, load>>
handles == <<handle, live, lost>>
threads == <<call, at>>
counts  == <<ncmd, nfail, nunplug>>
vars == <<board, owner, handles, threads, bitfile, told, misused, reloaded, counts>>

Programs == {"okcounterd", "okbfloader"}
Threads  == {"main", "server", "loader"}
Chunks   == 2

prog(t) == IF t = "loader" THEN "okbfloader" ELSE "okcounterd"

Init ==
  /\ plugged = TRUE /\ design = "none" /\ load = 0 /\ owner = "none"
  /\ handle = [p \in Programs |-> FALSE] /\ live = [p \in Programs |-> FALSE]
  /\ lost = [p \in Programs |-> FALSE]
  /\ call = [t \in Threads |-> "off"] /\ at = [t \in Threads |-> "ready"]
  /\ bitfile \in [Programs -> Bitfile] /\ bitfile["okbfloader"] # "none"
  /\ told = [p \in Programs |-> "nothing"] /\ misused = [p \in Programs |-> FALSE]
  /\ reloaded = FALSE
  /\ ncmd = 0 /\ nfail = 0 /\ nunplug = 0

-----------------------------------------------------------------------------
(* What a program does next, after a call that did what it should (ok) or not *)

\* OpenBySerial(): what is next when a call did what it should
Opening == [list |-> "open", open |-> "claim", claim |-> "probe", probe |-> "eeprom"]

\* ConfigureFPGA()
Configuring == [configure |-> "start", start |-> "data1", data1 |-> "data2",
                data2 |-> "status", status |-> "check"]

\* (Mutant) whether the bit file was sent and taken is not looked at
NextCallUnchecked(t, ok) ==
  LET p == prog(t)
      c == call[t]
  IN CASE c \in {"list", "open"} /\ ~ok -> "quit"
       [] c \in {"claim", "probe", "configure", "start"} /\ ~ok -> "delete"
       [] c \in DOMAIN Opening /\ ok          -> Opening[c]
       [] c \in {"configure", "start"} /\ ok  -> Configuring[c]
       [] c \in {"data1", "data2", "status"}  -> Configuring[c]
       [] c = "eeprom" /\ ok                  -> "pll"
       [] c = "pll" \/ (c = "eeprom" /\ ~ok)  -> IF bitfile[p] = "none" THEN "check" ELSE "configure"
       [] c = "check"  -> IF p = "okbfloader" THEN "exit" ELSE "poll"
       [] c = "wires"  -> "off"
       [] c = "delete" -> "quit"
       [] OTHER        -> c

\* initializeFPGA(), of okcounterd and of okbfloader, and what follows it; that the
\* PLL could not be loaded is not looked at
NextCall(t, ok) ==
  LET p == prog(t)
      c == call[t]
  IN CASE c \in {"list", "open"} /\ ~ok -> "quit"
       [] c \in {"claim", "probe"} \cup DOMAIN Configuring /\ ~ok -> "delete"
       [] c \in DOMAIN Opening /\ ok          -> Opening[c]
       [] c \in DOMAIN Configuring /\ ok      -> Configuring[c]
       [] c = "eeprom" /\ ok                  -> "pll"
       [] c = "pll" \/ (c = "eeprom" /\ ~ok)  -> IF bitfile[p] = "none" THEN "check" ELSE "configure"
       [] c = "check"  -> IF p = "okbfloader" THEN "exit" ELSE "poll"
       [] c = "wires"  -> "off"
       [] c = "delete" -> "quit"
       [] OTHER        -> c

\* The call of thread t returns
Return(t, ok) ==
  /\ call' = [call EXCEPT ![t] = NextCall(t, ok)]
  /\ at' = [at EXCEPT ![t] = IF NextCall(t, ok) = "delete" THEN "close" ELSE "ready"]

Goto(t, place) ==
  /\ at' = [at EXCEPT ![t] = place]
  /\ UNCHANGED call

\* What libusb does with a handle that is not open is undefined; the program ends here
Misuse(t) ==
  /\ misused' = [misused EXCEPT ![prog(t)] = TRUE]
  /\ call' = [s \in Threads |-> IF prog(s) = prog(t) THEN "quit" ELSE call[s]]
  /\ at' = [s \in Threads |-> IF prog(s) = prog(t) THEN "ready" ELSE at[s]]

Gone(t) == ~plugged \/ lost[prog(t)]

Transient == nfail < MaxFail /\ nfail' = nfail + 1

-----------------------------------------------------------------------------
(* Opening *)

\* Get_OK_Devices(): a list of the boards, each opened to read its ID, and closed again
GetOKDevices(t) ==
  /\ call[t] = "list"
  /\ Return(t, plugged)
  /\ lost' = [lost EXCEPT ![prog(t)] = FALSE]
  /\ UNCHANGED <<board, owner, handle, live, bitfile, told, misused, reloaded, counts>>

OpenDeviceUSB(t) ==
  /\ call[t] = "open"
  /\ LET p == prog(t)
     IN \/ /\ ~Gone(t)
           /\ handle' = [handle EXCEPT ![p] = TRUE]
           /\ live' = [live EXCEPT ![p] = TRUE]
           /\ Return(t, TRUE)
           /\ UNCHANGED nfail
        \/ /\ IF Gone(t) THEN UNCHANGED nfail ELSE Transient
           /\ Return(t, FALSE)
           /\ UNCHANGED <<handle, live>>
  /\ UNCHANGED <<board, owner, lost, bitfile, told, misused, reloaded, ncmd, nunplug>>

\* OpenByDeviceIndexList(): that another program has the interface is no error
ClaimInterface(t) ==
  /\ call[t] = "claim" /\ at[t] = "ready"
  /\ \/ ~Gone(t) /\ owner' = (IF owner = "none" THEN prog(t) ELSE owner)
        /\ Return(t, TRUE) /\ UNCHANGED nfail
     \/ UNCHANGED owner /\ Return(t, FALSE)
        /\ IF Gone(t) THEN UNCHANGED nfail ELSE Transient
  /\ UNCHANGED <<board, handles, bitfile, told, misused, reloaded, ncmd, nunplug>>

-----------------------------------------------------------------------------
(* Transfers *)

\* The calls, by the function that makes their transfer
Control  == {"probe", "eeprom", "pll", "poll", "wires"}
Bulk     == {"data1", "data2"}
Optional == {"start", "status", "check"}
Calls    == Control \cup Bulk \cup Optional

\* The file is read, and its sync word found, before anything is sent
ConfigureFPGA(t) ==
  /\ call[t] = "configure" /\ at[t] = "ready"
  /\ Return(t, handle[prog(t)] /\ bitfile[prog(t)] # "bad")
  /\ UNCHANGED <<board, owner, handles, bitfile, told, misused, reloaded, counts>>

\* A call begins: it takes the handle, if there is one
Begin(t) ==
  /\ call[t] \in Calls /\ at[t] = "ready"
  /\ IF handle[prog(t)]
     THEN Goto(t, "transfer")
     ELSE Return(t, FALSE)
  /\ UNCHANGED <<board, owner, handles, bitfile, told, misused, reloaded, counts>>

\* The board answers as it should
Served(c) ==
  CASE c \in {"poll", "wires", "check", "status"} -> design = "counter"
    [] OTHER                                      -> TRUE

LoadChunk(p, n) ==
  /\ load' = IF load = n - 1 THEN n ELSE IF design = "counter" THEN load ELSE -1
  /\ design' = IF load' = Chunks /\ bitfile[p] = "good" THEN "counter" ELSE design
  /\ UNCHANGED plugged

\* What a transfer that succeeds does to the board
Effect(p, c) ==
  CASE c = "start" -> design' = "none" /\ load' = 0 /\ UNCHANGED plugged
    [] c = "data1" -> LoadChunk(p, 1)
    [] c = "data2" -> LoadChunk(p, 2)
    [] OTHER       -> UNCHANGED board

Polling == call["main"] = "poll"

Erases(t) ==
  call[t] = "start" /\ t = "loader" /\ call["main"] \in {"data1", "data2", "status", "check", "poll"}

\* Bulk transfers are for the program that has claimed the interface; the kernel
\* lets another have it only when nobody has
May(t) == call[t] \in Bulk => owner \in {prog(t), "none"}

\* The transfer, with the handle the call began with.  That the board has gone
\* closes the handle.
Transferred(t) ==
  /\ at[t] = "transfer"
  /\ \/ /\ ~live[prog(t)] /\ Misuse(t) /\ UNCHANGED <<board, owner, reloaded>>
     \/ /\ live[prog(t)] /\ Gone(t)
        /\ Goto(t, "close") /\ UNCHANGED <<board, owner, misused, reloaded>>
     \/ /\ live[prog(t)] /\ ~Gone(t) /\ Served(call[t]) /\ May(t)
        /\ Effect(prog(t), call[t]) /\ Return(t, TRUE)
        /\ reloaded' = (reloaded \/ Erases(t))
        /\ owner' = IF call[t] \in Bulk THEN prog(t) ELSE owner
        /\ UNCHANGED misused
  /\ UNCHANGED <<handles, bitfile, told, counts>>

\* It fails while the board is there, with an error or because it came short
Failed(t) ==
  /\ at[t] = "transfer" /\ live[prog(t)] /\ ~Gone(t)
  /\ IF Served(call[t]) /\ May(t) THEN Transient ELSE UNCHANGED nfail
  /\ UNCHANGED <<board, owner, handles, bitfile, told, misused, reloaded, ncmd, nunplug>>

\* Nothing is asked when this one fails
OptionalControlTransfer(t) ==
  /\ call[t] \in Optional
  /\ Transferred(t) \/ (Failed(t) /\ Return(t, FALSE))

\* (Mutant) a transfer that fails closes the handle at once
ControlTransferCloses(t) ==
  /\ call[t] \in Control
  /\ Transferred(t) \/ (Failed(t) /\ Goto(t, "close"))

\* After an error the driver asks whether there is a FrontPanel; a transfer that is
\* short is only reported
AsksOrReports(t) == Goto(t, "ask") \/ Return(t, FALSE)

ControlTransfer(t) ==
  /\ call[t] \in Control
  /\ Transferred(t) \/ (Failed(t) /\ AsksOrReports(t))

\* One that times out with everything sent has not failed; a halted endpoint is cleared
BulkTransfer(t) ==
  /\ call[t] \in Bulk
  /\ Transferred(t) \/ (Failed(t) /\ AsksOrReports(t))

\* CheckFrontPanelEnabled(), of the handle as it is now
Ask(t) ==
  /\ at[t] = "ask"
  /\ IF handle[prog(t)]
     THEN Goto(t, "asking")
     ELSE Return(t, FALSE)
  /\ UNCHANGED <<board, owner, handles, bitfile, told, misused, reloaded, counts>>

\* Only an answer that says that there is no FrontPanel closes the handle
Asked(t) ==
  /\ at[t] = "asking"
  /\ \/ /\ ~live[prog(t)] /\ Misuse(t) /\ UNCHANGED nfail
     \/ /\ live[prog(t)] /\ (Gone(t) \/ design = "none")
        /\ Goto(t, "close") /\ UNCHANGED <<misused, nfail>>
     \/ /\ live[prog(t)] /\ ~Gone(t)
        /\ IF design = "counter" THEN UNCHANGED nfail ELSE Transient
        /\ Return(t, FALSE) /\ UNCHANGED misused
  /\ UNCHANGED <<board, owner, handles, bitfile, told, reloaded, ncmd, nunplug>>

-----------------------------------------------------------------------------
(* Close() *)

CloseBegins(t) ==
  /\ at[t] = "close"
  /\ IF handle[prog(t)] THEN Goto(t, "release") ELSE Return(t, FALSE)
  /\ UNCHANGED <<board, owner, handles, bitfile, told, misused, reloaded, counts>>

ReleaseInterface(t) ==
  /\ at[t] = "release"
  /\ LET p == prog(t)
     IN IF handle[p] /\ ~live[p] THEN Misuse(t) /\ UNCHANGED owner
        ELSE /\ owner' = IF handle[p] /\ owner = p THEN "none" ELSE owner
             /\ Goto(t, "closing") /\ UNCHANGED misused
  /\ UNCHANGED <<board, handles, bitfile, told, reloaded, counts>>

\* (Mutant) the handle is forgotten but not closed
CloseDeviceForgotten(t) ==
  /\ at[t] = "closing"
  /\ Goto(t, "null")
  /\ UNCHANGED <<board, owner, handles, bitfile, told, misused, reloaded, counts>>

CloseDeviceUSB(t) ==
  /\ at[t] = "closing"
  /\ LET p == prog(t)
     IN IF handle[p] /\ ~live[p] THEN Misuse(t) /\ UNCHANGED live
        ELSE live' = [live EXCEPT ![p] = FALSE] /\ Goto(t, "null") /\ UNCHANGED misused
  /\ UNCHANGED <<board, owner, handle, lost, bitfile, told, reloaded, counts>>

\* (Mutant) the transfer that failed is tried again with the handle it was given
CloseEndsRetried(t) ==
  /\ at[t] = "null"
  /\ handle' = [handle EXCEPT ![prog(t)] = FALSE]
  /\ IF call[t] \in Calls THEN Goto(t, "transfer") ELSE Return(t, FALSE)
  /\ UNCHANGED <<board, owner, live, lost, bitfile, told, misused, reloaded, counts>>

CloseEnds(t) ==
  /\ at[t] = "null"
  /\ handle' = [handle EXCEPT ![prog(t)] = FALSE]
  /\ Return(t, FALSE)
  /\ UNCHANGED <<board, owner, live, lost, bitfile, told, misused, reloaded, counts>>

-----------------------------------------------------------------------------
(* The programs *)

Start(t) ==
  /\ t # "server" /\ call[t] = "off"
  /\ call' = [call EXCEPT ![t] = "list"]
  /\ UNCHANGED <<board, owner, handles, at, bitfile, told, misused, reloaded, counts>>

\* The server thread is there once main polls
Command ==
  /\ Polling /\ call["server"] = "off" /\ ncmd < MaxCmd
  /\ call' = [call EXCEPT !["server"] = "wires"]
  /\ ncmd' = ncmd + 1
  /\ UNCHANGED <<board, owner, handles, at, bitfile, told, misused, reloaded,
                 nfail, nunplug>>

\* The program ends, and what it had open is closed for it
End(t) ==
  /\ call[t] \in {"quit", "exit"} /\ t # "server"
  /\ LET p == prog(t)
     IN /\ told' = [told EXCEPT ![p] = IF call[t] = "exit" THEN "done" ELSE "failed"]
        /\ handle' = [handle EXCEPT ![p] = FALSE]
        /\ live' = [live EXCEPT ![p] = FALSE]
        /\ owner' = IF owner = p THEN "none" ELSE owner
  /\ call' = [call EXCEPT ![t] = "ended"]
  /\ UNCHANGED <<board, lost, at, bitfile, misused, reloaded, counts>>

Unplug ==
  /\ plugged /\ nunplug < MaxUnplug
  /\ plugged' = FALSE /\ design' = "none" /\ load' = 0
  /\ lost' = [p \in Programs |-> TRUE]
  /\ owner' = "none"
  /\ nunplug' = nunplug + 1
  /\ UNCHANGED <<handle, live, threads, bitfile, told, misused, reloaded, ncmd, nfail>>

Plug ==
  /\ ~plugged /\ plugged' = TRUE
  /\ UNCHANGED <<design, load, owner, handles, threads, bitfile, told, misused, reloaded, counts>>

Next ==
  \/ \E t \in Threads :
       \/ Start(t) \/ GetOKDevices(t) \/ OpenDeviceUSB(t) \/ ClaimInterface(t)
       \/ ConfigureFPGA(t) \/ Begin(t)
       \/ OptionalControlTransfer(t) \/ ControlTransfer(t) \/ BulkTransfer(t) \/ Ask(t) \/ Asked(t)
       \/ CloseBegins(t) \/ ReleaseInterface(t) \/ CloseDeviceUSB(t) \/ CloseEnds(t)
       \/ End(t)
  \/ Command \/ Unplug \/ Plug

Spec == Init /\ [][Next]_vars

-----------------------------------------------------------------------------
(* Properties *)

CallNames == {"off", "list", "open", "claim", "delete", "quit", "exit", "ended", "configure"} \cup Calls
Places == {"ready", "transfer", "ask", "asking", "close", "release", "closing", "null"}

TypeOK ==
  /\ plugged \in BOOLEAN /\ design \in {"none", "counter"} /\ load \in -1..Chunks
  /\ owner \in Programs \cup {"none"}
  /\ handle \in [Programs -> BOOLEAN] /\ live \in [Programs -> BOOLEAN]
  /\ lost \in [Programs -> BOOLEAN]
  /\ call \in [Threads -> CallNames] /\ at \in [Threads -> Places]
  /\ bitfile \in [Programs -> Bitfile] /\ told \in [Programs -> {"nothing", "done", "failed"}]
  /\ misused \in [Programs -> BOOLEAN] /\ reloaded \in BOOLEAN
  /\ ncmd \in 0..MaxCmd /\ nfail \in 0..MaxFail /\ nunplug \in 0..MaxUnplug

\* No handle is leaked and none is left dangling: a handle is open in libusb
\* while m_deviceHandle names it, but for the moment in which Close() is about
\* to forget it.
HandlesMatch ==
  \A p \in Programs :
    /\ live[p] => handle[p]
    /\ handle[p] /\ ~live[p] =>
         misused[p] \/ \E t \in Threads : prog(t) = p /\ at[t] = "null"

\* A program with one thread never uses a handle that it has closed, nor closes
\* it twice, however its transfers fail.  okcounterd does only if it has been
\* sent a command: its two threads may close the handle under each other.
UsedWhileOpen == \A p \in Programs : misused[p] => p = "okcounterd" /\ ncmd > 0

\* A transfer that fails for no lasting reason does not make okcounterd deaf:
\* it polls with no handle only after the board was unplugged, or when another
\* program has configured the FPGA since, or when it began to poll an FPGA
\* without a design.
DeafOnlyIfLost ==
  Polling /\ ~handle["okcounterd"] /\ bitfile["okcounterd"] # "none" => nunplug > 0 \/ reloaded

\* When no program has failed and none is configuring it, an FPGA that a
\* program has configured has its design.
Busy(t) == call[t] \in DOMAIN Configuring \cup {"delete", "quit"}

LoadedUnlessTold ==
  /\ nunplug = 0
  /\ \A p \in Programs : told[p] # "failed"
  /\ \A t \in Threads : ~Busy(t)
  /\ told["okbfloader"] = "done" \/ (bitfile["okcounterd"] # "none" /\ Polling)
  => design = "counter"
=============================================================================
