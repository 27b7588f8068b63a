---------------------------- MODULE XEMRegisters ----------------------------
(***************************************************************************)
(* The counter's FPGA as okcounterd sees it through the OpenOK driver: one *)
(* control register (PPS output source and GPIO enable), and per channel a *)
(* 32 bit reading in two 16 bit wires and a trigger that says a reading is *)
(* ready.  (The status register is only printed, and is left out.)  The    *)
(* driver keeps a copy of each in m_wireIns, m_wireOuts and m_triggerOuts, *)
(* and two threads use them without a lock: main (OKCounterD::run) and the *)
(* server thread (setOutputPPSSource, setGPIOEnable, getConfiguration).    *)
(* A thread waits in a USB transfer: what it sends is taken from the copy  *)
(* before, and what it fetches is put into the copy afterwards, and in     *)
(* between the other thread goes on.  A transfer may fail; the driver then *)
(* zeroes its copy and says so only on stderr.                             *)
(* A half of a reading is read and a copy is written in one step: bytes    *)
(* that two threads mix are not modelled.                                  *)
(***************************************************************************)
EXTENDS Integers, Sequences

CONSTANTS
  NCHANNELS,       \* OKCounterD.cpp:45
  Sources,         \* the sources CONFIGURE PPSSOURCE asks for
  Enables,         \* the values CONFIGURE GPIO asks for
  None,            \* nothing has been asked for
  MaxMeas,         \* bound: readings taken by each channel
  MaxEvents        \* bound: commands served and USB transfers that fail, together

ASSUME XEMAssumption ==
  /\ NCHANNELS \in Nat \ {0} /\ MaxMeas \in [1..NCHANNELS -> Nat]
  /\ MaxEvents \in Nat
  /\ Sources \subseteq 0..7 /\ Enables \subseteq 0..1 /\ None \notin 0..7

VARIABLES
  \* the FPGA
  sysCtrl,         \* the control register
  savereg, trig,   \* per channel: the number of the latest reading; its trigger
  \* the driver's copies
  wireIns, wireOuts, triggerOuts,
  \* what each thread's transfer carries while the thread waits for it
  outgoing, inHand,
  \* main
  mpc, mch, upperbits, sent,
  crossed,         \* for the properties: a QUERY held a capture when main made its last
  \* server
  spc, cmd, tmp, asked,
  early,           \* for the properties: the fields last changed before main sent its default
  ncmd, nfail

fpgavars   == <<sysCtrl, savereg, trig>>
transfers  == <<outgoing, inHand>>
mainvars   == <<mpc, mch, upperbits, sent, crossed>>
servervars == <<spc, cmd, tmp, asked, early, ncmd>>
vars == <<fpgavars, wireIns, wireOuts, triggerOuts, transfers, mainvars, servervars, nfail>>

Threads == {"main", "server"}
Chan   == 1..NCHANNELS
Nothing == [c \in Chan |-> 0]
Zero   == [pps |-> 0, gpio |-> 0]
NoHalf == [val |-> 0, lost |-> 0]
PowerUp == [pps |-> 7, gpio |-> 1]       \* 0x0f
Fields == {"pps", "gpio"}
Commands == [field : {"pps"}, val : Sources] \cup [field : {"gpio"}, val : Enables]

Init ==
  /\ sysCtrl = Zero
  /\ savereg = Nothing /\ trig = {}
  /\ wireIns = Zero /\ wireOuts = Nothing /\ triggerOuts = {}
  /\ outgoing = [t \in Threads |-> Zero] /\ inHand = [t \in Threads |-> Nothing]
  /\ mpc = "clear" /\ mch = 1 /\ upperbits = NoHalf /\ sent = [c \in Chan |-> <<>>]
  /\ crossed = FALSE
  /\ spc = "idle" /\ cmd = None /\ tmp = Zero
  /\ asked = [f \in Fields |-> None] /\ early = {}
  /\ ncmd = 0 /\ nfail = 0

-----------------------------------------------------------------------------
(* The driver *)

Fail == ncmd + nfail < MaxEvents /\ nfail' = nfail + 1

\* UpdateWireOuts: all wire outs are captured at the same time, and stored when
\* the transfer returns.  It may fail before the capture and after it.
CaptureWireOuts(t) == inHand' = [inHand EXCEPT ![t] = savereg]

StoreWireOuts(t, captured) ==
  \/ captured /\ wireOuts' = inHand[t] /\ UNCHANGED nfail
  \/ wireOuts' = Nothing /\ Fail

\* UpdateWireIns: the copy is taken when the transfer begins.  It may fail before
\* the FPGA has it and after.
TakeWireIns(t) == outgoing' = [outgoing EXCEPT ![t] = wireIns]

DeliverWireIns(t) == sysCtrl' = outgoing[t]

ReturnWireIns(t, delivered) ==
  /\ \/ delivered /\ UNCHANGED <<wireIns, nfail>>
     \/ wireIns' = Zero /\ Fail
  /\ outgoing' = [outgoing EXCEPT ![t] = Zero]

\* Reading the triggers clears them in the FPGA, whether or not they arrive.
UpdateTriggerOuts ==
  \/ triggerOuts' = trig /\ trig' = {} /\ UNCHANGED nfail
  \/ triggerOuts' = {} /\ trig' \in {{}, trig} /\ Fail

-----------------------------------------------------------------------------
(* The FPGA: a counter stores a reading and then signals that it is ready.   *)

Measure(c) ==
  /\ savereg[c] < MaxMeas[c]
  /\ savereg' = [savereg EXCEPT ![c] = @ + 1]
  /\ trig' = trig \cup {c}
  /\ UNCHANGED <<sysCtrl, wireIns, wireOuts, triggerOuts, transfers, mainvars, servervars, nfail>>

-----------------------------------------------------------------------------
(* main: OKCounterD::run.  The server thread is already at work.            *)

mainrest == <<mch, upperbits, sent, crossed>>

ClearTriggers ==
  /\ mpc = "clear" /\ UpdateTriggerOuts
  /\ mpc' = "default"
  /\ UNCHANGED <<sysCtrl, savereg, wireIns, wireOuts, transfers, mainrest, servervars>>

SetDefault ==
  /\ mpc = "default" /\ wireIns' = PowerUp
  /\ mpc' = "commit"
  /\ UNCHANGED <<fpgavars, wireOuts, triggerOuts, transfers, mainrest, servervars, nfail>>

TakeDefault ==
  /\ mpc = "commit" /\ TakeWireIns("main")
  /\ mpc' = "taken"
  /\ UNCHANGED <<fpgavars, wireIns, wireOuts, triggerOuts, inHand, mainrest, servervars, nfail>>

DeliverDefault ==
  /\ mpc = "taken" /\ DeliverWireIns("main")
  /\ mpc' = "delivered"
  /\ UNCHANGED <<savereg, trig, wireIns, wireOuts, triggerOuts, transfers, mainrest, servervars,
                 nfail>>

DefaultReturns ==
  /\ mpc \in {"taken", "delivered"} /\ ReturnWireIns("main", mpc = "delivered")
  /\ mpc' = "status"
  /\ UNCHANGED <<fpgavars, wireOuts, triggerOuts, inHand, mainrest, servervars>>

MainCaptures ==
  /\ CaptureWireOuts("main") /\ crossed' = (spc = "held")
  /\ UNCHANGED <<savereg, wireIns, wireOuts, triggerOuts, outgoing, mch, upperbits, sent,
                 servervars, nfail>>

MainStores(captured) ==
  /\ StoreWireOuts("main", captured)
  /\ UNCHANGED <<fpgavars, wireIns, triggerOuts, transfers, upperbits, sent, crossed, servervars>>

ReadStatus ==
  /\ mpc = "status" /\ MainCaptures
  /\ mpc' = "statusheld"
  /\ UNCHANGED <<sysCtrl, trig>>

StoreStatus ==
  /\ mpc \in {"status", "statusheld"} /\ MainStores(mpc = "statusheld")
  /\ mpc' = "poll" /\ UNCHANGED mch

Poll ==
  /\ mpc = "poll" /\ UpdateTriggerOuts
  /\ mpc' = IF triggerOuts' = {} THEN "poll" ELSE "refresh"
  /\ UNCHANGED <<sysCtrl, savereg, wireIns, wireOuts, transfers, mainrest, servervars>>

\* (Mutant) the triggers are read once more after they have been looked at.
RefreshRereads ==
  /\ mpc = "refresh" /\ MainCaptures
  /\ trig' = {} /\ mpc' = "held"
  /\ UNCHANGED sysCtrl

Refresh ==
  /\ mpc = "refresh" /\ MainCaptures
  /\ mpc' = "held"
  /\ UNCHANGED <<sysCtrl, trig>>

StoreRefresh ==
  /\ mpc \in {"refresh", "held"} /\ MainStores(mpc = "held")
  /\ mpc' = "upper" /\ mch' = 1

NextChannel ==
  IF mch = NCHANNELS THEN mpc' = "poll" /\ mch' = 1
                     ELSE mpc' = "upper" /\ mch' = mch + 1

\* A half of a reading, from the driver's copy; and for the properties what main
\* itself had fetched, when a QUERY has put an older capture in its place.
Half(c) ==
  [val  |-> wireOuts[c],
   lost |-> IF crossed /\ wireOuts[c] < inHand["main"][c] THEN inHand["main"][c] ELSE 0]

SkipChannel ==
  /\ mpc = "upper" /\ mch \notin triggerOuts
  /\ NextChannel
  /\ UNCHANGED <<fpgavars, wireIns, wireOuts, triggerOuts, transfers, upperbits, sent, crossed,
                 servervars, nfail>>

ReadUpper ==
  /\ mpc = "upper" /\ mch \in triggerOuts
  /\ upperbits' = Half(mch)
  /\ mpc' = "lower"
  /\ UNCHANGED <<fpgavars, wireIns, wireOuts, triggerOuts, transfers, mch, sent, crossed,
                 servervars, nfail>>

\* (Mutant) the lower half is read before the upper half.
ReadLowerFirst ==
  /\ mpc = "lower"
  /\ sent' = [sent EXCEPT ![mch] = Append(@, [upper |-> Half(mch), lower |-> upperbits])]
  /\ upperbits' = NoHalf
  /\ NextChannel
  /\ UNCHANGED <<fpgavars, wireIns, wireOuts, triggerOuts, transfers, crossed, servervars, nfail>>

ReadLower ==
  /\ mpc = "lower"
  /\ sent' = [sent EXCEPT ![mch] = Append(@, [upper |-> upperbits, lower |-> Half(mch)])]
  /\ upperbits' = NoHalf
  /\ NextChannel
  /\ UNCHANGED <<fpgavars, wireIns, wireOuts, triggerOuts, transfers, crossed, servervars, nfail>>

BeforeDefault == mpc \in {"clear", "default"}
\* What is put into the driver's copy now, main's default is still to overwrite:
\* there, or in the FPGA.
DefaultToCome == BeforeDefault \/ mpc = "taken"
Initialising == mpc \in {"clear", "default", "commit", "taken", "delivered", "status", "statusheld"}

MainThread ==
  \/ ClearTriggers \/ SetDefault \/ TakeDefault \/ DeliverDefault \/ DefaultReturns
  \/ ReadStatus \/ StoreStatus
  \/ Poll \/ Refresh \/ StoreRefresh \/ SkipChannel \/ ReadUpper \/ ReadLower

-----------------------------------------------------------------------------
(* The server thread *)

CommandArrives ==
  /\ spc = "idle" /\ ncmd + nfail < MaxEvents
  /\ ncmd' = ncmd + 1
  /\ \/ \E cm \in Commands : cmd' = cm /\ spc' = "load"
     \/ cmd' = None /\ spc' = "query"
  /\ UNCHANGED <<fpgavars, wireIns, wireOuts, triggerOuts, transfers, mainvars, tmp, asked, early,
                 nfail>>

\* SetWireInValue: read, mask, write.
LoadWireIn ==
  /\ spc = "load" /\ tmp' = wireIns /\ spc' = "store"
  /\ UNCHANGED <<fpgavars, wireIns, wireOuts, triggerOuts, transfers, mainvars, cmd, asked, early,
                 ncmd, nfail>>

\* (Mutant) SetWireInValue ignores its mask.
StoreUnmasked ==
  /\ spc = "store"
  /\ wireIns' = [Zero EXCEPT ![cmd.field] = cmd.val]
  /\ early' = IF DefaultToCome THEN early \cup {cmd.field} ELSE early \ {cmd.field}
  /\ spc' = "commit" /\ tmp' = Zero
  /\ UNCHANGED <<fpgavars, wireOuts, triggerOuts, transfers, mainvars, cmd, asked, ncmd, nfail>>

StoreWireIn ==
  /\ spc = "store"
  /\ wireIns' = [tmp EXCEPT ![cmd.field] = cmd.val]
  /\ early' = IF DefaultToCome THEN early \cup {cmd.field} ELSE early \ {cmd.field}
  /\ spc' = "commit" /\ tmp' = Zero
  /\ UNCHANGED <<fpgavars, wireOuts, triggerOuts, transfers, mainvars, cmd, asked, ncmd, nfail>>

TakeCommand ==
  /\ spc = "commit" /\ TakeWireIns("server")
  /\ spc' = "taken"
  /\ UNCHANGED <<fpgavars, wireIns, wireOuts, triggerOuts, inHand, mainvars, cmd, tmp, asked, early,
                 ncmd, nfail>>

DeliverCommand ==
  /\ spc = "taken" /\ DeliverWireIns("server")
  /\ spc' = "delivered"
  /\ UNCHANGED <<savereg, trig, wireIns, wireOuts, triggerOuts, transfers, mainvars, cmd, tmp, asked,
                 early, ncmd, nfail>>

\* After which processRequest closes the connection.
CommandReturns ==
  /\ spc \in {"taken", "delivered"} /\ ReturnWireIns("server", spc = "delivered")
  /\ asked' = [asked EXCEPT ![cmd.field] = cmd.val]
  /\ spc' = "idle" /\ cmd' = None
  /\ UNCHANGED <<fpgavars, wireOuts, triggerOuts, inHand, mainvars, tmp, early, ncmd>>

\* getConfiguration
GetConfiguration ==
  /\ spc = "query" /\ CaptureWireOuts("server")
  /\ spc' = "held"
  /\ UNCHANGED <<fpgavars, wireIns, wireOuts, triggerOuts, outgoing, mainvars, cmd, tmp, asked, early,
                 ncmd, nfail>>

StoreConfiguration ==
  /\ spc \in {"query", "held"} /\ StoreWireOuts("server", spc = "held")
  /\ inHand' = [inHand EXCEPT !["server"] = Nothing]
  /\ spc' = "idle"
  /\ UNCHANGED <<fpgavars, wireIns, triggerOuts, outgoing, mainvars, cmd, tmp, asked, early, ncmd>>

ServerThread ==
  \/ LoadWireIn \/ StoreWireIn \/ TakeCommand \/ DeliverCommand \/ CommandReturns
  \/ GetConfiguration \/ StoreConfiguration

-----------------------------------------------------------------------------

Next ==
  \/ \E c \in Chan : Measure(c)
  \/ MainThread
  \/ CommandArrives
  \/ ServerThread

Spec == Init /\ [][Next]_vars

\* Both threads are scheduled.  Nothing makes a transfer fail.
FairSpec ==
  /\ Spec
  /\ WF_vars(MainThread /\ UNCHANGED nfail)
  /\ WF_vars(ServerThread /\ UNCHANGED nfail)

-----------------------------------------------------------------------------
(* Properties *)

Registers == [pps : 0..7, gpio : 0..1]
HalfReadings == [val : Nat, lost : Nat]
Readings == [upper : HalfReadings, lower : HalfReadings]

TypeOK ==
  /\ sysCtrl \in Registers /\ wireIns \in Registers /\ tmp \in Registers
  /\ outgoing \in [Threads -> Registers]
  /\ savereg \in [Chan -> Nat] /\ trig \subseteq Chan
  /\ wireOuts \in [Chan -> Nat] /\ inHand \in [Threads -> [Chan -> Nat]]
  /\ triggerOuts \subseteq Chan
  /\ mpc \in {"clear", "default", "commit", "taken", "delivered", "status", "statusheld",
              "poll", "refresh", "held", "upper", "lower"}
  /\ mch \in Chan /\ upperbits \in HalfReadings /\ crossed \in BOOLEAN
  /\ sent \in [Chan -> Seq(Readings)]
  /\ spc \in {"idle", "load", "store", "commit", "taken", "delivered", "query", "held"}
  /\ cmd \in Commands \cup {None}
  /\ spc \in {"load", "store", "commit", "taken", "delivered"} => cmd \in Commands
  /\ asked \in [Fields -> 0..7 \cup {None}] /\ early \subseteq Fields
  /\ ncmd \in 0..MaxEvents /\ nfail \in 0..MaxEvents

\* The command has written the field to the copy and not yet returned.
Pending(f) == spc \in {"commit", "taken", "delivered"} /\ cmd.field = f

\* What the last CONFIGURE of a field asked for is what the FPGA does, from the
\* moment the command is answered until the next one.  Only a failed transfer
\* can come in between, and main's default, if the field was changed before main
\* wrote it, or while main was sending it.
KeptUnlessFailed ==
  nfail = 0 =>
    \A f \in Fields \ early : asked[f] # None /\ ~Pending(f) => sysCtrl[f] = asked[f]

Halves(c) == [i \in 1..2 * Len(sent[c]) |->
                IF i % 2 = 1 THEN sent[c][(i + 1) \div 2].upper ELSE sent[c][i \div 2].lower]

\* The halves that are sent come from readings the channel has taken, and never
\* go back in time: the upper half of a reading is not newer than its lower
\* half, nor older than anything sent before.  Only a failed transfer puts a
\* zero in their place, and only a QUERY that captured before main and stored
\* after it puts an older capture there.
ReadingsForward ==
  \A c \in Chan :
    LET h == Halves(c) IN
    /\ \A i, n \in DOMAIN h :
         i <= n /\ h[i].lost = 0 /\ h[n].lost = 0 /\ h[n].val # 0 => h[i].val <= h[n].val
    /\ \A i \in DOMAIN h :
         h[i].val <= savereg[c] /\ (nfail = 0 /\ h[i].lost = 0 => h[i].val # 0)

\* Once main is polling, a reading that is taken is sent, or one that the same
\* channel took later is, however many commands come in between; only a failed
\* transfer loses it, or a QUERY that captured before main fetched it and stored
\* afterwards.
MeasurementReported ==
  \A c \in Chan : \A n \in 1..MaxMeas[c] :
    (c \in trig /\ savereg[c] = n /\ ~Initialising)
      ~> (nfail > 0 \/ \E i \in 1..Len(sent[c]) :
                         sent[c][i].lower.val >= n \/ sent[c][i].lower.lost >= n)

=============================================================================
