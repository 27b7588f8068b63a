------------------------- MODULE XEMRegistersProofs -------------------------
(***************************************************************************)
(* For any number of channels, readings, commands and failures: types, and *)
(* that the FPGA does what the last CONFIGURE of each field asked for.     *)
(*                                                                         *)
(* What the FPGA does is committed from the driver's copy, by either       *)
(* thread, and the copy is written from one that the server thread read    *)
(* before.  So the invariant follows the value from the command to the     *)
(* copy, and into what each thread is sending, and says that the other     *)
(* field's is the same in all those places.                                *)
(*                                                                         *)
(* A reading is two wires of a capture, and the server thread captures and *)
(* stores again in between, in whatever order.  The second invariant says  *)
(* where a half that was sent came from: main's last capture has it or     *)
(* something newer, or else the copy does, and what the server still holds *)
(* does too.                                                               *)
(***************************************************************************)
EXTENDS XEMRegisters, TLAPS

-----------------------------------------------------------------------------

\* Changed by a command, the latest after main's default
Settled(f) == f \notin early /\ asked[f] # None

FieldInv(f) ==
  /\ BeforeDefault => ~Settled(f) /\ (Pending(f) => f \in early)
  /\ Settled(f) /\ ~Pending(f) =>
       /\ wireIns[f] = asked[f] /\ sysCtrl[f] = asked[f]
       /\ mpc = "taken" => outgoing["main"][f] = asked[f]
  /\ f \notin early /\ Pending(f) =>
       /\ wireIns[f] = cmd.val
       /\ mpc = "taken" => outgoing["main"][f] = cmd.val
       /\ spc = "taken" => outgoing["server"][f] = cmd.val
       /\ spc = "delivered" => sysCtrl[f] = cmd.val
  /\ Settled(f) /\ ~Pending(f) =>
       /\ spc = "store" /\ cmd.field # f => tmp[f] = asked[f]
       /\ spc = "taken" => outgoing["server"][f] = asked[f]

CopyInv == nfail = 0 => \A f \in Fields : FieldInv(f)

IInv == TypeOK /\ CopyInv

-----------------------------------------------------------------------------
(* Types, in three parts: of the registers, of the server, of the readings *)

RegistersOK ==
  /\ sysCtrl \in Registers /\ wireIns \in Registers /\ tmp \in Registers
  /\ outgoing \in [Threads -> Registers]

ServerOK ==
  /\ spc \in {"idle", "load", "store", "commit", "taken", "delivered", "query", "held"}
  /\ cmd \in Commands \cup {None}
  /\ spc \in {"load", "store", "commit", "taken", "delivered"} => cmd \in Commands
  /\ asked \in [Fields -> 0..7 \cup {None}] /\ early \subseteq Fields
  /\ ncmd \in 0..MaxEvents /\ nfail \in 0..MaxEvents

ReadingsOK ==
  /\ savereg \in [Chan -> Nat] /\ trig \subseteq Chan
  /\ wireOuts \in [Chan -> Nat] /\ inHand \in [Threads -> [Chan -> Nat]]
  /\ triggerOuts \subseteq Chan
  /\ mpc \in {"clear", "default", "commit", "taken", "delivered", "status", "statusheld",
              "poll", "refresh", "held", "upper", "lower"}
  /\ mch \in Chan /\ upperbits \in HalfReadings /\ crossed \in BOOLEAN
  /\ sent \in [Chan -> Seq(Readings)]

LEMMA TypeParts ==
  /\ TypeOK <=> RegistersOK /\ ServerOK /\ ReadingsOK
  /\ (TypeOK <=> RegistersOK /\ ServerOK /\ ReadingsOK)'
BY DEF TypeOK, RegistersOK, ServerOK, ReadingsOK

LEMMA SameServer == ServerOK /\ UNCHANGED <<servervars, nfail>> => ServerOK'
BY DEF ServerOK, servervars

LEMMA FailTypes ==
  ASSUME ServerOK, Fail
  PROVE  nfail' \in 0..MaxEvents /\ nfail' # 0
BY XEMAssumption DEF Fail, ServerOK

LEMMA ZeroRegisters == Zero \in Registers /\ PowerUp \in Registers
BY DEF Zero, PowerUp, Registers

LEMMA NothingTypes == Nothing \in [Chan -> Nat] /\ NoHalf \in HalfReadings
BY DEF Nothing, NoHalf, HalfReadings

LEMMA StoreTypes ==
  ASSUME ReadingsOK, ServerOK, NEW t \in Threads, NEW captured \in BOOLEAN,
         StoreWireOuts(t, captured)
  PROVE  /\ wireOuts' \in [Chan -> Nat]
         /\ nfail' \in 0..MaxEvents /\ (nfail' = 0 => nfail = 0)
BY FailTypes, NothingTypes DEF StoreWireOuts, ReadingsOK, ServerOK

LEMMA ReturnTypes ==
  ASSUME RegistersOK, ServerOK, NEW t \in Threads, NEW delivered \in BOOLEAN,
         ReturnWireIns(t, delivered)
  PROVE  /\ wireIns' \in Registers /\ outgoing' \in [Threads -> Registers]
         /\ nfail' \in 0..MaxEvents
         /\ nfail' = 0 => nfail = 0 /\ wireIns' = wireIns /\ delivered
         /\ \A u \in Threads : u # t => outgoing'[u] = outgoing[u]
BY FailTypes, ZeroRegisters DEF ReturnWireIns, RegistersOK, ServerOK

LEMMA TriggerOutsTypes ==
  ASSUME ReadingsOK, ServerOK, UpdateTriggerOuts
  PROVE  /\ triggerOuts' \subseteq Chan /\ trig' \subseteq Chan
         /\ nfail' \in 0..MaxEvents /\ (nfail' = 0 => nfail = 0)
BY FailTypes DEF UpdateTriggerOuts, ReadingsOK, ServerOK

\* A command is about one of the two fields, with a value that its register has.
LEMMA CommandFields ==
  ASSUME NEW cm \in Commands
  PROVE  /\ cm.field \in Fields /\ cm.val \in 0..7
         /\ \A w \in Registers : [w EXCEPT ![cm.field] = cm.val] \in Registers
<1>1. CASE cm \in [field : {"pps"}, val : Sources]
  BY <1>1, XEMAssumption DEF Fields, Registers
<1>2. CASE cm \in [field : {"gpio"}, val : Enables]
  <2>1. cm.field = "gpio" /\ cm.val \in 0..1
    BY <1>2, XEMAssumption
  <2> QED  BY <2>1 DEF Fields, Registers
<1> QED  BY <1>1, <1>2 DEF Commands

LEMMA InitIInv == Init => IInv
<1> SUFFICES ASSUME Init PROVE IInv
  OBVIOUS
<1>1. RegistersOK
  BY ZeroRegisters DEF Init, RegistersOK
<1>2. ServerOK
  BY XEMAssumption DEF Init, ServerOK
<1>3. ReadingsOK
  <2>1. 1 \in Chan
    BY XEMAssumption DEF Chan
  <2>2. sent \in [Chan -> Seq(Readings)]
    <3>1. << >> \in Seq(Readings)
      OBVIOUS
    <3> QED  BY <3>1 DEF Init
  <2>3. inHand \in [Threads -> [Chan -> Nat]]
    BY NothingTypes DEF Init
  <2> QED  BY <2>1, <2>2, <2>3, NothingTypes DEF Init, ReadingsOK
<1>4. CopyInv
  BY DEF Init, CopyInv, FieldInv, Settled, Pending
<1> QED  BY <1>1, <1>2, <1>3, <1>4, TypeParts DEF IInv

-----------------------------------------------------------------------------
(* Steps that leave the registers alone *)

LEMMA SameCopies ==
  ASSUME IInv, UNCHANGED <<sysCtrl, wireIns, outgoing, tmp, asked, early>>,
         nfail' = 0 => nfail = 0, BeforeDefault' => BeforeDefault,
         mpc' = "taken" => mpc = "taken",
         UNCHANGED <<spc, cmd>>
           \/ (spc \in {"idle", "query", "held"}
                 /\ spc' \notin {"commit", "store", "taken", "delivered"})
  PROVE  CopyInv'
BY DEF IInv, CopyInv, FieldInv, Settled, Pending

LEMMA MeasureIInv ==
  ASSUME IInv, NEW c \in Chan, Measure(c)
  PROVE  IInv'
<1>1. RegistersOK'
  BY TypeParts DEF IInv, RegistersOK, Measure, servervars, transfers
<1>2. ServerOK'
  BY TypeParts, SameServer DEF IInv, Measure
<1>3. ReadingsOK'
  BY TypeParts DEF IInv, ReadingsOK, Measure, mainvars, transfers
<1>4. CopyInv'
  BY SameCopies DEF Measure, mainvars, servervars, transfers, BeforeDefault
<1> QED  BY <1>1, <1>2, <1>3, <1>4, TypeParts DEF IInv

LEMMA NextChannelTypes ==
  ASSUME mch \in Chan, NextChannel
  PROVE  mpc' \in {"poll", "upper"} /\ mch' \in Chan
BY XEMAssumption DEF NextChannel, Chan

LEMMA HalfTypes ==
  ASSUME ReadingsOK, NEW c \in Chan
  PROVE  /\ Half(c) \in HalfReadings /\ Half(c).val = wireOuts[c]
         /\ Half(c).lost = IF crossed /\ wireOuts[c] < inHand["main"][c]
                             THEN inHand["main"][c] ELSE 0
BY DEF Half, HalfReadings, ReadingsOK, Threads

LEMMA ChannelIInv ==
  ASSUME IInv, SkipChannel \/ ReadUpper \/ ReadLower
  PROVE  IInv'
<1>1. UNCHANGED <<fpgavars, wireIns, wireOuts, triggerOuts, transfers, servervars, nfail, crossed>>
  BY DEF SkipChannel, ReadUpper, ReadLower
<1>2. RegistersOK' /\ ServerOK'
  BY <1>1, TypeParts, SameServer DEF IInv, RegistersOK, fpgavars, servervars, transfers
<1>3. mpc' \in {"poll", "upper", "lower"} /\ mch' \in Chan
  BY TypeParts, NextChannelTypes DEF IInv, ReadingsOK, SkipChannel, ReadUpper, ReadLower
<1>4. upperbits' \in HalfReadings /\ sent' \in [Chan -> Seq(Readings)]
  <2>0. mch \in Chan /\ Half(mch) \in HalfReadings
    BY TypeParts, HalfTypes DEF IInv, ReadingsOK
  <2>1. CASE ReadLower
    <3> DEFINE reading == [upper |-> upperbits, lower |-> Half(mch)]
    <3>1. reading \in Readings
      BY <2>0, TypeParts DEF IInv, ReadingsOK, Readings
    <3>2. sent' = [sent EXCEPT ![mch] = Append(@, reading)] /\ upperbits' = NoHalf
      BY <2>1 DEF ReadLower
    <3> HIDE DEF reading
    <3> QED  BY <3>1, <3>2, TypeParts, NothingTypes DEF IInv, ReadingsOK
  <2>2. CASE SkipChannel \/ ReadUpper
    BY <2>0, <2>2, TypeParts DEF IInv, ReadingsOK, SkipChannel, ReadUpper
  <2> QED  BY <2>1, <2>2
<1>5. ReadingsOK'
  BY <1>1, <1>3, <1>4, TypeParts DEF IInv, ReadingsOK, fpgavars, transfers
<1>6. CopyInv'
  BY <1>1, <1>3, SameCopies DEF fpgavars, servervars, transfers, BeforeDefault
<1> QED  BY <1>2, <1>5, <1>6, TypeParts DEF IInv

LEMMA TriggersIInv ==
  ASSUME IInv, ClearTriggers \/ Poll
  PROVE  IInv'
<1>1. /\ UpdateTriggerOuts /\ mpc' \in {"default", "poll", "refresh"}
      /\ BeforeDefault' => BeforeDefault
      /\ UNCHANGED <<sysCtrl, savereg, wireIns, wireOuts, transfers, mainrest, servervars>>
  BY DEF ClearTriggers, Poll, BeforeDefault
<1>2. /\ triggerOuts' \subseteq Chan /\ trig' \subseteq Chan
      /\ nfail' \in 0..MaxEvents /\ (nfail' = 0 => nfail = 0)
  BY <1>1, TypeParts, TriggerOutsTypes DEF IInv
<1>3. RegistersOK' /\ ServerOK' /\ ReadingsOK'
  BY <1>1, <1>2, TypeParts
  DEF IInv, RegistersOK, ServerOK, ReadingsOK, servervars, transfers, mainrest
<1>4. CopyInv'
  BY <1>1, <1>2, SameCopies DEF servervars, transfers
<1> QED  BY <1>3, <1>4, TypeParts DEF IInv

LEMMA CaptureIInv ==
  ASSUME IInv, ReadStatus \/ Refresh \/ GetConfiguration
  PROVE  IInv'
<1>1. PICK t \in Threads : inHand' = [inHand EXCEPT ![t] = savereg]
  BY DEF ReadStatus, Refresh, GetConfiguration, MainCaptures, CaptureWireOuts, Threads
<1>2. /\ UNCHANGED <<fpgavars, wireIns, wireOuts, triggerOuts, outgoing, mch, upperbits, sent>>
      /\ UNCHANGED <<cmd, tmp, asked, early, ncmd, nfail>>
      /\ mpc' = mpc \/ mpc' \in {"statusheld", "held"}
      /\ crossed' = crossed \/ crossed' = (spc = "held")
      /\ spc' = spc \/ (spc = "query" /\ spc' = "held")
  BY DEF ReadStatus, Refresh, GetConfiguration, MainCaptures, fpgavars, mainvars, servervars
<1>3. inHand' \in [Threads -> [Chan -> Nat]]
  BY <1>1, TypeParts DEF IInv, ReadingsOK
<1>4. RegistersOK' /\ ServerOK'
  BY <1>2, TypeParts DEF IInv, RegistersOK, ServerOK, fpgavars
<1>5. ReadingsOK'
  BY <1>2, <1>3, TypeParts DEF IInv, ReadingsOK, fpgavars
<1>6. CopyInv'
  BY <1>2, SameCopies DEF fpgavars, BeforeDefault
<1> QED  BY <1>4, <1>5, <1>6, TypeParts DEF IInv

LEMMA StoreIInv ==
  ASSUME IInv, StoreStatus \/ StoreRefresh \/ StoreConfiguration
  PROVE  IInv'
<1>1. PICK t \in Threads, captured \in BOOLEAN : StoreWireOuts(t, captured)
  BY DEF StoreStatus, StoreRefresh, StoreConfiguration, MainStores, Threads
<1>2. /\ UNCHANGED <<fpgavars, wireIns, triggerOuts, outgoing, upperbits, sent, crossed>>
      /\ UNCHANGED <<cmd, tmp, asked, early, ncmd>>
      /\ mpc' \in {mpc, "poll", "upper"} /\ mch' \in {1, mch}
      /\ inHand' \in {inHand, [inHand EXCEPT !["server"] = Nothing]}
      /\ spc' = spc \/ (spc \in {"query", "held"} /\ spc' = "idle")
  BY DEF StoreStatus, StoreRefresh, StoreConfiguration, MainStores, mainvars, servervars, transfers
<1>3. /\ wireOuts' \in [Chan -> Nat]
      /\ nfail' \in 0..MaxEvents /\ (nfail' = 0 => nfail = 0)
  BY <1>1, TypeParts, StoreTypes DEF IInv
<1>4. 1 \in Chan
  BY XEMAssumption DEF Chan
<1>5. inHand' \in [Threads -> [Chan -> Nat]]
  BY <1>2, TypeParts, NothingTypes DEF IInv, ReadingsOK
<1>6. RegistersOK' /\ ServerOK'
  BY <1>2, <1>3, TypeParts DEF IInv, RegistersOK, ServerOK, fpgavars
<1>7. ReadingsOK'
  BY <1>2, <1>3, <1>4, <1>5, TypeParts DEF IInv, ReadingsOK, fpgavars
<1>8. CopyInv'
  BY <1>2, <1>3, SameCopies DEF fpgavars, BeforeDefault
<1> QED  BY <1>6, <1>7, <1>8, TypeParts DEF IInv

LEMMA CommandArrivesIInv ==
  ASSUME IInv, CommandArrives
  PROVE  IInv'
<1>1. RegistersOK' /\ ReadingsOK'
  BY TypeParts DEF IInv, RegistersOK, ReadingsOK, CommandArrives, fpgavars, mainvars, transfers
<1>2. ServerOK'
  <2>1. ncmd' \in 0..MaxEvents
    BY XEMAssumption, TypeParts DEF IInv, ServerOK, CommandArrives
  <2>2. (cmd' \in Commands /\ spc' = "load") \/ (cmd' = None /\ spc' = "query")
    BY DEF CommandArrives
  <2> QED  BY <2>1, <2>2, TypeParts DEF IInv, ServerOK, CommandArrives
<1>3. CopyInv'
  BY SameCopies DEF CommandArrives, fpgavars, mainvars, transfers, BeforeDefault
<1> QED  BY <1>1, <1>2, <1>3, TypeParts DEF IInv

-----------------------------------------------------------------------------
(* Steps that use the control register: of main *)

LEMMA TakeTypes ==
  ASSUME RegistersOK, NEW t \in Threads, TakeWireIns(t)
  PROVE  /\ outgoing' \in [Threads -> Registers] /\ outgoing'[t] = wireIns
         /\ \A u \in Threads : u # t => outgoing'[u] = outgoing[u]
BY DEF TakeWireIns, RegistersOK

LEMMA DeliverTypes ==
  ASSUME RegistersOK, NEW t \in Threads, DeliverWireIns(t)
  PROVE  sysCtrl' \in Registers /\ sysCtrl' = outgoing[t]
BY DEF DeliverWireIns, RegistersOK

LEMMA SetDefaultIInv ==
  ASSUME IInv, SetDefault
  PROVE  IInv'
<1>1. RegistersOK' /\ ServerOK' /\ ReadingsOK'
  BY ZeroRegisters, TypeParts, SameServer
  DEF IInv, RegistersOK, ReadingsOK, SetDefault, fpgavars, servervars, transfers, mainrest
<1>2. CopyInv'
  BY DEF IInv, CopyInv, FieldInv, Settled, Pending, BeforeDefault, SetDefault, fpgavars, servervars
<1> QED  BY <1>1, <1>2, TypeParts DEF IInv

LEMMA TakeDefaultIInv ==
  ASSUME IInv, TakeDefault
  PROVE  IInv'
<1>1. /\ outgoing' \in [Threads -> Registers] /\ outgoing'["main"] = wireIns
      /\ outgoing'["server"] = outgoing["server"]
  BY TypeParts, TakeTypes DEF IInv, TakeDefault, Threads
<1>2. RegistersOK' /\ ServerOK' /\ ReadingsOK'
  BY <1>1, TypeParts, SameServer
  DEF IInv, RegistersOK, ReadingsOK, TakeDefault, fpgavars, servervars, mainrest
<1>3. CopyInv'
  BY <1>1 DEF IInv, CopyInv, FieldInv, Settled, Pending, BeforeDefault, TakeDefault, fpgavars,
              servervars
<1> QED  BY <1>2, <1>3, TypeParts DEF IInv

LEMMA DeliverDefaultIInv ==
  ASSUME IInv, DeliverDefault
  PROVE  IInv'
<1>1. sysCtrl' \in Registers /\ sysCtrl' = outgoing["main"]
  BY TypeParts, DeliverTypes DEF IInv, DeliverDefault, Threads
<1>2. RegistersOK' /\ ServerOK' /\ ReadingsOK'
  BY <1>1, TypeParts, SameServer
  DEF IInv, RegistersOK, ReadingsOK, DeliverDefault, transfers, servervars, mainrest
<1>3. CopyInv'
  <2> SUFFICES ASSUME nfail = 0, NEW f \in Fields PROVE FieldInv(f)'
    BY DEF CopyInv, DeliverDefault
  <2>1. FieldInv(f)
    BY DEF IInv, CopyInv
  <2> QED
    BY <1>1, <2>1 DEF FieldInv, Settled, Pending, BeforeDefault, DeliverDefault, transfers,
                      servervars
<1> QED  BY <1>2, <1>3, TypeParts DEF IInv

LEMMA DefaultReturnsIInv ==
  ASSUME IInv, DefaultReturns
  PROVE  IInv'
<1>1. /\ wireIns' \in Registers /\ outgoing' \in [Threads -> Registers]
      /\ nfail' \in 0..MaxEvents
      /\ nfail' = 0 => nfail = 0 /\ wireIns' = wireIns
      /\ outgoing'["server"] = outgoing["server"]
  <2> DEFINE delivered == mpc = "delivered"
  <2>1. ReturnWireIns("main", delivered) /\ delivered \in BOOLEAN
    BY DEF DefaultReturns
  <2> HIDE DEF delivered
  <2> QED  BY <2>1, TypeParts, ReturnTypes DEF IInv, Threads
<1>2. RegistersOK' /\ ServerOK' /\ ReadingsOK'
  BY <1>1, TypeParts
  DEF IInv, RegistersOK, ServerOK, ReadingsOK, DefaultReturns, fpgavars, servervars, mainrest
<1>3. CopyInv'
  BY <1>1 DEF IInv, CopyInv, FieldInv, Settled, Pending, BeforeDefault, DefaultReturns, fpgavars,
              servervars
<1> QED  BY <1>2, <1>3, TypeParts DEF IInv

-----------------------------------------------------------------------------
(* Steps that use the control register: of the server thread *)

LEMMA LoadWireInIInv ==
  ASSUME IInv, LoadWireIn
  PROVE  IInv'
<1>1. RegistersOK' /\ ServerOK' /\ ReadingsOK'
  BY TypeParts DEF IInv, RegistersOK, ServerOK, ReadingsOK, LoadWireIn, fpgavars, mainvars, transfers
<1>2. CopyInv'
  <2> SUFFICES ASSUME nfail = 0, NEW f \in Fields PROVE FieldInv(f)'
    BY DEF CopyInv, LoadWireIn
  <2>1. FieldInv(f)
    BY DEF IInv, CopyInv
  <2> QED
    BY <2>1 DEF FieldInv, Settled, Pending, BeforeDefault, LoadWireIn, fpgavars, mainvars, transfers
<1> QED  BY <1>1, <1>2, TypeParts DEF IInv

LEMMA StoreWireInIInv ==
  ASSUME IInv, StoreWireIn
  PROVE  IInv'
<1>1. cmd \in Commands /\ cmd.field \in Fields
  BY TypeParts, CommandFields DEF IInv, ServerOK, StoreWireIn
<1>2. RegistersOK' /\ ServerOK' /\ ReadingsOK'
  BY <1>1, CommandFields, ZeroRegisters, TypeParts
  DEF IInv, RegistersOK, ServerOK, ReadingsOK, StoreWireIn, fpgavars, mainvars, transfers
<1>3. CopyInv'
  <2> SUFFICES ASSUME nfail = 0, NEW f \in Fields PROVE FieldInv(f)'
    BY DEF CopyInv, StoreWireIn
  <2>1. FieldInv(f) /\ BeforeDefault' = BeforeDefault
    BY DEF IInv, CopyInv, StoreWireIn, mainvars, BeforeDefault
  <2>2. tmp \in Registers /\ DOMAIN tmp = Fields
    BY TypeParts DEF IInv, RegistersOK, Registers, Fields
  <2>3. CASE f = cmd.field
    BY <1>1, <2>1, <2>2, <2>3
    DEF FieldInv, Settled, Pending, StoreWireIn, DefaultToCome, fpgavars, mainvars, transfers
  <2>4. CASE f # cmd.field
    BY <1>1, <2>1, <2>2, <2>4
    DEF FieldInv, Settled, Pending, StoreWireIn, fpgavars, mainvars, transfers
  <2> QED  BY <2>3, <2>4
<1> QED  BY <1>2, <1>3, TypeParts DEF IInv

LEMMA TakeCommandIInv ==
  ASSUME IInv, TakeCommand
  PROVE  IInv'
<1>1. /\ outgoing' \in [Threads -> Registers] /\ outgoing'["server"] = wireIns
      /\ outgoing'["main"] = outgoing["main"]
  BY TypeParts, TakeTypes DEF IInv, TakeCommand, Threads
<1>2. RegistersOK' /\ ServerOK' /\ ReadingsOK'
  BY <1>1, TypeParts DEF IInv, RegistersOK, ServerOK, ReadingsOK, TakeCommand, fpgavars, mainvars
<1>3. CopyInv'
  <2> SUFFICES ASSUME nfail = 0, NEW f \in Fields PROVE FieldInv(f)'
    BY DEF CopyInv, TakeCommand
  <2>1. FieldInv(f)
    BY DEF IInv, CopyInv
  <2> QED
    BY <1>1, <2>1 DEF FieldInv, Settled, Pending, BeforeDefault, TakeCommand, fpgavars, mainvars
<1> QED  BY <1>2, <1>3, TypeParts DEF IInv

LEMMA DeliverCommandIInv ==
  ASSUME IInv, DeliverCommand
  PROVE  IInv'
<1>1. sysCtrl' \in Registers /\ sysCtrl' = outgoing["server"]
  BY TypeParts, DeliverTypes DEF IInv, DeliverCommand, Threads
<1>2. RegistersOK' /\ ServerOK' /\ ReadingsOK'
  BY <1>1, TypeParts DEF IInv, RegistersOK, ServerOK, ReadingsOK, DeliverCommand, transfers, mainvars
<1>3. CopyInv'
  <2> SUFFICES ASSUME nfail = 0, NEW f \in Fields PROVE FieldInv(f)'
    BY DEF CopyInv, DeliverCommand
  <2>1. FieldInv(f)
    BY DEF IInv, CopyInv
  <2> QED
    BY <1>1, <2>1 DEF FieldInv, Settled, Pending, BeforeDefault, DeliverCommand, transfers, mainvars
<1> QED  BY <1>2, <1>3, TypeParts DEF IInv

LEMMA CommandReturnsIInv ==
  ASSUME IInv, CommandReturns
  PROVE  IInv'
<1>1. cmd \in Commands /\ cmd.field \in Fields /\ cmd.val \in 0..7
  BY TypeParts, CommandFields DEF IInv, ServerOK, CommandReturns
<1>2. /\ wireIns' \in Registers /\ outgoing' \in [Threads -> Registers]
      /\ nfail' \in 0..MaxEvents
      /\ nfail' = 0 => nfail = 0 /\ wireIns' = wireIns /\ spc = "delivered"
      /\ outgoing'["main"] = outgoing["main"]
  <2> DEFINE delivered == spc = "delivered"
  <2>1. ReturnWireIns("server", delivered) /\ delivered \in BOOLEAN
    BY DEF CommandReturns
  <2>2. nfail' = 0 => delivered
    BY <2>1, TypeParts, ReturnTypes DEF IInv, Threads
  <2>3. nfail' = 0 => spc = "delivered"
    BY <2>2
  <2> HIDE DEF delivered
  <2> QED  BY <2>1, <2>3, TypeParts, ReturnTypes DEF IInv, Threads
<1>3. RegistersOK' /\ ServerOK' /\ ReadingsOK'
  BY <1>1, <1>2, TypeParts
  DEF IInv, RegistersOK, ServerOK, ReadingsOK, CommandReturns, fpgavars, mainvars
<1>4. CopyInv'
  <2> SUFFICES ASSUME nfail' = 0, NEW f \in Fields PROVE FieldInv(f)'
    BY DEF CopyInv
  <2>1. FieldInv(f) /\ BeforeDefault' = BeforeDefault /\ asked \in [Fields -> 0..7 \cup {None}]
    BY <1>2, TypeParts DEF IInv, CopyInv, ServerOK, CommandReturns, mainvars, BeforeDefault
  <2>2. CASE f = cmd.field
    BY <1>1, <1>2, <2>1, <2>2 DEF FieldInv, Settled, Pending, CommandReturns, fpgavars, mainvars
  <2>3. CASE f # cmd.field
    BY <1>1, <1>2, <2>1, <2>3 DEF FieldInv, Settled, Pending, CommandReturns, fpgavars, mainvars
  <2> QED  BY <2>2, <2>3
<1> QED  BY <1>3, <1>4, TypeParts DEF IInv

LEMMA StepIInv == IInv /\ [Next]_vars => IInv'
<1> SUFFICES ASSUME IInv, [Next]_vars PROVE IInv'
  OBVIOUS
<1>1. CASE Next
  BY <1>1, MeasureIInv, ChannelIInv, TriggersIInv, CaptureIInv, StoreIInv, CommandArrivesIInv,
     SetDefaultIInv, TakeDefaultIInv, DeliverDefaultIInv, DefaultReturnsIInv, LoadWireInIInv,
     StoreWireInIInv, TakeCommandIInv, DeliverCommandIInv, CommandReturnsIInv
  DEF Next, MainThread, ServerThread
<1>2. CASE UNCHANGED vars
  <2>1. TypeOK'
    BY <1>2, TypeParts, SameServer
    DEF vars, IInv, RegistersOK, ReadingsOK, fpgavars, mainvars, servervars, transfers
  <2>2. CopyInv'
    BY <1>2, SameCopies DEF vars, fpgavars, mainvars, servervars, transfers, BeforeDefault
  <2> QED  BY <2>1, <2>2 DEF IInv
<1> QED  BY <1>1, <1>2

-----------------------------------------------------------------------------

\* The driver's copies agree on what has been asked for, after every step of
\* main, the server thread and the counters.
THEOREM InductiveInvariant == Spec => []IInv
<1>1. Init => IInv
  BY InitIInv
<1>2. IInv /\ [Next]_vars => IInv'
  BY StepIInv
<1> QED  BY <1>1, <1>2, PTL DEF Spec

\* The variables keep their types.
THEOREM TypeCorrect == Spec => []TypeOK
<1>1. IInv => TypeOK
  BY DEF IInv
<1> QED  BY <1>1, InductiveInvariant, PTL

\* setOutputPPSSource() and setGPIOEnable() next to main, without a lock and with
\* transfers under way in both threads: what each field was last asked to be is
\* what the FPGA does, until a transfer fails.
THEOREM SettingsKept == Spec => []KeptUnlessFailed
<1>1. IInv => KeptUnlessFailed
  BY DEF IInv, CopyInv, FieldInv, Settled, Pending, KeptUnlessFailed
<1> QED  BY <1>1, InductiveInvariant, PTL

-----------------------------------------------------------------------------
(* Readings.  The wires that main reads hold what main captured last, or   *)
(* what the server captured: later than that, unless the two crossed.      *)

MainReads == mpc \in {"upper", "lower"}

CaptureInv ==
  \A c \in Chan :
    /\ wireOuts[c] <= savereg[c] /\ \A t \in Threads : inHand[t][c] <= savereg[c]
    /\ c \in trig \cup triggerOuts => savereg[c] # 0
    /\ nfail = 0 /\ c \in triggerOuts /\ (mpc = "held" \/ MainReads) => inHand["main"][c] # 0

\* The copy is not newer than what main captured, or what the server still holds.
CopySource ==
  \A c \in Chan :
    wireOuts[c] <= inHand["main"][c] \/ (spc = "held" => wireOuts[c] <= inHand["server"][c])

Uncrossed ==
  ~crossed =>
    \A c \in Chan :
      /\ spc = "held" => inHand["server"][c] >= inHand["main"][c]
      /\ MainReads => \/ wireOuts[c] >= inHand["main"][c]
                      \/ wireOuts[c] = 0 /\ nfail # 0

\* A half that was sent is not newer than this value, if it is one.
NotNewer(x, v) == v # 0 => x <= v

\* Where a half came from that main has read: whatever main reads next is not older,
\* unless it is marked as lost.
Passed(x, c) ==
  \/ x <= inHand["main"][c]
  \/ /\ mpc \notin {"statusheld", "held"}
     /\ NotNewer(x, wireOuts[c]) /\ (spc = "held" => x <= inHand["server"][c])

GoodHalf(h, c) ==
  /\ h.val <= savereg[c]
  /\ h.lost = 0 => Passed(h.val, c) /\ (nfail = 0 => h.val # 0)

Later(g, h) == g.lost = 0 /\ h.lost = 0 => NotNewer(g.val, h.val)

UpperInv == mpc = "lower" => mch \in triggerOuts /\ GoodHalf(upperbits, mch)

SentInv ==
  \A c \in Chan : \A i \in DOMAIN Halves(c) :
    /\ GoodHalf(Halves(c)[i], c)
    /\ mpc = "lower" /\ mch = c => Later(Halves(c)[i], upperbits)
    /\ \A n \in DOMAIN Halves(c) : i <= n => Later(Halves(c)[i], Halves(c)[n])

ReadInv == CaptureInv /\ CopySource /\ Uncrossed /\ UpperInv /\ SentInv

LEMMA HalfOf ==
  ASSUME NEW n \in Nat, NEW i \in 1..2 * n
  PROVE  /\ i % 2 = 1 => (i + 1) \div 2 \in 1..n
         /\ i % 2 # 1 => i \div 2 \in 1..n
OBVIOUS

LEMMA LastHalves ==
  ASSUME NEW n \in Nat
  PROVE  /\ (2 * n + 1) % 2 = 1 /\ (2 * n + 1 + 1) \div 2 = n + 1
         /\ (2 * n + 2) % 2 # 1 /\ (2 * n + 2) \div 2 = n + 1
<1>1. (2 * n + 1) % 2 = 1 /\ (2 * n + 2) % 2 = 0
  OBVIOUS
<1>2. (2 * n + 2) \div 2 = n + 1 /\ 2 * n + 1 + 1 = 2 * n + 2
  OBVIOUS
<1> QED  BY <1>1, <1>2

LEMMA MemberOfSeq ==
  ASSUME NEW S, NEW q \in Seq(S), NEW k \in 1..Len(q)
  PROVE  q[k] \in S
OBVIOUS

LEMMA HalvesType ==
  ASSUME ReadingsOK, NEW c \in Chan
  PROVE  Halves(c) \in [1..2 * Len(sent[c]) -> HalfReadings]
<1>1. sent[c] \in Seq(Readings) /\ Len(sent[c]) \in Nat
  BY DEF ReadingsOK
<1>2. \A k \in 1..Len(sent[c]) : sent[c][k].upper \in HalfReadings /\ sent[c][k].lower \in HalfReadings
  <2> SUFFICES ASSUME NEW k \in 1..Len(sent[c])
               PROVE  sent[c][k].upper \in HalfReadings /\ sent[c][k].lower \in HalfReadings
    OBVIOUS
  <2>1. sent[c][k] \in Readings
    BY <1>1, MemberOfSeq
  <2> QED  BY <2>1 DEF Readings
<1> QED  BY <1>1, <1>2, HalfOf DEF Halves

LEMMA HalvesAppended ==
  ASSUME ReadingsOK, NEW c \in Chan, NEW u \in HalfReadings, NEW l \in HalfReadings,
         sent'[c] = Append(sent[c], [upper |-> u, lower |-> l])
  PROVE  LET n == 2 * Len(sent[c])
         IN  /\ n \in Nat /\ DOMAIN Halves(c) = 1..n /\ DOMAIN Halves(c)' = 1..n + 2
             /\ \A i \in 1..n : Halves(c)'[i] = Halves(c)[i] /\ Halves(c)[i] \in HalfReadings
             /\ Halves(c)'[n + 1] = u /\ Halves(c)'[n + 2] = l
<1> DEFINE k == Len(sent[c])
<1>1. sent[c] \in Seq(Readings) /\ k \in Nat
  BY DEF ReadingsOK
<1>2. /\ Len(sent'[c]) = k + 1
      /\ \A j \in 1..k : sent'[c][j] = sent[c][j]
      /\ sent'[c][k + 1] = [upper |-> u, lower |-> l]
  BY <1>1
<1>3. /\ Halves(c) = [i \in 1..2 * k |-> IF i % 2 = 1 THEN sent[c][(i + 1) \div 2].upper
                                                     ELSE sent[c][i \div 2].lower]
      /\ Halves(c)' = [i \in 1..2 * (k + 1) |-> IF i % 2 = 1 THEN sent'[c][(i + 1) \div 2].upper
                                                           ELSE sent'[c][i \div 2].lower]
  BY <1>2 DEF Halves
<1>4. \A i \in 1..2 * k : Halves(c)[i] \in HalfReadings
  BY HalvesType
<1> HIDE DEF k
<1>5. 2 * (k + 1) = 2 * k + 2 /\ 2 * k \in Nat
  BY <1>1
<1>6. ASSUME NEW i \in 1..2 * k PROVE Halves(c)'[i] = Halves(c)[i]
  <2>1. i \in 1..2 * (k + 1)
    BY <1>1
  <2>2. CASE i % 2 = 1
    <3>1. (i + 1) \div 2 \in 1..k
      BY <1>1, <2>2, HalfOf
    <3> QED  BY <1>2, <1>3, <2>1, <2>2, <3>1, SMTT(30)
  <2>3. CASE i % 2 # 1
    <3>1. i \div 2 \in 1..k
      BY <1>1, <2>3, HalfOf
    <3> QED  BY <1>2, <1>3, <2>1, <2>3, <3>1
  <2> QED  BY <2>2, <2>3
<1>7. 2 * k + 1 \in 1..2 * (k + 1) /\ 2 * k + 2 \in 1..2 * (k + 1)
  BY <1>1
<1>8. Halves(c)'[2 * k + 1] = u /\ Halves(c)'[2 * k + 2] = l
  BY <1>1, <1>2, <1>3, <1>7, LastHalves
<1> QED  BY <1>3, <1>4, <1>5, <1>6, <1>8 DEF k

LEMMA InitReadInv == Init => ReadInv
<1> SUFFICES ASSUME Init PROVE ReadInv
  OBVIOUS
<1>1. \A c \in Chan : DOMAIN Halves(c) = {}
  BY DEF Init, Halves
<1>2. CaptureInv /\ CopySource /\ Uncrossed
  BY DEF Init, CaptureInv, CopySource, Uncrossed, MainReads, Nothing
<1>3. UpperInv /\ SentInv
  BY <1>1 DEF Init, UpperInv, SentInv
<1> QED  BY <1>2, <1>3 DEF ReadInv

LEMMA SameHalves == UNCHANGED sent => \A c \in Chan : Halves(c)' = Halves(c)
BY DEF Halves

\* Types of what the readings are made of
LEMMA ReadTypes ==
  ASSUME TypeOK
  PROVE  /\ savereg \in [Chan -> Nat] /\ wireOuts \in [Chan -> Nat]
         /\ inHand \in [Threads -> [Chan -> Nat]]
         /\ inHand["main"] \in [Chan -> Nat] /\ inHand["server"] \in [Chan -> Nat]
         /\ upperbits.val \in Nat /\ mch \in Chan /\ nfail \in Nat
         /\ \A c \in Chan : \A i \in DOMAIN Halves(c) : Halves(c)[i].val \in Nat
<1>1. ReadingsOK /\ nfail \in Nat
  BY TypeParts, XEMAssumption DEF ServerOK
<1>2. \A c \in Chan : \A i \in DOMAIN Halves(c) : Halves(c)[i].val \in Nat
  BY <1>1, HalvesType DEF HalfReadings
<1> QED  BY <1>1, <1>2 DEF ReadingsOK, HalfReadings, Threads

\* A half keeps its place when the copy and the captures change as they do.
LEMMA HalvesStay ==
  ASSUME TypeOK, ReadInv, UNCHANGED <<sent, upperbits>>,
         mpc' = "lower" => mpc = "lower" /\ UNCHANGED <<mch, triggerOuts>>,
         \A c \in Chan : savereg'[c] \in Nat /\ savereg[c] <= savereg'[c],
         nfail' = 0 => nfail = 0,
         \A c \in Chan : \A x \in Nat : x <= savereg[c] /\ Passed(x, c) => Passed(x, c)'
  PROVE  UpperInv' /\ SentInv'
<1>1. ASSUME NEW h, NEW c \in Chan, h.val \in Nat, GoodHalf(h, c)
      PROVE  /\ h.val <= savereg'[c]
             /\ h.lost = 0 => Passed(h.val, c)' /\ (nfail' = 0 => h.val # 0)
  <2>1. h.val <= savereg[c] /\ savereg[c] \in Nat /\ savereg'[c] \in Nat
    BY <1>1, ReadTypes DEF GoodHalf
  <2>2. h.val <= savereg'[c]
    BY <1>1, <2>1
  <2>3. ASSUME h.lost = 0 PROVE Passed(h.val, c)' /\ (nfail' = 0 => h.val # 0)
    BY <1>1, <2>1, <2>3 DEF GoodHalf
  <2> QED  BY <2>2, <2>3
<1>2. UpperInv'
  <2> SUFFICES ASSUME mpc' = "lower" PROVE mch' \in triggerOuts' /\ GoodHalf(upperbits, mch)'
    BY DEF UpperInv
  <2>1. mch' = mch /\ mch \in Chan /\ mch \in triggerOuts /\ GoodHalf(upperbits, mch)
    BY ReadTypes DEF ReadInv, UpperInv
  <2>2. /\ upperbits.val <= savereg'[mch]
        /\ upperbits.lost = 0 => Passed(upperbits.val, mch)' /\ (nfail' = 0 => upperbits.val # 0)
    BY <1>1, <2>1, ReadTypes
  <2>3. upperbits' = upperbits
    OBVIOUS
  <2> QED  BY <2>1, <2>2, <2>3 DEF GoodHalf, Passed
<1>3. SentInv'
  <2> SUFFICES ASSUME NEW c \in Chan, NEW i \in DOMAIN Halves(c)
               PROVE  /\ GoodHalf(Halves(c)[i], c)'
                      /\ mpc' = "lower" /\ mch' = c => Later(Halves(c)[i], upperbits')
                      /\ \A n \in DOMAIN Halves(c) : i <= n => Later(Halves(c)[i], Halves(c)[n])
    BY SameHalves DEF SentInv, Later
  <2>1. GoodHalf(Halves(c)[i], c) /\ Halves(c)[i].val \in Nat
    BY ReadTypes DEF ReadInv, SentInv
  <2>2. Halves(c)' = Halves(c)
    BY SameHalves
  <2>3. PICK h : h = Halves(c)[i]
    OBVIOUS
  <2>4. h.val <= savereg'[c] /\ (h.lost = 0 => Passed(h.val, c)' /\ (nfail' = 0 => h.val # 0))
    BY <1>1, <2>1, <2>3
  <2>5. GoodHalf(Halves(c)[i], c)'
    BY <2>2, <2>3, <2>4 DEF GoodHalf, Passed
  <2>6. mpc' = "lower" /\ mch' = c => Later(Halves(c)[i], upperbits')
    BY DEF ReadInv, SentInv
  <2> QED  BY <2>5, <2>6 DEF ReadInv, SentInv
<1> QED  BY <1>2, <1>3

\* Steps that neither capture nor store nor read: triggers may be read and copied.
LEMMA SameReadings ==
  ASSUME TypeOK, ReadInv, UNCHANGED <<savereg, wireOuts, inHand, upperbits, sent, mch, crossed>>,
         trig' \subseteq trig, triggerOuts' \subseteq trig \cup triggerOuts,
         nfail' = 0 => nfail = 0, nfail # 0 => nfail' # 0,
         spc' = "held" => spc = "held",
         UNCHANGED <<mpc, triggerOuts>> \/ mpc' \notin {"statusheld", "held", "upper", "lower"}
  PROVE  ReadInv'
<1>1. CaptureInv' /\ CopySource' /\ Uncrossed'
  BY DEF ReadInv, CaptureInv, CopySource, Uncrossed, MainReads
<1>2. \A c \in Chan : \A x \in Nat : x <= savereg[c] /\ Passed(x, c) => Passed(x, c)'
  BY DEF Passed, NotNewer
<1>3. \A c \in Chan : savereg'[c] \in Nat /\ savereg[c] <= savereg'[c]
  BY ReadTypes
<1>4. UpperInv' /\ SentInv'
  BY <1>2, <1>3, HalvesStay
<1> QED  BY <1>1, <1>4 DEF ReadInv

LEMMA MeasureReadInv ==
  ASSUME TypeOK, ReadInv, NEW c \in Chan, Measure(c)
  PROVE  ReadInv'
<1>1. /\ UNCHANGED <<wireOuts, triggerOuts, inHand, mpc, mch, upperbits, sent, crossed, spc, nfail>>
      /\ trig' = trig \cup {c}
  BY DEF Measure, mainvars, servervars, transfers
<1>2. /\ \A d \in Chan : savereg'[d] \in Nat /\ savereg[d] <= savereg'[d]
      /\ savereg'[c] # 0
  BY ReadTypes DEF Measure
<1>3. CaptureInv'
  BY <1>1, <1>2, ReadTypes DEF ReadInv, CaptureInv, MainReads
<1>4. CopySource' /\ Uncrossed'
  BY <1>1 DEF ReadInv, CopySource, Uncrossed, MainReads
<1>5. \A d \in Chan : \A x \in Nat : x <= savereg[d] /\ Passed(x, d) => Passed(x, d)'
  BY <1>1 DEF Passed, NotNewer
<1>6. UpperInv' /\ SentInv'
  BY <1>1, <1>2, <1>5, HalvesStay
<1> QED  BY <1>3, <1>4, <1>6 DEF ReadInv

LEMMA MainCapturesReadInv ==
  ASSUME TypeOK, ReadInv, ReadStatus \/ Refresh
  PROVE  ReadInv'
<1>1. /\ UNCHANGED <<savereg, trig, wireOuts, triggerOuts, upperbits, sent, spc, nfail>>
      /\ mpc' \in {"statusheld", "held"} /\ crossed' = (spc = "held")
      /\ inHand' = [inHand EXCEPT !["main"] = savereg]
  BY DEF ReadStatus, Refresh, MainCaptures, CaptureWireOuts, servervars
<1>2. inHand'["main"] = savereg /\ inHand'["server"] = inHand["server"]
  BY <1>1, ReadTypes DEF Threads
<1>3. CaptureInv'
  BY <1>1, <1>2, ReadTypes DEF ReadInv, CaptureInv, MainReads, Threads
<1>4. CopySource' /\ Uncrossed'
  BY <1>1, <1>2, ReadTypes DEF ReadInv, CaptureInv, CopySource, Uncrossed, MainReads
<1>5. \A c \in Chan : \A x \in Nat : x <= savereg[c] /\ Passed(x, c) => Passed(x, c)'
  BY <1>1, <1>2 DEF Passed
<1>6. \A c \in Chan : savereg'[c] \in Nat /\ savereg[c] <= savereg'[c]
  BY <1>1, ReadTypes
<1>7. UpperInv' /\ SentInv'
  BY <1>1, <1>5, <1>6, HalvesStay
<1> QED  BY <1>3, <1>4, <1>7 DEF ReadInv

LEMMA ConfigurationReadInv ==
  ASSUME TypeOK, ReadInv, GetConfiguration
  PROVE  ReadInv'
<1>1. /\ UNCHANGED <<savereg, trig, wireOuts, triggerOuts, upperbits, sent, mpc, mch, crossed, nfail>>
      /\ spc' = "held" /\ inHand' = [inHand EXCEPT !["server"] = savereg]
  BY DEF GetConfiguration, CaptureWireOuts, fpgavars, mainvars
<1>2. inHand'["main"] = inHand["main"] /\ inHand'["server"] = savereg
  BY <1>1, ReadTypes DEF Threads
<1>3. CaptureInv'
  BY <1>1, <1>2, ReadTypes DEF ReadInv, CaptureInv, MainReads, Threads
<1>4. CopySource' /\ Uncrossed'
  BY <1>1, <1>2, ReadTypes DEF ReadInv, CaptureInv, CopySource, Uncrossed, MainReads, Threads
<1>5. \A c \in Chan : \A x \in Nat : x <= savereg[c] /\ Passed(x, c) => Passed(x, c)'
  BY <1>1, <1>2 DEF Passed, NotNewer
<1>6. \A c \in Chan : savereg'[c] \in Nat /\ savereg[c] <= savereg'[c]
  BY <1>1, ReadTypes
<1>7. UpperInv' /\ SentInv'
  BY <1>1, <1>5, <1>6, HalvesStay
<1> QED  BY <1>3, <1>4, <1>7 DEF ReadInv

LEMMA MainStoresReadInv ==
  ASSUME TypeOK, ReadInv, StoreStatus \/ StoreRefresh
  PROVE  ReadInv'
<1>1. /\ UNCHANGED <<savereg, trig, triggerOuts, inHand, upperbits, sent, spc, crossed>>
      /\ mpc' \in {"poll", "upper"} /\ (mpc' = "upper" => mpc \in {"refresh", "held"})
  BY DEF StoreStatus, StoreRefresh, MainStores, fpgavars, transfers, servervars
<1>2. \/ mpc \in {"statusheld", "held"} /\ wireOuts' = inHand["main"] /\ nfail' = nfail
      \/ wireOuts' = Nothing /\ nfail' # 0
  <2>1. \/ mpc \in {"statusheld", "held"} /\ wireOuts' = inHand["main"] /\ nfail' = nfail
        \/ wireOuts' = Nothing /\ Fail
    BY DEF StoreStatus, StoreRefresh, MainStores, StoreWireOuts
  <2> QED  BY <2>1, ReadTypes DEF Fail
<1>3. nfail' = 0 => nfail = 0 /\ (mpc' = "upper" => mpc = "held")
  BY <1>1, <1>2
<1>4. CaptureInv'
  <2>1. \A c \in Chan : wireOuts'[c] <= savereg[c]
    BY <1>2, ReadTypes DEF ReadInv, CaptureInv, Nothing, Threads
  <2>2. MainReads' => mpc' = "upper"
    BY <1>1 DEF MainReads
  <2> QED  BY <1>1, <1>3, <2>1, <2>2 DEF ReadInv, CaptureInv
<1>5. CopySource' /\ Uncrossed'
  BY <1>1, <1>2, ReadTypes DEF ReadInv, CaptureInv, CopySource, Uncrossed, MainReads, Nothing
<1>6. \A c \in Chan : \A x \in Nat : x <= savereg[c] /\ Passed(x, c) => Passed(x, c)'
  BY <1>1, <1>2, ReadTypes DEF Passed, NotNewer, Nothing
<1>7. \A c \in Chan : savereg'[c] \in Nat /\ savereg[c] <= savereg'[c]
  BY <1>1, ReadTypes
<1>8. UpperInv' /\ SentInv'
  BY <1>1, <1>3, <1>6, <1>7, HalvesStay
<1> QED  BY <1>4, <1>5, <1>8 DEF ReadInv

LEMMA ServerStoresReadInv ==
  ASSUME TypeOK, ReadInv, StoreConfiguration
  PROVE  ReadInv'
<1>1. /\ UNCHANGED <<savereg, trig, triggerOuts, upperbits, sent, mpc, mch, crossed>>
      /\ spc' = "idle" /\ inHand' = [inHand EXCEPT !["server"] = Nothing]
  BY DEF StoreConfiguration, fpgavars, mainvars
<1>2. inHand'["main"] = inHand["main"] /\ inHand'["server"] = Nothing
  BY <1>1, ReadTypes DEF Threads
<1>3. \/ spc = "held" /\ wireOuts' = inHand["server"] /\ nfail' = nfail
      \/ wireOuts' = Nothing /\ nfail' # 0
  BY ReadTypes DEF StoreConfiguration, StoreWireOuts, Fail
<1>4. CaptureInv'
  BY <1>1, <1>2, <1>3, ReadTypes DEF ReadInv, CaptureInv, MainReads, Nothing, Threads
<1>5. CopySource' /\ Uncrossed'
  BY <1>1, <1>2, <1>3, ReadTypes DEF ReadInv, CaptureInv, CopySource, Uncrossed, MainReads, Nothing
<1>6. \A c \in Chan : \A x \in Nat : x <= savereg[c] /\ Passed(x, c) => Passed(x, c)'
  BY <1>1, <1>2, <1>3, ReadTypes DEF Passed, NotNewer, Nothing
<1>7. \A c \in Chan : savereg'[c] \in Nat /\ savereg[c] <= savereg'[c]
  BY <1>1, ReadTypes
<1>8. UpperInv' /\ SentInv'
  BY <1>1, <1>3, <1>6, <1>7, HalvesStay
<1> QED  BY <1>4, <1>5, <1>8 DEF ReadInv

\* What main reads is good, and not older than what it read before.
LEMMA ReadHalf ==
  ASSUME TypeOK, ReadInv, MainReads, mch \in triggerOuts
  PROVE  /\ GoodHalf(Half(mch), mch) /\ Half(mch).val \in Nat
         /\ \A g : g.val \in Nat /\ GoodHalf(g, mch) => Later(g, Half(mch))
<1> DEFINE W == wireOuts[mch]
           M == inHand["main"][mch]
           h == Half(mch)
<1>1. /\ mch \in Chan /\ W \in Nat /\ M \in Nat /\ W <= savereg[mch]
      /\ h.val = W /\ h.lost = IF crossed /\ W < M THEN M ELSE 0
  BY ReadTypes, TypeParts, HalfTypes DEF ReadInv, CaptureInv
<1>2. nfail = 0 => M # 0
  BY <1>1 DEF ReadInv, CaptureInv
<1>3. h.lost = 0 => W >= M \/ (W = 0 /\ nfail # 0)
  <2>1. ~crossed => W >= M \/ (W = 0 /\ nfail # 0)
    BY <1>1 DEF ReadInv, Uncrossed
  <2> HIDE DEF h, W, M
  <2> QED  BY <1>1, <2>1
<1>4. Passed(W, mch)
  BY <1>1 DEF ReadInv, CopySource, Passed, NotNewer, MainReads
<1>5. GoodHalf(h, mch)
  <2>1. h.lost = 0 => (nfail = 0 => W # 0)
    <3> HIDE DEF h, W, M
    <3> QED  BY <1>1, <1>2, <1>3
  <2>2. h.val = W
    BY <1>1
  <2> HIDE DEF h
  <2> QED  BY <1>1, <1>4, <2>1, <2>2 DEF GoodHalf
<1>6. ASSUME NEW g, g.val \in Nat, GoodHalf(g, mch) PROVE Later(g, h)
  <2>1. g.lost = 0 => g.val <= M \/ NotNewer(g.val, W)
    BY <1>6 DEF GoodHalf, Passed
  <2> HIDE DEF h, W, M
  <2> QED  BY <1>1, <1>3, <1>6, <2>1 DEF Later, NotNewer
<1> QED  BY <1>1, <1>5, <1>6

LEMMA ReadUpperReadInv ==
  ASSUME TypeOK, ReadInv, SkipChannel \/ ReadUpper
  PROVE  ReadInv'
<1>1. /\ UNCHANGED <<savereg, trig, wireOuts, triggerOuts, inHand, sent, crossed, spc, nfail>>
      /\ mpc = "upper"
      /\ \/ mpc' \in {"poll", "upper"}
         \/ mpc' = "lower" /\ mch' = mch /\ mch \in triggerOuts /\ upperbits' = Half(mch)
  BY DEF SkipChannel, ReadUpper, NextChannel, fpgavars, transfers, servervars
<1>2. CaptureInv' /\ CopySource' /\ Uncrossed'
  BY <1>1 DEF ReadInv, CaptureInv, CopySource, Uncrossed, MainReads
<1>3. MainReads
  BY <1>1 DEF MainReads
<1>4. UpperInv'
  <2> SUFFICES ASSUME mpc' = "lower" PROVE mch' \in triggerOuts' /\ GoodHalf(upperbits, mch)'
    BY DEF UpperInv
  <2>1. PICK h : h = Half(mch)
    OBVIOUS
  <2>2. GoodHalf(h, mch) /\ mch \in Chan
    BY <1>1, <1>3, <2>1, ReadHalf, ReadTypes
  <2> QED  BY <1>1, <2>1, <2>2 DEF GoodHalf, Passed
<1>5. SentInv'
  <2> SUFFICES ASSUME NEW c \in Chan, NEW i \in DOMAIN Halves(c)
               PROVE  /\ GoodHalf(Halves(c)[i], c)'
                      /\ mpc' = "lower" /\ mch' = c => Later(Halves(c)[i], upperbits')
                      /\ \A n \in DOMAIN Halves(c) : i <= n => Later(Halves(c)[i], Halves(c)[n])
    BY <1>1, SameHalves DEF SentInv, Later
  <2>1. Halves(c)' = Halves(c)
    BY <1>1, SameHalves
  <2>2. PICK h : h = Halves(c)[i]
    OBVIOUS
  <2>3. GoodHalf(h, c) /\ h.val \in Nat
    BY <2>2, ReadTypes DEF ReadInv, SentInv
  <2>4. GoodHalf(Halves(c)[i], c)'
    BY <1>1, <2>1, <2>2, <2>3 DEF GoodHalf, Passed
  <2>5. mpc' = "lower" /\ mch' = c => Later(h, upperbits')
    BY <1>1, <1>3, <2>3, ReadHalf
  <2> QED  BY <2>2, <2>4, <2>5 DEF ReadInv, SentInv
<1> QED  BY <1>2, <1>4, <1>5 DEF ReadInv

LEMMA ReadLowerReadInv ==
  ASSUME TypeOK, ReadInv, ReadLower
  PROVE  ReadInv'
<1>1. /\ UNCHANGED <<savereg, trig, wireOuts, triggerOuts, inHand, crossed, spc, nfail>>
      /\ mpc = "lower" /\ mpc' \in {"poll", "upper"}
  BY DEF ReadLower, NextChannel, fpgavars, transfers, servervars
<1>2. CaptureInv' /\ CopySource' /\ Uncrossed' /\ UpperInv'
  BY <1>1 DEF ReadInv, CaptureInv, CopySource, Uncrossed, MainReads, UpperInv
<1>3. MainReads
  BY <1>1 DEF MainReads
<1>4. PICK u, l : u = upperbits /\ l = Half(mch)
  OBVIOUS
<1>5. /\ mch \in Chan /\ mch \in triggerOuts
      /\ u \in HalfReadings /\ l \in HalfReadings
      /\ GoodHalf(u, mch) /\ GoodHalf(l, mch) /\ Later(u, l)
      /\ \A g : g.val \in Nat /\ GoodHalf(g, mch) => Later(g, l)
  <2>1. mch \in Chan /\ mch \in triggerOuts /\ GoodHalf(u, mch) /\ u \in HalfReadings
    BY <1>1, <1>4, TypeParts DEF ReadInv, UpperInv, ReadingsOK
  <2>2. l \in HalfReadings
    BY <1>4, <2>1, TypeParts, HalfTypes
  <2>3. GoodHalf(l, mch) /\ \A g : g.val \in Nat /\ GoodHalf(g, mch) => Later(g, l)
    BY <1>3, <1>4, <2>1, ReadHalf
  <2>4. u.val \in Nat
    BY <2>1 DEF HalfReadings
  <2> QED  BY <2>1, <2>2, <2>3, <2>4
<1>6. ASSUME NEW h, NEW c \in Chan, GoodHalf(h, c) PROVE GoodHalf(h, c)'
  BY <1>1, <1>6 DEF GoodHalf, Passed
<1>7. SentInv'
  <2> SUFFICES ASSUME NEW c \in Chan
               PROVE  \A i \in DOMAIN Halves(c)' :
                        /\ GoodHalf(Halves(c)[i], c)'
                        /\ \A n \in DOMAIN Halves(c)' : i <= n => Later(Halves(c)'[i], Halves(c)'[n])
    BY <1>1 DEF SentInv, Later
  <2>1. CASE c # mch
    <3>1. Halves(c)' = Halves(c)
      BY <2>1 DEF ReadLower, Halves
    <3>2. ASSUME NEW i \in DOMAIN Halves(c) PROVE GoodHalf(Halves(c)[i], c)'
      <4>1. PICK h : h = Halves(c)[i]
        OBVIOUS
      <4>2. GoodHalf(h, c)
        BY <3>2, <4>1 DEF ReadInv, SentInv
      <4> QED  BY <1>1, <3>1, <4>1, <4>2 DEF GoodHalf, Passed
    <3> QED  BY <3>1, <3>2 DEF ReadInv, SentInv
  <2>2. CASE c = mch
    <3>1. sent'[c] = Append(sent[c], [upper |-> u, lower |-> l])
      BY <1>4, <2>2, TypeParts DEF ReadLower, ReadingsOK
    <3> DEFINE n == 2 * Len(sent[c])
    <3>2. /\ n \in Nat /\ DOMAIN Halves(c) = 1..n /\ DOMAIN Halves(c)' = 1..n + 2
          /\ \A i \in 1..n : Halves(c)'[i] = Halves(c)[i] /\ Halves(c)[i] \in HalfReadings
          /\ Halves(c)'[n + 1] = u /\ Halves(c)'[n + 2] = l
      BY <1>5, <3>1, HalvesAppended, TypeParts, SMTT(30)
    <3> HIDE DEF n
    <3>3. \A i \in 1..n :
            /\ GoodHalf(Halves(c)[i], c) /\ Halves(c)[i].val \in Nat
            /\ Later(Halves(c)[i], u)
            /\ \A j \in 1..n : i <= j => Later(Halves(c)[i], Halves(c)[j])
      BY <1>1, <1>4, <2>2, <3>2, ReadTypes DEF ReadInv, SentInv
    <3>4. \A i \in 1..n : Later(Halves(c)[i], l)
      BY <1>5, <2>2, <3>3
    <3>5. Later(u, u) /\ Later(l, l)
      <4>1. u.val \in Nat /\ l.val \in Nat
        BY <1>5 DEF HalfReadings
      <4> QED  BY <4>1 DEF Later, NotNewer
    <3>6. ASSUME NEW i \in 1..n + 2 PROVE GoodHalf(Halves(c)[i], c)'
      <4>1. PICK h : h = Halves(c)'[i]
        OBVIOUS
      <4>2. i \in 1..n \/ i = n + 1 \/ i = n + 2
        BY <3>2
      <4>3. GoodHalf(h, c)
        BY <1>5, <2>2, <3>2, <3>3, <4>1, <4>2
      <4> QED  BY <1>1, <4>1, <4>3 DEF GoodHalf, Passed
    <3>7. ASSUME NEW i \in 1..n + 2, NEW j \in 1..n + 2, i <= j
          PROVE  Later(Halves(c)'[i], Halves(c)'[j])
      <4>1. CASE i \in 1..n /\ j \in 1..n
        BY <3>2, <3>3, <3>7, <4>1
      <4>2. CASE i \in 1..n /\ j \in {n + 1, n + 2}
        BY <3>2, <3>3, <3>4, <4>2
      <4>3. CASE i = n + 1 /\ j \in {n + 1, n + 2}
        BY <1>5, <3>2, <3>5, <4>3
      <4>4. CASE i = n + 2 /\ j = n + 2
        BY <3>2, <3>5, <4>4
      <4>5. \/ i \in 1..n /\ j \in 1..n
            \/ i \in 1..n /\ j \in {n + 1, n + 2}
            \/ i = n + 1 /\ j \in {n + 1, n + 2}
            \/ i = n + 2 /\ j = n + 2
        BY <3>2, <3>7
      <4> QED  BY <4>1, <4>2, <4>3, <4>4, <4>5
    <3> QED  BY <3>2, <3>6, <3>7
  <2> QED  BY <2>1, <2>2
<1> QED  BY <1>2, <1>7 DEF ReadInv

LEMMA StepReadInv == TypeOK /\ ReadInv /\ [Next]_vars => ReadInv'
<1> SUFFICES ASSUME TypeOK, ReadInv, [Next]_vars PROVE ReadInv'
  OBVIOUS
<1>1. CASE (\E c \in Chan : Measure(c)) \/ ReadStatus \/ Refresh \/ GetConfiguration
           \/ StoreStatus \/ StoreRefresh \/ StoreConfiguration
           \/ SkipChannel \/ ReadUpper \/ ReadLower
  BY <1>1, MeasureReadInv, MainCapturesReadInv, ConfigurationReadInv, MainStoresReadInv,
     ServerStoresReadInv, ReadUpperReadInv, ReadLowerReadInv
<1>2. CASE ClearTriggers \/ Poll
  <2>1. /\ UNCHANGED <<savereg, wireOuts, inHand, upperbits, sent, mch, crossed, spc>>
        /\ mpc' \notin {"statusheld", "held", "upper", "lower"}
        /\ trig' \subseteq trig /\ triggerOuts' \subseteq trig
        /\ nfail' = nfail \/ nfail' # 0
    BY <1>2, ReadTypes
    DEF ClearTriggers, Poll, UpdateTriggerOuts, Fail, transfers, mainrest, servervars
  <2> QED  BY <2>1, SameReadings
<1>3. CASE \/ SetDefault \/ TakeDefault \/ DeliverDefault \/ DefaultReturns
           \/ CommandArrives \/ LoadWireIn \/ StoreWireIn
           \/ TakeCommand \/ DeliverCommand \/ CommandReturns
  <2>1. /\ UNCHANGED <<savereg, trig, wireOuts, triggerOuts, inHand, upperbits, sent, mch, crossed>>
        /\ spc' = "held" => spc = "held"
        /\ mpc' = mpc \/ mpc' \notin {"statusheld", "held", "upper", "lower"}
        /\ nfail' = nfail \/ nfail' # 0
    BY <1>3, ReadTypes
    DEF SetDefault, TakeDefault, DeliverDefault, DefaultReturns, CommandArrives, LoadWireIn,
        StoreWireIn, TakeCommand, DeliverCommand, CommandReturns,
        ReturnWireIns, Fail, fpgavars, mainvars, mainrest, transfers, servervars
  <2> QED  BY <2>1, SameReadings
<1>4. CASE UNCHANGED vars
  BY <1>4, SameReadings DEF vars, fpgavars, mainvars, transfers, servervars
<1> QED  BY <1>1, <1>2, <1>3, <1>4 DEF Next, MainThread, ServerThread

\* OpenOK::GetWireOutValue() and OKCounterD::run(): halves of readings are sent
\* in the order in which the channel took them, torn or not, next to a server
\* thread that captures and stores the wires too, and through failed transfers;
\* but for those that a QUERY's older capture has replaced.
THEOREM HalvesInOrder == Spec => []ReadingsForward
<1>1. Init => ReadInv
  BY InitReadInv
<1>2. TypeOK /\ ReadInv /\ [Next]_vars => ReadInv'
  BY StepReadInv
<1>3. ReadInv => ReadingsForward
  BY DEF ReadInv, SentInv, GoodHalf, Later, NotNewer, ReadingsForward
<1> QED  BY <1>1, <1>2, <1>3, TypeCorrect, PTL DEF Spec
=============================================================================
