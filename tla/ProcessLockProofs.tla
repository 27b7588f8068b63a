-------------------------- MODULE ProcessLockProofs --------------------------
(***************************************************************************)
(* For any number of loggers, PIDs, crashes and unrelated processes: the   *)
(* process lock names its owner, and one logger has the port open.         *)
(*                                                                         *)
(* Between the test of a lock and the write that takes it nobody else may  *)
(* take it, so the invariants speak of the loggers in between as well, and *)
(* of the one at the end that has closed the port, whose PID is still in   *)
(* the UUCP lock.                                                          *)
(***************************************************************************)
EXTENDS ProcessLock, TLAPS

-----------------------------------------------------------------------------

\* One logger starts at a time.  When it has found the process lock free nobody
\* owns it, and the file that it has opened is the one it is going to write.
LockInv ==
  ~met /\ ~stepped =>
    /\ \A r, q \in Run : pc[r] \in Starting /\ pc[q] \in Starting => r = q
    /\ \A r, q \in Run : pc[r] \in {"create", "write"} => pc[q] \notin Owning
    /\ \A r \in Run : pc[r] = "write" => r \in opened /\ ~stale
    /\ \A r \in Run : pc[r] \in Owning => lock = pid[r] /\ ~stale

\* The same of lockport; the port's lock names its owner until that is gone.
Holding == PortOpen \cup {"unport"}

PortInv ==
  ~pmet =>
    /\ \A r, q \in Run : pc[r] \in LockportCalls /\ pc[q] \in LockportCalls => r = q
    /\ \A r, q \in Run : pc[r] \in LockportCalls \ {"port"} => pc[q] \notin Holding
    /\ \A r \in Run : pc[r] \in Holding => uucp = pid[r]

IInv == TypeOK /\ LockInv /\ PortInv

-----------------------------------------------------------------------------
(* Types *)

Places == Starting \cup Owning \cup {"off", "close", "unport"}

FilesOK ==
  /\ lock \in Pid \cup {None, Empty} /\ uucp \in Pid \cup {None, Empty}
  /\ stale \in BOOLEAN /\ (lock = None => ~stale)
  /\ opened \subseteq Run

ProcsOK ==
  /\ pc \in [Run -> Places]
  /\ pid \in [Run -> Pid \cup {None}]
  /\ \A r \in Run : pc[r] = "off" <=> pid[r] = None
  /\ \A r, q \in Loggers : pid[r] = pid[q] => r = q
  /\ other \subseteq Pid /\ \A r \in Loggers : pid[r] \notin other
  /\ last \in Pid

NotesOK ==
  /\ kpc \in {"idle", "look", "start"}
  /\ met \in BOOLEAN /\ pmet \in BOOLEAN /\ stepped \in BOOLEAN
  /\ ncrash \in 0..MaxCrash /\ nother \in 0..MaxOther

LEMMA TypeParts ==
  /\ TypeOK <=> FilesOK /\ ProcsOK /\ NotesOK
  /\ (TypeOK <=> FilesOK /\ ProcsOK /\ NotesOK)'
BY DEF TypeOK, FilesOK, ProcsOK, NotesOK, Places

\* What kickstart and the loggers leave alone
LEMMA SameProcs == ProcsOK /\ UNCHANGED procs => ProcsOK'
BY DEF ProcsOK, procs, Loggers

LEMMA GotoProcs ==
  ASSUME ProcsOK, NEW r \in Run, pc[r] # "off", NEW l \in Places \ {"off"}, Goto(r, l)
  PROVE  ProcsOK'
BY DEF ProcsOK, Goto, Loggers

LEMMA ExitProcs ==
  ASSUME ProcsOK, NEW r \in Run, Exit(r)
  PROVE  ProcsOK'
BY LockAssumption DEF ProcsOK, Exit, Loggers, Places, Pid

LEMMA StartProcs ==
  ASSUME ProcsOK, NEW r \in Run, Start(r)
  PROVE  ProcsOK'
<1>1. PICK p \in Pid : IsNextPid(p) /\ pid' = [pid EXCEPT ![r] = p] /\ last' = p
  BY DEF Start
<1>2. p \notin InUse
  BY <1>1 DEF IsNextPid
<1>3. p # None
  BY LockAssumption
<1> QED
  BY <1>1, <1>2, <1>3 DEF Start, ProcsOK, Loggers, InUse, Places, Starting

-----------------------------------------------------------------------------
LEMMA InitIInv == Init => IInv
<1> SUFFICES ASSUME Init PROVE IInv
  OBVIOUS
<1>1. NPID \in Pid /\ None \notin Pid
  BY LockAssumption DEF Pid
<1>2. FilesOK /\ ProcsOK
  BY <1>1 DEF Init, FilesOK, ProcsOK, Places, Loggers
<1>3. NotesOK
  <2>1. ncrash \in 0..MaxCrash /\ nother \in 0..MaxOther
    BY LockAssumption DEF Init
  <2> QED  BY <2>1 DEF Init, NotesOK
<1>4. LockInv /\ PortInv
  BY DEF Init, LockInv, PortInv, Starting, Owning, LockportCalls, Holding, PortOpen
<1> QED  BY <1>2, <1>3, <1>4, TypeParts DEF IInv

-----------------------------------------------------------------------------
(* Steps that do not move a logger *)

LEMMA SameLocks ==
  LockInv /\ UNCHANGED <<lock, stale, opened, pc, pid, met, stepped>> => LockInv'
BY DEF LockInv

LEMMA SamePorts == PortInv /\ UNCHANGED <<uucp, pc, pid, pmet>> => PortInv'
BY DEF PortInv

LEMMA KickstartLooks == IInv /\ (KTest \/ KLook) => IInv'
<1> SUFFICES ASSUME IInv, KTest \/ KLook PROVE IInv'
  OBVIOUS
<1>1. UNCHANGED <<files, procs, notes>> /\ kpc' \in {"idle", "look", "start"}
  BY DEF KTest, KLook
<1>2. FilesOK' /\ NotesOK'
  BY <1>1, TypeParts DEF IInv, FilesOK, NotesOK, files, notes
<1>3. ProcsOK'
  BY <1>1, TypeParts, SameProcs DEF IInv
<1> QED
  BY <1>1, <1>2, <1>3, TypeParts, SameLocks, SamePorts DEF IInv, files, procs, notes

LEMMA OthersIInv == IInv /\ (OtherStarts \/ OtherExits) => IInv'
<1> SUFFICES ASSUME IInv, OtherStarts \/ OtherExits PROVE IInv'
  OBVIOUS
<1>1. UNCHANGED <<lock, stale, uucp, opened, pc, pid, kpc, met, pmet, stepped, ncrash>>
  BY DEF OtherStarts, OtherExits, files, notes
<1>2. FilesOK'
  BY <1>1, TypeParts DEF IInv, FilesOK
<1>3. ProcsOK'
  <2>1. CASE OtherStarts
    <3>1. PICK p \in Pid : IsNextPid(p) /\ other' = other \cup {p} /\ last' = p
      BY <2>1 DEF OtherStarts
    <3>2. p \notin InUse
      BY <3>1 DEF IsNextPid
    <3> QED  BY <1>1, <3>1, <3>2, TypeParts DEF IInv, ProcsOK, Loggers, InUse
  <2>2. CASE OtherExits
    BY <1>1, <2>2, TypeParts DEF IInv, ProcsOK, Loggers, OtherExits
  <2> QED  BY <2>1, <2>2
<1>4. NotesOK'
  <2>1. nother' \in 0..MaxOther
    BY LockAssumption, TypeParts DEF IInv, NotesOK, OtherStarts, OtherExits, notes
  <2> QED  BY <1>1, <2>1, TypeParts DEF IInv, NotesOK
<1> QED  BY <1>1, <1>2, <1>3, <1>4, TypeParts, SameLocks, SamePorts DEF IInv

LEMMA ClockIInv == IInv /\ ClockStep => IInv'
<1> SUFFICES ASSUME IInv, ClockStep PROVE IInv'
  OBVIOUS
<1>1. FilesOK'
  BY TypeParts DEF IInv, FilesOK, ClockStep
<1>2. ProcsOK'
  BY TypeParts, SameProcs DEF IInv, ClockStep
<1>3. NotesOK'
  BY TypeParts DEF IInv, NotesOK, ClockStep
<1>4. LockInv'
  BY DEF LockInv, ClockStep
<1>5. PortInv'
  BY SamePorts DEF IInv, ClockStep, procs
<1> QED  BY <1>1, <1>2, <1>3, <1>4, <1>5, TypeParts DEF IInv

LEMMA RebootIInv == IInv /\ Reboot => IInv'
<1> SUFFICES ASSUME IInv, Reboot PROVE IInv'
  OBVIOUS
<1>1. FilesOK'
  BY LockAssumption, TypeParts DEF IInv, FilesOK, Reboot, Survives
<1>2. ProcsOK'
  <2>1. NPID \in Pid /\ None \notin Pid
    BY LockAssumption DEF Pid
  <2> QED  BY <2>1 DEF Reboot, ProcsOK, Places, Loggers
<1>3. NotesOK'
  <2>1. ncrash' \in 0..MaxCrash
    BY LockAssumption, TypeParts DEF IInv, NotesOK, Reboot
  <2> QED  BY <2>1, TypeParts DEF IInv, NotesOK, Reboot
<1>4. LockInv' /\ PortInv'
  BY DEF Reboot, LockInv, PortInv, Starting, Owning, LockportCalls, Holding, PortOpen
<1> QED  BY <1>1, <1>2, <1>3, <1>4, TypeParts DEF IInv

-----------------------------------------------------------------------------
(* A logger starts, by hand or by kickstart, or is killed *)

LEMMA StartIInv ==
  ASSUME IInv, NEW r \in Run, Start(r), nother' \in 0..MaxOther,
         kpc' \in {"idle", "look", "start"}
  PROVE  IInv'
<1>1. FilesOK' /\ NotesOK'
  <2>1. FilesOK'
    BY TypeParts DEF IInv, FilesOK, Start, files
  <2>2. met' \in BOOLEAN
    BY TypeParts DEF IInv, NotesOK, Start
  <2> QED  BY <2>1, <2>2, TypeParts DEF IInv, NotesOK, Start
<1>2. ProcsOK'
  BY TypeParts, StartProcs DEF IInv
<1>3. /\ pc \in [Run -> Places] /\ pid \in [Run -> Pid \cup {None}]
      /\ pc' = [pc EXCEPT ![r] = "test"] /\ \E p \in Pid : pid' = [pid EXCEPT ![r] = p]
  BY TypeParts DEF IInv, ProcsOK, Start
<1>4. LockInv'
  <2> SUFFICES ASSUME ~met', ~stepped' PROVE LockInv'
    BY DEF LockInv
  <2>1. ~met /\ ~stepped /\ \A q \in Run : pc[q] \notin Starting
    BY DEF Start
  <2> QED  BY <1>3, <2>1 DEF IInv, LockInv, Start, files, Starting, Owning, LockportCalls
<1>5. PortInv'
  BY <1>3 DEF IInv, PortInv, Start, files, LockportCalls, Holding, PortOpen
<1> QED  BY <1>1, <1>2, <1>4, <1>5, TypeParts DEF IInv

LEMMA StartsIInv ==
  ASSUME IInv, KStart \/ \E r \in Run : StartByHand(r)
  PROVE  IInv'
<1>1. CASE KStart
  <2>1. PICK r \in Run : Start(r)
    BY <1>1 DEF KStart
  <2>2. nother' \in 0..MaxOther
    BY <1>1, TypeParts DEF IInv, NotesOK, KStart
  <2> QED  BY <1>1, <2>1, <2>2, StartIInv DEF KStart
<1>2. CASE \E r \in Run : StartByHand(r)
  <2>1. PICK r \in Run : StartByHand(r)
    BY <1>2
  <2>2. nother' \in 0..MaxOther
    BY <2>1, LockAssumption, TypeParts DEF IInv, NotesOK, StartByHand
  <2>3. kpc' \in {"idle", "look", "start"}
    BY <2>1, TypeParts DEF IInv, NotesOK, StartByHand
  <2> QED  BY <2>1, <2>2, <2>3, StartIInv DEF StartByHand
<1> QED  BY <1>1, <1>2

LEMMA CrashIInv ==
  ASSUME IInv, NEW r \in Run, Crash(r)
  PROVE  IInv'
<1>1. FilesOK'
  BY TypeParts DEF IInv, FilesOK, Crash
<1>2. ProcsOK'
  BY TypeParts, ExitProcs DEF IInv, Crash
<1>3. NotesOK'
  <2>1. ncrash' \in 0..MaxCrash
    BY LockAssumption, TypeParts DEF IInv, NotesOK, Crash
  <2> QED  BY <2>1, TypeParts DEF IInv, NotesOK, Crash
<1>4. /\ pc \in [Run -> Places] /\ pid \in [Run -> Pid \cup {None}]
      /\ pc' = [pc EXCEPT ![r] = "off"] /\ pid' = [pid EXCEPT ![r] = None]
  BY TypeParts DEF IInv, ProcsOK, Crash, Exit
<1>5. LockInv'
  BY <1>4 DEF IInv, LockInv, Crash, Starting, Owning, LockportCalls
<1>6. PortInv'
  BY <1>4 DEF IInv, PortInv, Crash, LockportCalls, Holding, PortOpen
<1> QED  BY <1>1, <1>2, <1>3, <1>5, <1>6, TypeParts DEF IInv

-----------------------------------------------------------------------------
(* The steps of a logger *)

\* Nearly all of them write no notes; what types they keep
LEMMA StepTypes ==
  ASSUME IInv, NEW r \in Run, pc[r] # "off", FilesOK', UNCHANGED <<kpc, notes>>,
         Exit(r) \/ \E l \in Places \ {"off"} : Goto(r, l)
  PROVE  TypeOK'
<1>1. ProcsOK'
  BY TypeParts, GotoProcs, ExitProcs DEF IInv
<1>2. NotesOK'
  BY TypeParts DEF IInv, NotesOK, notes
<1> QED  BY <1>1, <1>2, TypeParts

LEMMA Files == IInv /\ UNCHANGED files => FilesOK'
BY TypeParts DEF IInv, FilesOK, files

LEMMA TestLockIInv ==
  ASSUME IInv, NEW r \in Run, TestLock(r)
  PROVE  IInv'
<1>1. PICK l \in {"look", "create"} : Goto(r, l) /\ (l = "create" => lock = None \/ stale)
  BY DEF TestLock
<1>2. TypeOK'
  BY <1>1, StepTypes, Files DEF TestLock, Places, Starting
<1>3. pc \in [Run -> Places] /\ pid \in [Run -> Pid \cup {None}] /\ None \notin Pid
         /\ \A q \in Run : pc[q] = "off" <=> pid[q] = None
  BY TypeParts, LockAssumption DEF IInv, ProcsOK
<1>4. LockInv'
  BY <1>1, <1>3 DEF IInv, LockInv, TestLock, Goto, files, notes, Starting, Owning, LockportCalls
<1>5. PortInv'
  BY <1>1, <1>3 DEF IInv, PortInv, TestLock, Goto, files, notes, LockportCalls, Holding, PortOpen
<1> QED  BY <1>2, <1>4, <1>5 DEF IInv

LEMMA LookIInv ==
  ASSUME IInv, NEW r \in Run, Look(r)
  PROVE  IInv'
<1>1. /\ pc[r] = "look" /\ UNCHANGED <<files, kpc, notes>>
      /\ Exit(r) \/ (Goto(r, "create") /\ ~LoggerRuns(lock))
  <2>1. Empty \notin {pid[q] : q \in Run}
    BY TypeParts, LockAssumption DEF IInv, ProcsOK
  <2> QED  BY <2>1 DEF Look, LoggerRuns, Loggers
<1>2. TypeOK'
  BY <1>1, StepTypes, Files DEF Places, Starting
<1>3. pc \in [Run -> Places] /\ pid \in [Run -> Pid \cup {None}]
  BY TypeParts DEF IInv, ProcsOK
<1>4. LockInv'
  <2>1. CASE Exit(r)
    BY <1>1, <1>3, <2>1 DEF IInv, LockInv, Exit, files, notes, Starting, Owning, LockportCalls
  <2>2. CASE Goto(r, "create") /\ ~LoggerRuns(lock)
    <3>1. \A q \in Run : pc[q] # "off" => lock # pid[q]
      BY <2>2 DEF LoggerRuns, Loggers
    <3> QED
      BY <1>1, <1>3, <2>2, <3>1
      DEF IInv, LockInv, Goto, files, notes, Starting, Owning, LockportCalls
  <2> QED  BY <1>1, <2>1, <2>2
<1>5. PortInv'
  BY <1>1, <1>3 DEF IInv, PortInv, Goto, Exit, files, notes, LockportCalls, Holding, PortOpen
<1> QED  BY <1>2, <1>4, <1>5 DEF IInv

LEMMA CreateLockIInv ==
  ASSUME IInv, NEW r \in Run, CreateLock(r)
  PROVE  IInv'
<1>1. FilesOK'
  BY TypeParts, LockAssumption DEF IInv, FilesOK, CreateLock
<1>2. TypeOK'
  BY <1>1, StepTypes DEF CreateLock, Places, Starting
<1>3. pc \in [Run -> Places]
  BY TypeParts DEF IInv, ProcsOK
<1>4. LockInv'
  BY <1>3 DEF IInv, LockInv, CreateLock, Goto, notes, Starting, Owning, LockportCalls
<1>5. PortInv'
  BY <1>3 DEF IInv, PortInv, CreateLock, Goto, notes, LockportCalls, Holding, PortOpen
<1> QED  BY <1>2, <1>4, <1>5 DEF IInv

LEMMA WriteLockIInv ==
  ASSUME IInv, NEW r \in Run, WriteLock(r)
  PROVE  IInv'
<1>1. pc \in [Run -> Places] /\ pid \in [Run -> Pid \cup {None}] /\ pid[r] \in Pid
  BY TypeParts DEF IInv, ProcsOK, WriteLock
<1>2. FilesOK'
  BY <1>1, TypeParts, LockAssumption DEF IInv, FilesOK, WriteLock
<1>3. ProcsOK'
  BY TypeParts, GotoProcs DEF IInv, WriteLock, Places, Owning, LockportCalls
<1>4. NotesOK'
  <2>1. pmet' \in BOOLEAN
    BY TypeParts DEF IInv, NotesOK, WriteLock
  <2> QED  BY <2>1, TypeParts DEF IInv, NotesOK, WriteLock
<1>5. LockInv'
  BY <1>1 DEF IInv, LockInv, WriteLock, Goto, Starting, Owning, LockportCalls
<1>6. PortInv'
  <2> SUFFICES ASSUME ~pmet' PROVE PortInv'
    BY DEF PortInv
  <2>1. ~pmet /\ \A q \in Run : pc[q] \notin LockportCalls
    BY DEF WriteLock
  <2> QED  BY <1>1, <2>1 DEF IInv, PortInv, WriteLock, Goto, LockportCalls, Holding, PortOpen
<1> QED  BY <1>2, <1>3, <1>4, <1>5, <1>6, TypeParts DEF IInv

\* Within lockport the process lock is left alone, and so is who owns it.
LEMMA OwnerStays ==
  ASSUME IInv, NEW r \in Run, pc[r] \in Owning, NEW l \in Owning, Goto(r, l),
         UNCHANGED <<lock, stale, opened, met, stepped>>
  PROVE  LockInv'
<1>1. pc \in [Run -> Places]
  BY TypeParts DEF IInv, ProcsOK
<1> QED  BY <1>1 DEF IInv, LockInv, Goto, Starting, Owning, LockportCalls

LEMMA LockportIInv ==
  ASSUME IInv, NEW r \in Run, Lockport(r)
  PROVE  IInv'
<1>1. PICK l \in {"pcreate", "punlink", "back"} :
        /\ pc[r] = "port" /\ Goto(r, l) /\ UNCHANGED <<files, kpc, notes>>
        /\ l # "back" => uucp = None \/ uucp \in (Pid \ InUse) \cup {Empty}
  BY DEF Lockport
<1>2. TypeOK'
  BY <1>1, StepTypes, Files DEF Places, Owning, LockportCalls
<1>3. LockInv'
  BY <1>1, OwnerStays DEF files, notes, Owning, LockportCalls
<1>4. PortInv'
  <2>1. /\ pc \in [Run -> Places]
        /\ \A q \in Run : pc[q] # "off" => pid[q] \in Pid /\ pid[q] \in InUse
    BY TypeParts DEF IInv, ProcsOK, InUse, Loggers
  <2>2. l # "back" => \A q \in Run : pc[q] # "off" => uucp # pid[q]
    BY <1>1, <2>1, LockAssumption
  <2> QED
    BY <1>1, <2>1, <2>2
    DEF IInv, PortInv, Goto, files, notes, LockportCalls, Holding, PortOpen
<1> QED  BY <1>2, <1>3, <1>4 DEF IInv

LEMMA LockportFilesIInv ==
  ASSUME IInv, NEW r \in Run, LockportUnlink(r) \/ LockportCreate(r) \/ LockportWrite(r)
  PROVE  IInv'
<1>1. PICK l \in {"pcreate", "pwrite", "run"} :
        /\ pc[r] \in LockportCalls \ {"port"} /\ Goto(r, l)
        /\ UNCHANGED <<lock, stale, opened, kpc, notes>>
        /\ l = "run" => uucp' = pid[r]
        /\ uucp' \in {None, Empty, pid[r]}
  BY DEF LockportUnlink, LockportCreate, LockportWrite, LockportCalls
<1>2. pc \in [Run -> Places] /\ pid[r] \in Pid
  BY <1>1, TypeParts DEF IInv, ProcsOK, LockportCalls
<1>3. TypeOK'
  <2>1. FilesOK'
    BY <1>1, <1>2, TypeParts DEF IInv, FilesOK
  <2> QED  BY <1>1, <2>1, StepTypes DEF Places, Owning, LockportCalls
<1>4. LockInv'
  BY <1>1, OwnerStays DEF notes, Owning, LockportCalls
<1>5. PortInv'
  BY <1>1, <1>2 DEF IInv, PortInv, Goto, notes, LockportCalls, Holding, PortOpen
<1> QED  BY <1>3, <1>4, <1>5 DEF IInv

LEMMA StopIInv ==
  ASSUME IInv, NEW r \in Run, Stop(r)
  PROVE  IInv'
<1>1. TypeOK'
  BY StepTypes, Files DEF Stop, Places, Owning
<1>2. LockInv'
  BY OwnerStays DEF Stop, files, notes, Owning
<1>3. PortInv'
  <2>1. pc \in [Run -> Places]
    BY TypeParts DEF IInv, ProcsOK
  <2> QED  BY <2>1 DEF IInv, PortInv, Stop, Goto, files, notes, LockportCalls, Holding, PortOpen
<1> QED  BY <1>1, <1>2, <1>3 DEF IInv

\* A logger that removes the process lock owned it, and nobody else did.
LEMMA RemoveIInv ==
  ASSUME IInv, NEW r \in Run, BackOff(r) \/ Unlock(r)
  PROVE  IInv'
<1>1. /\ pc[r] \in {"back", "unlock"} /\ RemoveLock /\ UNCHANGED <<uucp, kpc, notes>>
      /\ (pc[r] = "back" /\ Exit(r)) \/ (pc[r] = "unlock" /\ Goto(r, "close"))
  BY DEF BackOff, Unlock
<1>2. TypeOK'
  <2>1. FilesOK'
    BY <1>1, TypeParts DEF IInv, FilesOK, RemoveLock
  <2> QED  BY <1>1, <2>1, StepTypes DEF Places
<1>3. /\ pc \in [Run -> Places] /\ pid \in [Run -> Pid \cup {None}]
      /\ \A p, q \in Loggers : pid[p] = pid[q] => p = q
  BY TypeParts DEF IInv, ProcsOK
<1>4. ~met /\ ~stepped => \A q \in Run : pc[q] \in Owning => q = r
  BY <1>1, <1>3 DEF IInv, LockInv, Loggers, Owning, LockportCalls
<1>5. LockInv'
  BY <1>1, <1>3, <1>4
  DEF IInv, LockInv, RemoveLock, Goto, Exit, notes, Starting, Owning, LockportCalls
<1>6. PortInv'
  BY <1>1, <1>3 DEF IInv, PortInv, Goto, Exit, notes, LockportCalls, Holding, PortOpen
<1> QED  BY <1>2, <1>5, <1>6 DEF IInv

LEMMA ClosePortIInv ==
  ASSUME IInv, NEW r \in Run, ClosePort(r)
  PROVE  IInv'
<1>1. TypeOK'
  BY StepTypes, Files DEF ClosePort, Places
<1>2. pc \in [Run -> Places]
  BY TypeParts DEF IInv, ProcsOK
<1>3. LockInv'
  BY <1>2 DEF IInv, LockInv, ClosePort, Goto, files, notes, Starting, Owning, LockportCalls
<1>4. PortInv'
  BY <1>2 DEF IInv, PortInv, ClosePort, Goto, files, notes, LockportCalls, Holding, PortOpen
<1> QED  BY <1>1, <1>3, <1>4 DEF IInv

LEMMA UnportIInv ==
  ASSUME IInv, NEW r \in Run, Unport(r)
  PROVE  IInv'
<1>1. TypeOK'
  <2>1. FilesOK'
    BY TypeParts DEF IInv, FilesOK, Unport
  <2> QED  BY <2>1, StepTypes DEF Unport
<1>2. /\ pc \in [Run -> Places] /\ pid \in [Run -> Pid \cup {None}]
      /\ \A p, q \in Loggers : pid[p] = pid[q] => p = q
  BY TypeParts DEF IInv, ProcsOK
<1>3. LockInv'
  BY <1>2 DEF IInv, LockInv, Unport, Exit, notes, Starting, Owning, LockportCalls
<1>4. PortInv'
  <2> SUFFICES ASSUME ~pmet' PROVE PortInv'
    BY DEF PortInv
  <2>1. \A q \in Run : pc[q] \in Holding => uucp = pid[q] /\ q = r
    BY <1>2 DEF IInv, PortInv, Unport, notes, Loggers, Holding, PortOpen
  <2> QED  BY <1>2, <2>1 DEF IInv, PortInv, Unport, Exit, notes, LockportCalls, Holding, PortOpen
<1> QED  BY <1>1, <1>3, <1>4 DEF IInv

LEMMA StepIInv == IInv /\ [Next]_vars => IInv'
<1> SUFFICES ASSUME IInv, [Next]_vars PROVE IInv'
  OBVIOUS
<1>1. CASE \E r \in Run : LoggerWorks(r) \/ Stop(r) \/ Crash(r)
  BY <1>1, TestLockIInv, LookIInv, CreateLockIInv, WriteLockIInv, LockportIInv,
     LockportFilesIInv, RemoveIInv, ClosePortIInv, UnportIInv, StopIInv, CrashIInv
  DEF LoggerWorks
<1>2. CASE KStart \/ \E r \in Run : StartByHand(r)
  BY <1>2, StartsIInv
<1>3. CASE KTest \/ KLook
  BY <1>3, KickstartLooks
<1>4. CASE System
  BY <1>4, OthersIInv, RebootIInv, ClockIInv DEF System
<1>5. CASE UNCHANGED vars
  <2>1. FilesOK' /\ ProcsOK' /\ NotesOK'
    BY <1>5, Files, SameProcs, TypeParts DEF vars, notes, IInv, NotesOK
  <2> QED
    BY <1>5, <2>1, TypeParts, SameLocks, SamePorts DEF vars, files, procs, notes, IInv
<1> QED  BY <1>1, <1>2, <1>3, <1>4, <1>5 DEF Next, Logger, Kickstart

-----------------------------------------------------------------------------

\* Who has found a lock free and who holds it is kept by every step of the
\* loggers, of kickstart and of the system.
THEOREM InductiveInvariant == Spec => []IInv
<1>1. Init => IInv
  BY InitIInv
<1>2. IInv /\ [Next]_vars => IInv'
  BY StepIInv
<1> QED  BY <1>1, <1>2, PTL DEF Spec

\* The variables keep their types; no two processes have the same PID.
THEOREM TypeCorrect == Spec => []TypeOK
<1>1. IInv => TypeOK
  BY DEF IInv
<1> QED  BY <1>1, InductiveInvariant, PTL

\* CreateProcessLock() and RemoveProcessLock(): the process lock names every
\* logger that has taken it, unless two were started at the same moment or the
\* clock was set.
THEOREM LocksNameOwners == Spec => []LockNamesOwner
<1>1. IInv => LockNamesOwner
  BY DEF IInv, LockInv, LockNamesOwner
<1> QED  BY <1>1, InductiveInvariant, PTL

\* lockport: one logger has the serial port open, whatever has become of the
\* process locks, unless two calls of lockport coincided.
THEOREM OnePortOpen == Spec => []OnePort
<1>1. IInv => OnePort
  <2> SUFFICES ASSUME IInv, ~pmet PROVE OnePort
    BY DEF OnePort
  <2>1. \A r, q \in Loggers : pid[r] = pid[q] => r = q
    BY TypeParts DEF IInv, ProcsOK
  <2> QED  BY <2>1 DEF IInv, PortInv, OnePort, Loggers, Holding, PortOpen
<1> QED  BY <1>1, InductiveInvariant, PTL
=============================================================================
