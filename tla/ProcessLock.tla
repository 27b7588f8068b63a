----------------------------- MODULE ProcessLock -----------------------------
(***************************************************************************)
(* Who may log.  A logger (ticclog.py, with ottplib.py) first takes its    *)
(* process lock, a file with its name and PID, and then, through lockport, *)
(* the UUCP lock of its serial port, a file with its PID.  kickstart.pl    *)
(* (with TFLibrary.pm), which cron runs every five minutes, starts the     *)
(* logger when the process in the process lock is not running.             *)
(*                                                                         *)
(* Neither file is created atomically: each is tested, then opened, which  *)
(* empties it, then written.  A logger may die at any step and leave its   *)
(* files behind; PIDs are used again; a reboot leaves the files, perhaps   *)
(* empty; and a file older than the boot is ignored, which the clock       *)
(* decides.                                                                *)
(***************************************************************************)
EXTENDS Naturals, FiniteSets

CONSTANTS
  Run,         \* places for a running logger
  NPID,        \* PIDs are 1..NPID
  None,        \* no file, no PID
  Empty,       \* the contents of a file that has been opened and not written
  MaxCrash,    \* bound: loggers killed and reboots
  MaxOther     \* bound: unrelated processes, and loggers by hand, started

Pid == 1..NPID

ASSUME LockAssumption ==
  /\ NPID \in Nat \ {0}
  /\ None \notin Pid /\ Empty \notin Pid \cup {None}
  /\ MaxCrash \in Nat /\ MaxOther \in Nat

VARIABLES
  lock,        \* the process lock: no file, an empty one, or the PID in it
  stale,       \* its time is before the time the system seems to have booted
  uucp,        \* the UUCP lock of the serial port
  opened,      \* the loggers that have the process lock open for writing
  pc, pid,     \* where each logger is; its PID
  other,       \* the PIDs of unrelated processes
  last,        \* the PID given out last
  kpc,         \* where kickstart is
  met, pmet,   \* for the properties: two loggers, or two lockports, have met
  stepped,     \* for the properties: the clock has been set
  ncrash, nother

files == <<lock, stale, uucp, opened>>
procs == <<pc, pid, other, last>>
notes == <<met, pmet, stepped, ncrash, nother>>
vars  == <<files, procs, kpc, notes>>

Init ==
  /\ lock = None /\ stale = FALSE /\ uucp = None /\ opened = {}
  /\ pc = [r \in Run |-> "off"] /\ pid = [r \in Run |-> None]
  /\ other = {} /\ last = NPID
  /\ kpc = "idle"
  /\ met = FALSE /\ pmet = FALSE /\ stepped = FALSE
  /\ ncrash = 0 /\ nother = 0

-----------------------------------------------------------------------------
(* Processes *)

Loggers == {r \in Run : pc[r] # "off"}
InUse   == other \cup {pid[r] : r \in Loggers}

\* PIDs are given out in turn.
IsNextPid(p) ==
  \E n \in Pid :
    /\ p = ((last + n - 1) % NPID) + 1
    /\ p \notin InUse
    /\ \A i \in 1..n - 1 : ((last + i - 1) % NPID) + 1 \in InUse

Goto(r, l) == pc' = [pc EXCEPT ![r] = l] /\ UNCHANGED <<pid, other, last>>

Exit(r) ==
  /\ pc' = [pc EXCEPT ![r] = "off"]
  /\ pid' = [pid EXCEPT ![r] = None]
  /\ UNCHANGED <<other, last>>

Starting == {"test", "look", "create", "write"}

Start(r) ==
  /\ pc[r] = "off"
  /\ \E p \in Pid :
       /\ IsNextPid(p)
       /\ pid' = [pid EXCEPT ![r] = p] /\ last' = p
  /\ pc' = [pc EXCEPT ![r] = "test"]
  /\ met' = (met \/ \E q \in Run : pc[q] \in Starting)
  /\ UNCHANGED <<other, files, pmet, stepped, ncrash>>

\* Is the process in the process lock a logger?
LoggerRuns(p) == \E r \in Loggers : pid[r] = p

-----------------------------------------------------------------------------
(* ottplib.CreateProcessLock *)

\* Is there a file, and is it of this boot?
TestLock(r) ==
  /\ pc[r] = "test"
  /\ Goto(r, IF lock = None \/ stale THEN "create" ELSE "look")
  /\ UNCHANGED <<files, kpc, notes>>

\* (Mutant) a file that says nothing is somebody's lock.
LookEmptyRefuses(r) ==
  /\ pc[r] = "look"
  /\ \/ /\ lock \in {None, Empty} \/ LoggerRuns(lock)
        /\ Exit(r)
     \/ /\ lock \in Pid /\ ~LoggerRuns(lock)
        /\ Goto(r, "create")
  /\ UNCHANGED <<files, kpc, notes>>

\* (Mutant) a logger that is refused the lock removes it.
LookRemoves(r) ==
  /\ pc[r] = "look"
  /\ \/ /\ lock = None \/ LoggerRuns(lock)
        /\ Exit(r)
        /\ lock' = None /\ stale' = FALSE /\ opened' = {}
     \/ /\ lock = Empty \/ (lock \in Pid /\ ~LoggerRuns(lock))
        /\ Goto(r, "create")
        /\ UNCHANGED <<lock, stale, opened>>
  /\ UNCHANGED <<uucp, kpc, notes>>

\* Is the process in it running?  A file that does not parse is ignored; one
\* that has gone meanwhile is an exception, and the end.
Look(r) ==
  /\ pc[r] = "look"
  /\ \/ /\ lock = None \/ LoggerRuns(lock)
        /\ Exit(r)
     \/ /\ lock = Empty \/ (lock \in Pid /\ ~LoggerRuns(lock))
        /\ Goto(r, "create")
  /\ UNCHANGED <<files, kpc, notes>>

CreateLock(r) ==
  /\ pc[r] = "create"
  /\ lock' = Empty /\ stale' = FALSE
  /\ opened' = opened \cup {r}
  /\ Goto(r, "write")
  /\ UNCHANGED <<uucp, kpc, notes>>

LockportCalls == {"port", "punlink", "pcreate", "pwrite"}

\* What is written reaches the file only if it has not been removed.
WriteLock(r) ==
  /\ pc[r] = "write"
  /\ lock' = IF r \in opened THEN pid[r] ELSE lock
  /\ opened' = opened \ {r}
  /\ pmet' = (pmet \/ \E q \in Run : pc[q] \in LockportCalls)
  /\ Goto(r, "port")
  /\ UNCHANGED <<stale, uucp, kpc, met, stepped, ncrash, nother>>

-----------------------------------------------------------------------------
(* lockport *)

\* (Mutant) the process in the lock is not looked for.
LockportTakes(r) ==
  /\ pc[r] = "port"
  /\ Goto(r, IF uucp = None THEN "pcreate" ELSE "punlink")
  /\ UNCHANGED <<files, kpc, notes>>

\* Does the file exist, and the process in it?  An empty file leaves oldpid
\* without a value.
Lockport(r) ==
  /\ pc[r] = "port"
  /\ \/ uucp = None /\ Goto(r, "pcreate")
     \/ uucp \in (Pid \ InUse) \cup {Empty} /\ Goto(r, "punlink")
     \/ uucp \in InUse \cup {Empty} /\ Goto(r, "back")
  /\ UNCHANGED <<files, kpc, notes>>

LockportUnlink(r) ==
  /\ pc[r] = "punlink"
  /\ uucp' = None
  /\ Goto(r, "pcreate")
  /\ UNCHANGED <<lock, stale, opened, kpc, notes>>

LockportCreate(r) ==
  /\ pc[r] = "pcreate"
  /\ uucp' = Empty
  /\ Goto(r, "pwrite")
  /\ UNCHANGED <<lock, stale, opened, kpc, notes>>

LockportWrite(r) ==
  /\ pc[r] = "pwrite"
  /\ uucp' = pid[r]
  /\ Goto(r, "run")
  /\ UNCHANGED <<lock, stale, opened, kpc, notes>>

-----------------------------------------------------------------------------
(* ticclog.py *)

\* ottplib.RemoveProcessLock does not ask whose it is.
RemoveLock == lock' = None /\ stale' = FALSE /\ opened' = {}

\* The port is somebody else's.
BackOff(r) ==
  /\ pc[r] = "back" /\ RemoveLock /\ Exit(r)
  /\ UNCHANGED <<uucp, kpc, notes>>

\* A signal, a device that cannot be opened, or too many bad readings ...
Stop(r) ==
  /\ pc[r] = "run" /\ Goto(r, "unlock")
  /\ UNCHANGED <<files, kpc, notes>>

\* ... end the logger: the process lock goes first ...
Unlock(r) ==
  /\ pc[r] = "unlock" /\ RemoveLock /\ Goto(r, "close")
  /\ UNCHANGED <<uucp, kpc, notes>>

\* ... then the port is closed ...
ClosePort(r) ==
  /\ pc[r] = "close" /\ Goto(r, "unport")
  /\ UNCHANGED <<files, kpc, notes>>

\* ... and last the UUCP lock goes, if it is in lockport's own directory: the
\* configured one is not passed on.
Unport(r) ==
  /\ pc[r] = "unport" /\ Exit(r)
  /\ uucp' \in {None, uucp}
  /\ UNCHANGED <<lock, stale, opened, kpc, notes>>

LoggerWorks(r) ==
  \/ TestLock(r) \/ Look(r) \/ CreateLock(r) \/ WriteLock(r)
  \/ Lockport(r) \/ LockportUnlink(r) \/ LockportCreate(r) \/ LockportWrite(r)
  \/ BackOff(r) \/ Unlock(r) \/ ClosePort(r) \/ Unport(r)

\* Started by hand.
StartByHand(r) ==
  /\ nother < MaxOther /\ nother' = nother + 1
  /\ Start(r) /\ UNCHANGED kpc

\* Killed; or gone for good without tidying up, when the device is silent.
Crash(r) ==
  /\ pc[r] # "off" /\ ncrash < MaxCrash
  /\ Exit(r)
  /\ opened' = opened \ {r}
  /\ ncrash' = ncrash + 1
  /\ UNCHANGED <<lock, stale, uucp, kpc, met, pmet, stepped, nother>>

Logger(r) == LoggerWorks(r) \/ Stop(r) \/ StartByHand(r) \/ Crash(r)

-----------------------------------------------------------------------------
(* kickstart.pl *)

\* cron runs it every five minutes, in which a start is long over.
KTest ==
  /\ kpc = "idle"
  /\ \A r \in Run : pc[r] \notin Starting \cup LockportCalls \cup {"back"}
  /\ kpc' = IF lock = None \/ stale THEN "start" ELSE "look"
  /\ UNCHANGED <<files, procs, notes>>

\* Running: touch the check file.
KLook ==
  /\ kpc = "look"
  /\ kpc' = IF LoggerRuns(lock) THEN "idle" ELSE "start"
  /\ UNCHANGED <<files, procs, notes>>

KStart ==
  /\ kpc = "start" /\ kpc' = "idle"
  /\ \E r \in Run : Start(r)
  /\ UNCHANGED nother

Kickstart == KTest \/ KLook \/ KStart

-----------------------------------------------------------------------------
(* The system *)

OtherStarts ==
  /\ nother < MaxOther
  /\ \E p \in Pid : IsNextPid(p) /\ other' = other \cup {p} /\ last' = p
  /\ nother' = nother + 1
  /\ UNCHANGED <<files, pc, pid, kpc, met, pmet, stepped, ncrash>>

OtherExits ==
  /\ \E p \in other : other' = other \ {p}
  /\ UNCHANGED <<files, pc, pid, last, kpc, notes>>

\* Files survive, or come back empty ("this has happened ..").
Survives(f) == IF f = None THEN {None} ELSE {f, Empty}

Reboot ==
  /\ ncrash < MaxCrash /\ ncrash' = ncrash + 1
  /\ lock' \in Survives(lock) /\ stale' = (lock # None)
  /\ uucp' \in Survives(uucp) \cup {None}      \* /var/lock may be in memory
  /\ opened' = {}
  /\ pc' = [r \in Run |-> "off"] /\ pid' = [r \in Run |-> None]
  /\ other' = {} /\ last' = NPID
  /\ kpc' = "idle"
  /\ UNCHANGED <<met, pmet, stepped, nother>>

\* The clock is set (bound: once): a file that looked older than the boot looks
\* newer, or the reverse.
ClockStep ==
  /\ lock # None /\ ~stepped
  /\ stale' = ~stale /\ stepped' = TRUE
  /\ UNCHANGED <<lock, uucp, opened, procs, kpc, met, pmet, ncrash, nother>>

System == OtherStarts \/ OtherExits \/ Reboot \/ ClockStep

-----------------------------------------------------------------------------

Next == (\E r \in Run : Logger(r)) \/ Kickstart \/ System

Spec == Init /\ [][Next]_vars

\* cron runs kickstart again and again, and a process that runs gets on with it.
FairSpec ==
  /\ Spec
  /\ WF_vars(Kickstart)
  /\ \A r \in Run : WF_vars(LoggerWorks(r))

-----------------------------------------------------------------------------
(* Properties *)

Owning   == LockportCalls \cup {"back", "run", "unlock"}
PortOpen == {"run", "unlock", "close"}

TypeOK ==
  /\ lock \in Pid \cup {None, Empty} /\ uucp \in Pid \cup {None, Empty}
  /\ stale \in BOOLEAN /\ (lock = None => ~stale)
  /\ opened \subseteq Run
  /\ pc \in [Run -> Starting \cup Owning \cup {"off", "close", "unport"}]
  /\ pid \in [Run -> Pid \cup {None}]
  /\ \A r \in Run : pc[r] = "off" <=> pid[r] = None
  /\ \A r, q \in Loggers : pid[r] = pid[q] => r = q
  /\ other \subseteq Pid /\ \A r \in Loggers : pid[r] \notin other
  /\ last \in Pid
  /\ kpc \in {"idle", "look", "start"}
  /\ met \in BOOLEAN /\ pmet \in BOOLEAN /\ stepped \in BOOLEAN
  /\ ncrash \in 0..MaxCrash /\ nother \in 0..MaxOther

\* "The lock file for each process contains the running process ID" (kickstart):
\* the process lock names every logger that has taken it, so there is at most
\* one, through kills, reboots, PIDs used again and files left behind; unless
\* two have been started at the same moment, or the clock has been set.
LockNamesOwner ==
  ~met /\ ~stepped => \A r \in Run : pc[r] \in Owning => lock = pid[r]

\* Even then only one of them has the serial port open, unless their calls of
\* lockport coincide.
OnePort ==
  ~pmet => \A r, q \in Run : pc[r] \in PortOpen /\ pc[q] \in PortOpen => r = q

\* kickstart gets a logger to run, whatever has happened before; unless what
\* the UUCP lock says cannot be told from a running process: it is empty, or
\* the PID in it is now that of an unrelated process, which lockport, unlike
\* the process lock, takes for the owner.
Restarted ==
  Loggers = {} ~>
    \/ \E r \in Run : pc[r] \in PortOpen
    \/ uucp \in other \cup {Empty}

=============================================================================
