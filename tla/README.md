# OpenTTP in TLA+

OpenTTP runs a GPS common-view time-transfer receiver: an FPGA counter times the
receiver's 1 pps against a reference clock, loggers write what the counter and
the receiver say to one file per day, and batch programs turn the files into
CGGTTS and RINEX.  This directory holds a formal model of the parts of it that
run concurrently, keep state, or are otherwise hard to test.  Paths below are
relative to `src/software/` unless they say otherwise.

Contents: [inventory](#inventory), [modules](#modules), [runs](#runs),
[fairness](#fairness), [proofs](#proofs), [findings](#findings), [known
deviations](#known-deviations), [not modelled](#not-modelled), [plan](#plan).

## Inventory

### okcounterd (`system/src/okcounterd/`)

*State.* The listening socket, the vector `Server::clients` of pointers to
`Client` objects, a descriptor per connection, the `running` and `stopRequested`
flags of every `Thread`, the `OpenOK` object `xem` with its copies of the FPGA's
wires and triggers.

*Operations.* `Server::doWork` accepts a connection, serves its single request
(`CONFIGURE`, `QUERY CONFIGURATION`, `LISTEN`), and reaps the clients whose
thread has finished.  `Client::doWork`, one thread per listener, waits in
`recv()` for the process to leave.  `OKCounterD::run`, the main thread, polls the
counter every 10 ms and sends each reading to every client.

*Interaction.* All three kinds of thread share the vector, the objects and the
driver's copies, and there is no lock (the mutex in `Thread.h` is never taken).
The processes at the other end are `okxemlog.pl` and `okcounterdctrl.pl`.

*Hard.* Every pair of threads; descriptor numbers that are reused; objects freed
while somebody holds a pointer; a process that leaves at any moment; blocking
reads and writes.

*Correct means.* A listener is sent each reading once; no descriptor is closed by
anybody but its owner; the vector and the objects agree; no thread runs in a
deleted object; a process that leaves is forgotten, and does nobody harm.

### The FPGA and its driver (`system/src/OpenOK2/`, `system/src/fpga/vhdl/`)

*State.* One control register, a status register, a 32-bit reading and a trigger
per channel; the driver's `m_wireIns`, `m_wireOuts`, `m_triggerOuts`.

*Operations.* `SetWireInValue` changes a copy under a mask, `UpdateWireIns`
commits it; `UpdateWireOuts`, `UpdateTriggerOuts` fetch; each USB transfer may
fail, on which the copy is zeroed.  In the FPGA `TICounter32` latches a reading
and raises a trigger, `OneShot` stretches it, `PPSToCR` turns a pulse into a
serial character.

*Hard.* The two halves of a reading are fetched from a copy that another thread
refreshes, and of two refreshes the one that returns last is kept, not the one that
captured last; a failed transfer changes the copy and tells nobody; start-up order.

*Correct means.* What was last asked for is what the FPGA does; one field is
changed at a time; a reading is of one measurement; none is lost.

### The driver's handle and the bit file loader (`system/src/OpenOK2/`, `system/src/okbitloader/`)

*State.* `m_deviceHandle`, the libusb handle behind it, the kernel's claim of the
interface, the design in the FPGA.

*Operations.* `OpenBySerial` lists the boards, reads an ID from each, opens one
and claims it; `LoadDefaultPLLConfiguration`, `ConfigureFPGA`, and then transfers
of three kinds, control, optional and bulk, which differ in what they do when they
fail: nothing, or ask the board whether it has FrontPanel, and close the handle if
not.

*Interaction.* `okbfloader` and `okcounterd` use the same board, and two threads of
`okcounterd` the same object.

*Hard.* Which failure closes the handle, in which thread; a board that is unplugged;
a claim that is refused.

*Correct means.* No handle is leaked, used after it was closed, or closed twice; a
failure that passes does no lasting harm; an FPGA is configured when a program says so.

### Loggers (`gpscv/*/`, `gpscv/common/bin/*log*`)

`okxemlog.pl`, `ublox9log.py`, `plrxlog.py`, `nv08log.pl`, `restlog.pl`,
`prs10log.pl`, `ticclog.py` and others: one loop each.  *State:* a lock file, a
serial port or socket, the current day's file, an alarm timer, a status file.
*Hard:* two instances starting together, signal handlers that remove the lock,
the change of day, a device that goes silent.  *Correct means:* one logger per
lock, nothing written to the wrong day, a silent device ends the process.

### Process locks and kickstart (`system/src/TFLibrary.pm`, `ottplib.py`, `kickstart.pl`, `lockport.c`, `libprocesslock/`)

*State:* lock files with the name and PID of their owner; for each target of
`kickstart.pl` a check file.  *Hard:* test-then-create, stale locks, PIDs that are
used again, processes that are slow to start.  *Correct means:* at most one owner;
a lock left by a dead process does not block the next; a dead target is started.

### System monitor (`system/src/sysmonitor/sysmonitor.pl`)

*State:* per monitored thing a fault integrator, a threshold and an alarm file.
*Hard:* alarms that outlive the monitor, integration without decay.  *Correct
means:* an alarm is raised once per fault, and cleared when the fault has gone.

### ppsd (`system/src/ppsd/ppsd.c`)

Outputs a software 1 pps on a parallel port: one loop, a deadline, a spin, a log.
*Hard:* steps of the clock, a late wake-up.  *Correct means:* one pulse a second.

### LCD driver and monitor (`system/src/lcdmon/`)

*State:* the display's lines, LED and backlight, what the program believes them to
be, menus and dialogs that nest, one `SIGALRM` timer for all of them, the settings
and their file.  *Operations:* a packet is sent and its answer awaited in a stream
that also carries the keys; a dialog returns OK, Cancel or a timeout; a setting is
sent, kept and saved.  *Hard:* a key where an answer is expected; a packet that is
lost, or answered late; a timer that an inner menu stops; a crash while the settings
are saved.  *Correct means:* what a dialog tried out on the display is undone when it
is given up; a command is run only when it was confirmed; the settings survive; an untouched panel returns to the status screen.

### Configuration library (`system/src/libconfigurator/`)

Lists and hash tables read from a file, and `configfile_update()`, which rewrites
one value of it.  *Correct means:* what was written is what is read.

### mktimetx (`gpscv/common/process/mktimetx/`)

One pass over the logs of a day.

*Receivers* (`Ublox`, `Javad`, `NVS`, `TrimbleResolution`): `readLog()` gathers the
messages of a second in local variables and saves a `ReceiverMeasurement` when the next
second begins.  *Hard:* lines that are lost, damaged, stamped late; each receiver has
its own idea of what begins a second.  *Correct means:* a measurement is made of one
second, no second is lost for nothing or used twice.

*Ephemerides* (`GNSSSystem`, `GPS`, `Galileo`, `RINEX`): put together from subframes or
words, kept in the order of the time of the week, dated when the log has been read,
chosen for a time, written to a navigation file and read from one.  *Hard:* a new issue
between two subframes; the end of the week.  *Correct means:* parts of one issue, the true
date, the nearest one ahead.

*Matching and output* (`Application`, `CGGTTS`, `RINEX`): receiver and counter are matched
by the second of the PC; tracks and epochs are picked from the pairs.  *Hard:* a clock that
steps, the day boundary in two time scales, windows on what is read.  *Correct means:* a pair
is of one second; each track and each epoch has the measurements that belong to it.

### PRS10 tools (`gpscv/prs10/`)

*State:* a rubidium standard with settings in RAM and in EEPROM, a serial line with answers
that may be late, a history file and the header of the CCTF file.  *Operations:* `prs10c`
queries, steers by the magnetic offset, stores it; `prs10log` polls the status, which clears it.
*Hard:* an answer taken for that of the next query; a steer of four steps, each of which may
fail; two programs and one port.  *Correct means:* what the history says was stored is
stored; a steer starts from what the unit has; the port has one user.

### Others

The processing scripts, `ppsdevlog`, `dioctrl`, `bmsystime`, `mjd`, installers,
`gziplogs.pl`: one-shot tools or batch text processing.
`PROJECT.json` lists them with the reason they are left out.

## Modules

| module | what it is |
|---|---|
| `OKCounterD` | the threads of okcounterd, its clients, descriptors and connections, statement by statement where they interleave |
| `Connections` | what okcounterd promises to a process that connects; `OKCounterD` refines it |
| `Vectors` | `std::vector` as a sequence: what `erase()` does |
| `OKCounterDProofs` | the inductive invariants of `OKCounterD`, the theorems that follow, and the refinement of `Connections` |
| `XEMRegisters` | the control register, readings and triggers, the driver's copies, and the two threads that use them |
| `XEMRegistersProofs` | its theorems: what was set stays set, readings never go back |
| `OKDevice` | the driver's handle: opening, transfers that fail, closing, by okcounterd's two threads and okbfloader |
| `OKDeviceProofs` | the inductive invariants of `OKDevice` and the theorems that follow |
| `ProcessLock` | the process lock and the UUCP lock of a logger, `lockport`, and `kickstart.pl`, which restarts it |
| `ProcessLockProofs` | its theorems: one owner of the process lock, one user of the port |
| `ReceiverLog`, `UbloxLog`, `JavadLog`, `NVSLog`, `ResolutionLog` | `readLog()` of the four receivers: what each kind of line does to its local variables |
| `Receivers` | a receiver that logs second by second, faults of its lines, and the four `readLog()` that read them |
| `EphemerisTable` | the table of broadcast ephemerides: insertion, week rollover, dates, choice |
| `Ephemerides` | satellites that send issues of data in parts, and how mktimetx puts them together |
| `EphemeridesProofs` | the theorems of `Ephemerides` and `Navigation`: issues are not mixed, and are learnt; the nearest ephemeris is the next one; files are in order and read back |
| `Navigation` | navigation files: written, merged, read by a later run |
| `Pairs` | a day of logging with a clock that steps, and `Application::matchMeasurements()` |
| `TimeTransfer` | the run of mktimetx over that day: RINEX epochs and CGGTTS tracks |
| `MktimetxProofs` | the theorems of `TimeTransfer` (what the files hold, pairs of one second, a whole day of pairs, the fits, samples and epochs made of them) and of `Receivers` (one second, none lost, nothing used twice, the sawtooth) |
| `Configurator` | the configuration library on a file as a sequence of lines |
| `LCDMonitor` | the front panel, its display and its settings; extends `Configurator` |
| `LCDMonitorProofs` | its theorems: the backlight is as set, no command unconfirmed, the settings are saved |
| `PRS10` | the rubidium standard, `prs10c` and `prs10log` |
| `PRS10Proofs` | its theorems: one user of the port, what was stored, the rate from the unit's own, the steers in the header |
| `MC...` | the small instances for TLC |

Definitions marked `(Mutant)` are not part of a specification.  Each is the
definition below it with a plausible mistake, and `PROJECT.json` names the
property that must notice.

### OKCounterD

A step is what one thread does between two points at which another can observe
or disturb it.  So `erase()` is two steps, because main can look at the vector after
the elements have moved and before it is shorter; `push_back()` is one step when
there is room and two when the buffer is replaced; `Thread::go()` is two, the
creation of the thread and `running = true`; `Client::doWork` is three.

| in the model | in the code |
|---|---|
| `spc`, `sfd`, `sj`, `sobj` | where the server thread is; its `socketfd`, `j`, `c` or `client` |
| `clients`, `cap` | `Server::clients` (indices from 1) and its capacity |
| `live`, `ofd`, `running`, `cpc` | for each address: is there a `Client` there; its `socketfd`; its `running`; where its thread is |
| `mpc`, `mi`, `mptr`, `reading` | where main is; `i + 1` and the pointer in `Server::sendData`; the number of the current reading |
| `fdtab` | the kernel's table: the connection of each descriptor |
| `peer`, `said`, `link`, `unread`, `got`, `backlog` | the processes, their connections, and the listening socket's queue |
| `audience`, `reaped` | for the properties only: who is registered when a walk starts, and has a client been erased since |

*An address is not an object.*  `delete` leaves the contents of the object as they
were, and `new` may use the address again; a pointer main took earlier therefore
still has an `ofd`, whose descriptor may by then be somebody else's.  This is how
the model gives meaning to a use after free: the write goes where the stale number
points, or fails (`WriteFails` allows `~live[mptr]`, for memory that holds something
else).  Reading the vector's buffer after `push_back` has freed it ends the
daemon or, if the memory is still there, goes unnoticed: both are possible in `spc =
"grow"`.

*Sockets.*  A write to a connection whose process has closed its end succeeds once and
brings back a reset; the next write gets `SIGPIPE` or `EPIPE`.  A process that closes
with unread data resets at once.  A connection holds `SockBuf` readings and then
`write()` blocks.

*Requests.*  `CONFIGURE` and `QUERY` are one request here, `"command"`: they end in the
same way and what they do to the FPGA is in `XEMRegisters`.

### Connections

A connection is queued, served, and then closed, abandoned (its descriptor is never
closed), or a listener; a listener is closed after its process has left; one is
served at a time, and there are at most `MAXCLIENTS` listeners.  `OKCounterD` maps its
state with `ConnState` and its whole behaviour, crashes included, is checked
against `Connections!Spec`.

### XEMRegisters

The control register has two fields, `pps` (bits 2..0) and `gpio` (bit 3).  A reading is
represented by its number, and each of its halves by the number of the reading it
comes from, so that a reading made of two measurements is visible.  The actions of main are
the statements of `OKCounterD::run`, those of the server thread the statements of
`SetWireInValue` (a load and a store, since the other thread uses the same byte),
`UpdateWireIns` and `getConfiguration`.  Both threads wait in a USB transfer without a lock,
so a transfer is several steps: `UpdateWireOuts` captures the wires into `inHand[t]` and stores
that in `wireOuts` when it returns, `UpdateWireIns` takes `wireIns` into `outgoing[t]`, delivers
that, and returns; either may fail before it has reached the FPGA or after.  (`UpdateTriggerOuts`
is main's alone and is one step.)  A copy is written in one step and a half of a reading is
read in one: bytes of two captures within a half are not modelled.  Three variables or fields are
history: `early` has the fields last changed before main wrote the power-up value, or while it
was sending that, which undoes them; `crossed` says that a `QUERY` held a capture when main made its
last; and `lost`, in a half that main reads, is what main itself had fetched when that `QUERY`'s older
capture has been stored over it.

### ProcessLock

A lock file is no file, an empty one, or the PID in it.  A logger is `ticclog.py`: it tests
the process lock and looks at the process in it (`TestLock`, `Look`), opens the file, which
empties it, and writes it (`CreateLock`, `WriteLock`), then calls `lockport`, which does the
same with the UUCP lock of the port, except that it first removes that of a dead process.
The steps are those between which another process can see or change a file.

| in the model | in the code |
|---|---|
| `lock`, `stale` | the process lock; is its time before that of the boot, which the code takes to be now less the uptime |
| `uucp` | the UUCP lock |
| `opened` | who has the process lock open; removing the file takes it from them |
| `pc`, `pid` | the loggers |
| `other`, `last` | unrelated processes; PIDs are given out in turn and used again |
| `kpc` | `kickstart.pl`: it tests, looks, and starts |
| `met`, `pmet`, `stepped` | for the properties: have two loggers been in the process lock's code together, two in `lockport`; has the clock been set |

A logger may be killed at any point, and a reboot ends everything and leaves the files as they
were, or empty, or (in `/var/lock`) takes them away.  `Look` finds a logger with the PID in the
file also when it is the one that looks: after a crash the PID of the dead logger may be its
own, and it then refuses itself.  `lockport` does not look at names, and
has no value for the PID if the file is empty (`Lockport` allows both outcomes).

### OKDevice

A thread is at a call of the driver (`call`) and at a place in it (`at`).  A call begins
(`Begin`: there must be a handle), makes its transfer, and when that fails goes through
`Ask`, `CloseBegins`, `ReleaseInterface`, `CloseDeviceUSB` and `CloseEnds`, each a step, since the
other thread of okcounterd may be anywhere in the same code with the same object.

| in the model | in the code |
|---|---|
| `handle`, `live` | `m_deviceHandle` is set; the handle is open in libusb |
| `call`, `at` | the function called, and where `ControlTransfer`, `BulkTransfer` and `Close` are |
| `owner` | whose claim of the interface the kernel granted: `OpenByDeviceIndexList` takes a refusal for a success, and bulk transfers are then refused (`May`) |
| `design`, `load` | the FPGA; the blocks of the bit file that it has taken |
| `told` | what a program's start up ended with |
| `misused`, `reloaded` | for the properties: a closed handle was used; okbfloader began to configure an FPGA that okcounterd had begun to configure or to poll |

The three kinds of transfer differ as in the code: an optional one (`OptionalControlTransfer`) asks
nothing when it fails, a control or bulk one asks and closes only when the answer is that there is
no FrontPanel, or, when data were only lost, returns an error and asks nothing (`AsksOrReports`), and
any of them closes when the board has gone.  A bit file is good, has no sync
word (refused before anything is sent), or is short (sent, and the FPGA does not start).  What libusb
does with a handle that it has freed is undefined; `Misuse` ends the program there, so that what the
properties say before it is not hidden.

### Receivers

`ReceiverLog` has the locals that the four `readLog()` share: the bits of the messages seen in this second
(`cur`), the values they gave (`val`, each with the second it came from, which the code does not have), the
pseudoranges gathered (`svmeas`), what was saved (`measurements`).  `UbloxLog`, `JavadLog`, `NVSLog` and
`ResolutionLog` are functions from a line and the locals to the locals, one operator per message.
`Receivers` is the other side: a receiver logs second after second, in the order its model has, to satellites
that come and go, and a line may be lost, unreadable (`bad`), of the wrong size, hold a value that the code
rejects (`outlier`), or be stamped with the next second.  A line is read as it is logged, which is the same as
reading the file afterwards because `readLog()` never looks ahead, and saves a variable.  `Views` are the sets of satellites each receiver may see.
Both limits on their number are in the model: a Resolution's `5a` that comes when `MAX_CHANNELS` are gathered
spoils the second, of GPS or not (`Resolution5a`), and an `F5` with too many observations is deleted without its bit being set (`NVSF5`).

### EphemerisTable, Ephemerides, Navigation

Times are hours, and weeks have 168 of them.  An ephemeris has `t0e` and `t0c` as times of the week, as the code
does, and the true ones (`toe`, `toc`) that only the properties use.  `EphemerisTable` is pure: `addEphemeris`,
`fixWeekRollovers`, the two `setAbsT0c` of GPS and Galileo, `nearestEphemeris`.  In `Ephemerides` a satellite sends the parts
of its current issue frame by frame; `Subframe` is `readGPSEphemerisLNAVSubframe()`, `Word` is
`readGALEphemerisINAVSubframe()`, and `WholeEphemeris` the message of the other receivers.  `Navigation` goes on where the log ends:
`WriteNavigationFile`, the merge of two constellations, `UserSupplied`, and `LaterRunReads`, with the record made
of stale buffers that `while (!feof)` leaves at the end of a file.

### Pairs, TimeTransfer

`Pairs` logs a day: each second the counter and the receiver write an entry with the PC's time and the true one; the PC clock is
stepped, readings are lost, a receiver's message is read in the next second.  `matchMeasurements` is the code's
table of flags per PC second.  `TimeTransfer` reads windows of the logs as `Application::run` does, and makes CGGTTS tracks (V1:
quadratic fits, V2E: samples) and RINEX epochs with the loops of the code as recursive functions of the second they have come to.  GPS time is ahead by `Leap`.

### LCDMonitor, Configurator

`ui` is the screen, with the stack of menus; `todo` what the program still has to do before it looks for a key again, as operations in
the order of the code; `inbox` the packets from the display; `cache` the `status[]` that the program compares with before it sends a line.
`Exchange` is a packet sent and `getResponse()`: the next packet is taken for the answer, whatever it is.  `cache` is set before the packet
is sent, and the display (`disp`: its top line, where the questions are, and its backlight) changes only if it gets the packet.  One that arrives is answered,
in time or late (`LateAnswer`, at most `MaxLate` at a time); one that does not is not sent again, and a line is not sent later either, since `status[]` has
it already.  `lost` remembers that the last packet for the backlight did not arrive; with `OneLoss` no other packet is lost until the top line and the
backlight are right.  `MaxInbox` is how many packets a user may have typed ahead: a question takes six packets to draw, and with `MaxInbox + MaxLate` no more than four
(and one for the release of a key that is down) those typed before it was shown are all used up as answers; with more, an ENTER can be read
before its question is shown and run the command.  The settings are saved by `unlink` and `rename`, two operations, and the program may be killed before either.
`Configurator` has the list, the look-up, and `configfile_update()`, which copies line by line.

### PRS10

`due` are answers that have not come, `line` those in the input queue: a query takes the first of `line` for its answer
(`AnswerRead`), or goes on without one (`AnswerLate`), and what arrives later is taken for that of the next.  A steer is a list of operations in `todo` (set, check, store, check, history, header), and any may
fail; `mishaps` remembers which kinds of failure have happened, at most `MaxMishaps` of them in a behaviour.  `slip` is history: an
answer of this session has been out of step.

## Runs

Bounds are constants of the modules and each `.cfg` names them.

| run | instance | what it shows |
|---|---|---|
| `okd_connections` | 3 connections, 3 descriptors, 3 objects, `MAXCLIENTS` 2, no readings | the descriptors, the objects and the vector stay consistent; only unanswered connections leak; `OKCounterD` refines `Connections`.  Three connections and two places are the smallest instance with a refused listener, a descriptor used again while the earlier owner is being destroyed, and an `erase` that moves something |
| `okd_readings` | 2 connections, descriptors, objects, `MAXCLIENTS` 2, one reading, a socket that holds one | every registered process is sent the reading once unless a client is erased during the walk; finished clients are reaped.  Two clients are enough for an element to move past main's index, one reading in a socket of one for `write()` to block |
| `okd_stray` | 2 connections, 1 reading | see [findings](#findings) |
| `xem_pass` | 2 channels, with 2 and 1 measurements, 2 commands or failed transfers at any time | what `CONFIGURE` set stays set; readings never go back or come from nowhere; a reading is reported.  Two channels so that the loop has to visit each, two readings for one to be torn, two commands for one to undo the other, or one and a failure between them.  The power-up value is GPIO enabled, so only a command that disables it can be lost |
| `okdev_handles` | all kinds of bit file, 1 command, 2 failures that pass, the board unplugged once | no handle is leaked or dangling; only okcounterd, once sent a command, uses a closed handle; it goes deaf only when the board was lost or reloaded; an FPGA that a program reported as loaded is.  Two failures, one for a transfer and one for the question after it, are what it takes to close the handle by mistake |
| `lock_pass` | 2 places for loggers, 3 PIDs, 2 crashes or reboots, 1 logger started by hand or unrelated process, the clock set once | the process lock has one owner and names it, unless two loggers start together or the clock is set; whatever happens to the process lock one logger has the port, unless two calls of `lockport` coincide; a logger that has gone is started again, unless the UUCP lock is empty or names an unrelated process.  Three PIDs are the fewest with one free for the next logger while a lock names a dead one and an unrelated process runs |
| `rx_logs` | each receiver, 4 seconds, satellites that come and go, 2 faults, `MaxChannels` and `MaxRaw` 2 | a measurement is of one second, with its date; whole seconds are saved; nothing is used twice; the sawtooth is that of the pulse.  Four seconds are one before and two after the first that can be harmed, which a stale date of Javad needs; one fault can spoil a second and another the recovery.  A Resolution sees none, one, or three satellites of which one is not of GPS, an NVS receiver up to two, which are too many for limits of 2.  More satellites, and any number of faults, are left to the theorems |
| `eph_tables` | a Saturday and a Sunday, 3 to 5 issues, 2 satellites of one source, 4 table entries | one issue per ephemeris; new issues are learnt; dates; the nearest choice; merged and reread navigation files.  The week's end is where every rule about weeks can fail |
| `eph_week` | Galileo only | see [findings](#findings) |
| `tx_day` | a day of 12 s, tracks of 6, leap 2, 3 faults or steps of -2 to 2 s | pairs are of one second; the RINEX file and the tracks have the measurements they should, in windows and over the GPS midnight.  Constants keep the order of the real ones (leap < interval of a track < day) |
| `lcd_panel` | 4 keys, 5 menus, 3 kinds of dialog, 1 packet typed ahead, 1 answer late, packets lost one at a time, a file with a section in two pieces and tokens twice or missing | the backlight is as set; nothing runs unconfirmed; settings are saved; the panel returns to the status screen.  One packet lost, one late and one typed ahead at a time are enough for a key to be taken for an answer and for a question that is not on the display; any number of losses is left to the theorems |
| `prs10_steer` | 3 magnetic offsets, 3 changes, 3 days, 1 kind of mishap | the history and the CCTF header say what happened; a steer starts from the unit's value; the port has one user |

`okd_connections` uses symmetry (no liveness is
checked in it).  The actions that only readings fire (`AtFreedBuffer`,
`WriteSigPipe`, ...) are fired by `okd_readings`.  Deadlock is checked for okcounterd, its registers and the locks; the
other systems do stop: at the end of a log or of a day, when the programs or the panel have been shut down.

Several properties name an exception, such as "unless a client was erased during the walk" or "when RD and SI were both lost".  Each
exception is a state that the code does reach; they
are collected under [known deviations](#known-deviations).

## Fairness

`OKCounterD!FairSpec` assumes weak fairness of the server thread, of main and of each
client thread: they are kernel threads under `SCHED_FIFO`, and each spends most of its
time blocked.  Of the processes it assumes that one which has connected eventually
sends something or leaves, and reads what it is sent (`okxemlog.pl:148,178`,
`okcounterdctrl.pl:72,89,102,109`).  The code has no timeout, so without this assumption
nothing holds: a process that connects and is silent stops the server thread in
`read()` (Server.cpp:209), and one that stays connected and does not read stops main in
`write()` (Client.cpp:85).

`XEMRegisters!FairSpec` assumes weak fairness of both threads, of their steps without a
failed transfer: nothing makes a transfer fail.

`ProcessLock!FairSpec` assumes that cron runs `kickstart.pl` again and again and that a logger
gets on with taking or leaving its locks; not that it ever stops, or that anything is killed.
`kickstart.pl` runs every five minutes, and a start takes seconds: `KTest` waits
until no logger is starting, while loggers started by hand may start at any time.

`LCDMonitor!Spec` assumes that the process is scheduled and that a timer that was set expires; not that
anybody presses a key.  `BackToStatus` is about a panel whose keys are let go of.

The other specifications are safety only.

## Proofs

`OKCounterDProofs` proves for all values of the constants (any number of processes,
descriptors, object addresses, clients and readings), from `OKAssumption` alone:

| theorem | |
|---|---|
| `TypeCorrect` | `Spec => []TypeOK` |
| `SocketsOwned` | `Spec => []SocketOwned` |
| `SocketsKept` | `Spec => SocketKept`, an action property |
| `VectorsSound` | `Spec => []VectorSound` |
| `ThreadsInObjects` | `Spec => []ThreadInObject` |
| `ConnectionsKept` | `Spec => []ConnInv`, where each connection is |
| `Implemented` | `Spec => ImplementsConnections`, the refinement of `Connections` |
| `NothingElseLeaks` | `Spec => []OnlyUnansweredLeak` |
| `SentOnce` | `Spec => []SentOnceUnlessReaped` |

They follow from `InductiveInvariant`, `Spec => []IInv`.  None of the properties is
inductive alone.  `~Client` closes the descriptor of the object the server thread calls `c`;
that this disturbs nobody depends on where `c` came from (place `j` of the vector, at a
time when no two places held the same object), on the vector holding only objects that
exist, and on the object's thread having been joined.  `ServerInv` says what the server
thread knows of its local variables at each program point, `VectorInv` relates the vector
to the objects, with the two exceptions there are: the element that `push_back` is
adding, and the one that `erase()` is removing, for which `Kept` is the vector as it will be.
The step lemmas take the server thread's actions one by one; `UntouchedIInv` disposes of
the processes and of main, which change none of this, and `ClientIInv` of the
client threads.  `AppendSound` and `EraseSound` say what `push_back` and `erase` do to a vector
without repetitions.

The refinement maps each connection with `ConnState`, which depends on the descriptor table, on the vector and on what the
server thread is doing at once.  `ConnInv`, proved relative to `IInv`, says that a connection is not made, waiting in
the queue, or behind one descriptor, and what its process has said by then.  Each step is shown to move at
most the connections it is about, and along an arrow of `Connections`, or to stutter; so with the number of listeners, which is the
length of the vector without the client being added.  `NothingElseLeaks` is the case of a descriptor that no object and no local
variable has.  `SentOnce` is about the walk of main: `WalkInv` says that, as long as nothing was erased since it began, the clients
before `mi` were sent the reading once and the others not yet, at each of the four places that main can be between them.

`OKDeviceProofs` proves for any bit files and any numbers of commands, failed transfers and times
unplugged, from `OKDeviceAssumption`:

| theorem | |
|---|---|
| `TypeCorrect` | `Spec => []TypeOK` |
| `HandlesMatched` | `Spec => []HandlesMatch` |
| `UsedWhileOpened` | `Spec => []UsedWhileOpen` |
| `FailuresContained` | `Spec => []FailInv`, what a failed transfer can have led to |
| `DeafOnlyIfBoardLost` | `Spec => []DeafOnlyIfLost` |
| `LoadedOrTold` | `Spec => []LoadedUnlessTold` |

Here too a strengthening is needed.  `HandlesMatch` lets a handle be closed and not yet forgotten only while some
thread is about to forget it, so the proof needs that such a thread has closed the handle and that nobody has
opened another since (`NullInv`, and that main polls while the server thread works: `ServerInv`).  `UsedWhileOpen`
is about a handle looked up when a call began, so it needs that a thread which is alone in its program holds an open
one at every place where it uses it (`HoldsInv`).  Three lemmas say how a thread moves on (`Returning`, `Going`,
`Misusing`) and one what it finds when it looks (`Found`); the actions follow from them.
The last two need that a handle is closed only after the board has gone, or after a question that failed too, or by a program at its
end; and, for okbfloader, how far the bit file has got at each call: `FailInv`.

`XEMRegistersProofs` proves for any number of channels, readings, commands and failed transfers, from `XEMAssumption`:

| theorem | |
|---|---|
| `TypeCorrect` | `Spec => []TypeOK` |
| `SettingsKept` | `Spec => []KeptUnlessFailed` |
| `HalvesInOrder` | `Spec => []ReadingsForward` |

What the FPGA does is committed from the driver's copy by either thread, so for each field `FieldInv` follows the value from
the command to the copy, to what each thread is sending and to the register, and says that a command of the other field has read it as it
is; before main's default has been sent it promises nothing, which is the exception of the property.  For the readings `CopySource` says that the copy
is not newer than what main captured or what the server still holds, `Uncrossed` that it is not older than what main captured unless the two crossed or
the transfer failed, and `Passed` why a half that was sent will not be followed by an older one: main has captured something as new, or the copy has
it and what the server holds is as new.

`ProcessLockProofs` proves for any number of loggers, PIDs, crashes, reboots and unrelated processes, from `LockAssumption`:

| theorem | |
|---|---|
| `TypeCorrect` | `Spec => []TypeOK` |
| `LocksNameOwners` | `Spec => []LockNamesOwner` |
| `OnePortOpen` | `Spec => []OnePort` |

A lock is tested, created and written in three steps, so that it has an owner is not inductive: `LockInv` adds
that, as long as no two loggers have been starting together and the clock was not set, one logger at most is between the
test and the write, nobody owns the lock then, and the file that it has opened is still the one in the directory.  `PortInv` says the
same of `lockport`, and of a logger that has closed the port and not yet given the UUCP lock back.

`PRS10Proofs` proves for any offsets, steers, days and mishaps, from `PRS10Assumption`:

| theorem | |
|---|---|
| `TypeCorrect` | `Spec => []TypeOK` |
| `OnePortUsers` | `Spec => []OnePortUser` |
| `ToldStored` | `Spec => ToldIsStored`, an action property |
| `RatesFromUnit` | `Spec => RateFromUnit`, an action property |
| `SteersInHeader` | `Spec => []SteersKept` |

`todo` is the line of operations that prs10c has yet to do, and each relies on those before it.  `VerifyInv` says for each place
that the check of the EEPROM may have in the line what comes before it and what is true by then: the offset is set, the write
has stored it or raised the flag, the status that is asked for brings the flag.  `RateInv` does so for the new offset and the
query before it.  Both need that an answer belongs to its query, `InStep`, and that the logger does not take the flag away, `PortInv`.
`DoneVerify` and `DoneRate` move the line on by one operation, whichever it was.  `SteersKept` compares two files between operations
that have written one and not the other: `SteerInv` says that they agree except between the steer and its comment, with what is left of the line
then (`Header`), and that a failure which cuts the line there is among `mishaps`.

`LCDMonitorProofs` proves for any settings, screens, keys, late answers and lost packets, from `LCDAssumption`:

| theorem | |
|---|---|
| `InductiveInvariant` | `Spec => []IInv` |
| `BacklightKept` | `Spec => []BacklightAsSet` |
| `SettingsSomewhere` | `Spec => []SomewhereSaved`, the part of `Saved` about what a crash leaves |
| `SettingsSaved` | `Spec => []Saved` |
| `CommandsConfirmed` | `Spec => []Confirmed`, if `MaxInbox + MaxLate <= 4` |

`Confirmed` is about an ENTER and the screen it was typed at, several packets before it is read.  Each packet sent takes one from the inbox, so the
invariant counts: `InboxInv` bounds what may be waiting, and `DialogInv` says how many packets of a question are still to be sent while
what was typed before it is among those.  A packet that is lost takes one from the inbox as well as one that is answered, unless the inbox is empty, and then
nothing from before is waiting; an answer that comes late is one more that may wait, hence the bound, which is the largest for which the property holds.
What an ENTER is given to is what the display shows, and when that is not what the program put on its top line the property says so (`Unshown`).  `TodoInv`
keeps the three steps of an update of the settings file together at the front of `todo`, which is why one of the two files exists.

For `BacklightAsSet`, `LightInv` says of whatever is to be sent that each packet for the backlight sets the level that it should have when all is done, and that
without one it has that level, unless the last was lost.  A level changes only where a packet for it is sent: on the way to the menus, where the light
goes on (`PanelInv`: it is on in all of them), by a slider, which only the dialog of the intensity has, and by giving that dialog up.

`Saved` relates two programs that read one file.  `configfile_parse_as_list()` remembers the last section line that it saw;
`configfile_update()` remembers whether it is inside a section, and a section line that ends one is not looked at again.  They differ for a
section right behind another of the same name, so `Saved` speaks of settings that are `Editable`.  For those, `InsideHolds` shows that the update finds
the token wherever the parser would, `AlikeSections` and `AlikeEditable` that a copy with other values has the same sections, and
`OtherSettings` that what is not updated is read as before.  Each is proved line by line, from one induction over the numbers (`LoopRuns`: what holds
before the first line, and is kept by each, holds after the last).  Over them, `SettingsInv` follows a setting through the three
operations: the file agrees with what the program is set to, but while a new setting is about to be written (`Writing`, the others agree), and from then until the
rename it is the temporary file that agrees.  Quitting in between leaves the old values or no file, and the next start
reads what is there.  `LCDAssumption` says that a settings file is a sequence of the lines of `Configurator`.

Of `TimeTransfer`, `MktimetxProofs` proves for a day of any length, any steps of the PC clock and any number of lost or late readings:

| theorem | |
|---|---|
| `InductiveInvariant` | `Spec => []IInv` |
| `PairsTyped` | `Spec => []PairsTypeOK` |
| `PairsOfOneSecond` | `Spec => []OneSecondPairs` |
| `SteadyPairs` | `Spec => []SteadyWindow`: if the PC clock is never stepped, each second of the window that both files have is a pair, unless it or the one before came late |
| `SteadyDayPairs` | `Spec => []SteadyClockPairs`, if the window holds the whole day |
| `FitsAreSound` | `Spec => []FitsSound` |
| `SamplesAreComplete` | `Spec => []SamplesComplete` |
| `RinexIsComplete` | `Spec => []RinexComplete` |

`FilesInv` says exactly what the two files hold.  A pair of two different seconds has entries with one stamp; the reading of
the counter in the receiver's second, or the other way round, would have that stamp too and be a duplicate, so it is missing, which is the exception
in the property.  `WindowAssumption` says that start comes before stop, which the program checks (Application.cpp:262).  The hypothesis of `SteadyDayPairs` is
the window of a run without `--start` and `--stop` (Application.cpp:523), which is what the property is about; `SteadyPairs` has no such hypothesis.

The last three are about loops over the seconds of a day of any length, so they are inductions over data.  They are made without
an induction theorem: the seconds that break a claim are a set of numbers, and of its `Least` the one before does not break it (`UpTo`).  `LoopRuns` makes
of a recursive function the sequence of its values, each from the one before.  For RINEX and V2E, `Sampled` says that what a loop has
written is the list of the measurements on its grid, and that what it looks for next is not later than the first grid point after the last measurement: a
loop that looked for a later one would miss it.  `GridInv` says what holds of the epochs even if the measurements are out of order, and `DaysInOrder`
that the count of rollovers is the GPS day if they are in order.  A fit of V1 has more than half of the points of its batch, so some are on each
side of the middle (`Halves`, `FitSound`).
`TrackAssumption` says that tracks begin in the day (CGGTTS.cpp:223) and that the logs are read for at least the length of a
track after the last start (Application.cpp:316, CGGTTS.cpp:52); `LeapAssumption` that GPS time is ahead of UTC by less than a day.

Of `Receivers`, `MktimetxProofs` proves for any set of satellites, a log of any length, any kinds and number of faults, one or two frequencies and any
window of the PC time, from `LogAssumption`, `ModelsAssumption`, `ReadAssumption`, `ChannelsAssumption` and `RawAssumption` (the two limits are numbers: there may be more satellites than
either) and `JavadOrderAssumption` (the messages a Javad was configured to send: `RD` first, each once, all that are needed, and `SI` before those
that are counted by it):

| theorem | |
|---|---|
| `ReadInvariant` | `ReadSpec => []ReadIInv` |
| `ReadKeepsSeconds` | `ReadSpec => []NotLost` |
| `ReadOneSecond` | `ReadSpec => []OneSecond` |
| `ReadUsesOnce` | `ReadSpec => []UsedOnce` |
| `ReadSawtooth` | `ReadSpec => []SawtoothOfPulse` |

The properties are about what was saved, and nothing in what was saved says what the next line will save; so for each receiver the invariant
(`UbloxInv`, `JavadInv`, `NVSInv`, `ResolutionInv`) has the same three parts about the locals.  `...Meas` is the property of each saved measurement, in the
terms of that receiver.  `...Gather` says the same of what is gathered now, as far as it has been gathered: which seconds it can be of, given the lines lost
(what was gathered is of the second being logged until that ends, of an older one only if every message that would have ended it is among `harmed`), and that it is later than all that was saved.
`...All` is what `NotLost` needs: as long as the second being logged is whole, exactly the messages that are no longer to come have been gathered, whatever was in the locals when it
began.  ublox and Resolution begin at their first message; a Javad ends a second at `RD` but takes its
satellites from `SI`, and a lost message of one kind makes the other do the work of both, so `JavadGather` has a case for each
(`JavadListing`, `JavadUnlisted`); NVS looks at the PC time only, so `NVSAfter` has to remember that the second before was not without a satellite.
`LeftOf` says what a log still to be written can look like, from which follows that a message comes once, and after those that must precede it.
Looking for the invariant of Javad showed that two properties, as they had been stated and checked with three seconds, did not hold with four: its date can be stale after two
lost messages in different seconds, and an old message can survive into a measurement through a second without `RD`.  They are stated now as they are
proved (`FreshDate`, `JavadMixes`).

`EphemeridesProofs` proves for any issues, satellites, days, files and lost, damaged or reordered parts, from `IssuesAssumption` and `OneDayAssumption`, and the
last three from `NearAssumption` and `FilesAssumption` as well:

| theorem | |
|---|---|
| `InductiveInvariant` | `Spec => []IInv` |
| `IssuesNotMixed` | `Spec => []OneIssue` |
| `IssuesLearnt` | `Spec => []Learnt` |
| `NextIsNearest` | `NavSpec => []NearestIsNext` |
| `MixedFilesInOrder` | `NavSpec => []MixedInOrder` |
| `FilesReadBack` | `NavSpec => []ReadBack` |

A word of Galileo is compared only with the first that the buffer got, so that one issue makes an ephemeris depends on all words of a buffer having its `iod`
(`Sound`).  `Learnt` needs two whole frames because the first may meet parts of the issue before: a left-over subframe completes the buffer too
early, a left-over word refuses the first of the new ones.  `FrameInv` says that after one of them what the buffer holds is of the issue being sent,
so that nothing of the second is refused and the buffer, which cannot be complete and kept, has been processed before the frame ends.  `OneDayAssumption`
says what a log of one day means: it is in two weeks at most, and the times of the week `t_0e` tell its issues apart.  The table is a list
that entries are put into, and what insertion holds (`Inserted`) is proved of any list.

The first three are about reading a log (`Spec`), the others about what is done with the table then (`NavSpec`), with an invariant of their own (`NavInv`):
what a table has, be it of a log, of a user's file or of a file that an earlier run wrote, and what a file has of the table it was written from.
The code's loops there (the rollovers in `setAbsT0c()`, the search of the nearest, the merge of two lists, the records of a file)
are recursive functions.  That such a function has a value at every index is not evident to a prover: `LoopRuns` shows that
a loop has a run, and `UpTo` what is true of every step of it, both from the least counterexample in the natural numbers.  `NearAssumption` says that `t_0e` is within a
week of the log, less the two hours that are looked ahead, without which no time of the week could tell the next ephemeris from one a week off; `FilesAssumption` says that
there are satellites, that versions are 2 and 3, and that the other constellation's list is in order.

Only model-checked:

- liveness (`FinishedReaped`, `MeasurementReported`, `Restarted`, `BackToStatus`), which is out of the prover's reach;
- that ephemerides are dated right (`DatedRight`): the dates depend on the order of the table, which comes of sorting it by `t_0c`, and that takes induction over the table and
  its order which the proofs do not have.

## Findings

Each has a run in which TLC finds the counterexample.

| run | what happens |
|---|---|
| `okd_stray` | main has the pointer of a client that is deleted before it writes; the next connection has its descriptor and gets the reading, in place of or before the answer to its own request |
| `eph_week` | on a Sunday the receiver still gives Galileo ephemerides of the Saturday before.  The table's first entry is then one of them, gets the week of the day, and the entries after the step back of `t_0c` a week more: the whole table is dated a week late |

## Known deviations

What the code does that a reader may not expect, found while modelling.  The model does the same, and the property named excepts
it, or no property is about it.

okcounterd and the driver
- `Thread::go()` sets `running` after creating the thread; if the process has left already and the client thread has cleared it, the client is never reaped (`FinishedReaped` is about those that are seen as finished).
- The server thread erases from the vector while main walks it: a registered process may miss a reading (`SentOnceUnlessReaped`).
- `SIGPIPE` is blocked in the server and client threads, but main writes the readings; unless the environment ignores the signal, two readings after a logger has left and before it has been reaped end the daemon.
- A command served before main has written the power-up value is undone (`KeptUnlessFailed`); a failed `UpdateWireIns` zeroes the copy, and the next command of one field commits zero in the other; a `QUERY` between the two halves of a reading tears it (`ReadingsForward` allows halves of two readings).
- `UpdateWireOuts` of the two threads may cross: a `QUERY` that captures before main's refresh and returns after it puts the older capture into `m_wireOuts`, so that main sends a reading (or a half of one) a second time and loses the one whose trigger it has read (`ReadingsForward` and `MeasurementReported` except exactly these, `lost`).
- Likewise a `CONFIGURE` that is served while main's power-up value is on its way to the FPGA is undone (`KeptUnlessFailed`).
- A claim that is refused is taken for a success, so `okbfloader` erases the FPGA under okcounterd before its first block is refused; okcounterd then loses its handle and polls for ever (`DeafOnlyIfLost`).
- Two threads of okcounterd can close the same handle (`UsedWhileOpen`).

Locks
- A process lock that is empty or names a process that now is another one; a clock that is set while a logger runs makes its lock look older than the boot (`LockNamesOwner`, `Restarted`).

mktimetx
- ublox, Javad and Resolution mix two seconds when particular lines are lost (`OneSecond`); a Javad measurement can have the date of an earlier second, when its `RD` is lost after a second without `SI` or `RD` (`FreshDate`); a Resolution log can start with fields that were never assigned.
- `Ublox.cpp:349` computes a number of satellites in unsigned arithmetic; `NVS.cpp:668` uses `at(0)` of what may be empty.
- A second is lost when it has more satellites than there is room for (`NotLost` excepts it, `Crowded`).  A Resolution's limit is `MAX_CHANNELS`, 12 (TrimbleResolution.cpp:59,267), and the SMT 360
  has 32 channels (line 95): one pseudorange beyond the twelfth spoils a good second, even one that is not of GPS and would not have been kept.  NVS deletes an `F5` that has too many (NVS.cpp:393-397).
- The comment at Application.cpp:1258-1260 says of receiver messages with one time stamp that "it makes sense to use the last of these".  The code keeps the first, marks the pair, and uses neither
  (lines 1266-1273, 1279): with the last one a late message would be paired with the counter of another second (`OneSecondPairs`).
- In CGGTTS fits, points beyond the GPS midnight are counted in a day that is counted twice (`FitsSound`).
- Ephemerides that the user supplies are not dated; a navigation file gives a record past its end (`ReadBack`).
- An entry whose week number is not that of its `t_0c` may be dated a week early (`DatedRight`).  The comment at `GNSSSystem.cpp:185` speaks of the issue of data; only `t_0e` is compared.

Front panel and PRS10
- A key may be taken for the display's answer.  A user with more packets waiting than a question takes (two presses and releases of ENTER, typed ahead, and a late answer) can
  confirm a question that has not been shown (`Confirmed`, proved for `MaxInbox + MaxLate` of four and false for five).
- A packet that the display does not get is not sent again: a write that fails or is short is only logged (CFA635.cpp:436-453) and `getResponse` only logs, opens the port again and goes on (LCDMonitor.cpp:2113-2143).
  `status[row]` has been set before (2160-2161), so the line is not sent later either and stays wrong until another text is put there.  An ENTER may then be taken for a
  question that the display does not show (`Confirmed` excepts it, `Unshown`), and the backlight may stay at a level that was given up (`BacklightAsSet`, `lost`).
- The settings are unlinked before they are renamed, and lcdmonitor does not look at the temporary file; a missing token is not added (`Saved`).
- A `prs10c` that is refused the port removes the lock of the one that has it (`OnePortUser`); late answers are taken for others, and a failure of the EEPROM skips the CCTF header (`RateFromUnit`, `ToldIsStored`, `SteersKept`).

## Not modelled

In the modelled components: `exit()` when `pthread_create` fails; `Server::~Server` and
`Server::stop`, which nothing calls since `run()` never returns; interrupted system calls
(retried up to ten times); `shutdown()` and `close()` are one step; the text of the answer to
`QUERY`; the conversion of a reading to nanoseconds (floating point); `CONFIGURE` with a
number missing, which uses an uninitialised variable; a restart of the daemon, which
begins again from `Init`; in the driver, `ResetDeviceUSB`, pipes, `OpenByDeviceID` and the flash, which nothing calls, and the
contents of the PLL; in the process locks, a file that
holds part of one PID and part of another, a process whose command line happens to contain the
logger's name, and `lockport` killed between two of its steps without its logger.

In mktimetx: pseudoranges, orbits, clocks, ionosphere and fits are floating point, and TLC has none; the format of the files; BeiDou and
GLONASS ephemerides; its configuration.  In lcdmonitor: the bytes of a packet and the ring buffer; the network dialogs; the layout
of widgets; what is read from other programs' files.  In prs10: time tags, `prs10adjust.pl`, the log that `prs10log` writes.  In
libconfigurator: the hash table and two-column files.

The components that are not modelled at all, with the reason, are in `PROJECT.json`: mostly one-shot tools and batch text processing, and
`ppsd`, which is about microseconds.

## Plan

1. The alarms of `sysmonitor.pl`, which outlive it; the signal handlers of the Perl loggers.
2. The packet parser of `CFA635`, byte by byte, against a reference parser.
