----------------------------- MODULE OKCounterD -----------------------------
(***************************************************************************)
(* okcounterd, the daemon between the counter in the FPGA and the logging  *)
(* processes: three kinds of thread in one address space and no lock.      *)
(*                                                                         *)
(*   main     OKCounterD::run: polls the counter and, for every reading,   *)
(*            walks Server::clients and writes to each client's socket.    *)
(*   server   Server::doWork: accepts one connection at a time, serves its *)
(*            single request, then reaps the clients that have finished.   *)
(*   client   Client::doWork, one thread per LISTENing process: waits in   *)
(*            recv() for the process to go away.                           *)
(*                                                                         *)
(* The vector `clients`, the Client objects and the descriptor table are   *)
(* shared by all of them.  A Client object is an address: a freed address  *)
(* is handed out again by new, and keeps its old contents until then.      *)
(* What a CONFIGURE or QUERY does to the FPGA is in module XEMRegisters.   *)
(***************************************************************************)
EXTENDS Integers, Sequences, FiniteSets, Vectors

CONSTANTS
  Conn,            \* connections; each is one run of a process that connects
  Fd,              \* the descriptor numbers a socket can get
  Obj,             \* the addresses of Client objects
  None,            \* not a connection, not a descriptor, not an address
  MAXCLIENTS,      \* Server.cpp:47
  SockBuf,         \* readings that fit between the two ends of a connection
  MaxReading,      \* bound: readings taken by main
  SigPipeIgnored   \* SIGPIPE is ignored in the environment that starts okcounterd

ASSUME OKAssumption ==
  /\ Fd \subseteq Nat
  /\ None \notin Conn \cup Fd \cup Obj
  /\ MAXCLIENTS \in Nat \ {0}
  /\ SockBuf \in Nat \ {0}
  /\ MaxReading \in Nat
  /\ SigPipeIgnored \in BOOLEAN

VARIABLES
  \* the processes and the kernel
  peer,      \* the process's end of each connection
  said,      \* the request the process has sent
  link,      \* has the daemon's end been reset by the process's host
  unread,    \* readings written to the connection and not yet read
  got,       \* the readings ever written to the connection, in order
  backlog,   \* connections waiting for accept()
  fdtab,     \* the daemon's descriptor table
  \* the server thread
  spc, sfd, sj, sobj,
  \* Server::clients
  clients, cap,
  \* Client objects and their threads
  live, ofd, running, cpc,
  \* the main thread
  mpc, mi, mptr, reading, audience, reaped,
  alive

netvars    == <<peer, said, link, unread, got, backlog>>
servervars == <<spc, sfd, sj, sobj>>
vecvars    == <<clients, cap>>
objvars    == <<live, ofd, running, cpc>>
mainvars   == <<mpc, mi, mptr, reading, audience, reaped>>
vars == <<netvars, fdtab, servervars, vecvars, objvars, mainvars, alive>>

\* A command is a CONFIGURE or a QUERY: answered, and the connection closed.
Requests == {"LISTEN", "command", "other"}

-----------------------------------------------------------------------------

Init ==
  /\ peer     = [k \in Conn |-> "idle"]
  /\ said     = [k \in Conn |-> "nothing"]
  /\ link     = [k \in Conn |-> "up"]
  /\ unread   = [k \in Conn |-> 0]
  /\ got      = [k \in Conn |-> <<>>]
  /\ backlog  = <<>>
  /\ fdtab    = [f \in Fd |-> None]
  /\ spc = "select" /\ sfd = None /\ sj = 1 /\ sobj = None
  /\ clients = <<>> /\ cap = 0
  /\ live     = [o \in Obj |-> FALSE]
  /\ ofd      = [o \in Obj |-> None]
  /\ running  = [o \in Obj |-> FALSE]
  /\ cpc      = [o \in Obj |-> "none"]
  /\ mpc = "idle" /\ mi = 1 /\ mptr = None /\ reading = 0 /\ audience = {}
  /\ reaped = FALSE
  /\ alive = "yes"

-----------------------------------------------------------------------------
(* The processes at the other end: okxemlog.pl, okcounterdctrl.pl.          *)

Connect(k) ==
  /\ peer[k] = "idle" /\ alive = "yes"
  /\ peer' = [peer EXCEPT ![k] = "open"]
  /\ backlog' = Append(backlog, k)
  /\ UNCHANGED <<said, link, unread, got, fdtab, servervars, vecvars, objvars,
                 mainvars, alive>>

Send(k, req) ==
  /\ peer[k] = "open" /\ said[k] = "nothing" /\ alive = "yes"
  /\ said' = [said EXCEPT ![k] = req]
  /\ UNCHANGED <<peer, link, unread, got, backlog, fdtab, servervars, vecvars,
                 objvars, mainvars, alive>>

ReadLine(k) ==
  /\ peer[k] = "open" /\ unread[k] > 0
  /\ unread' = [unread EXCEPT ![k] = @ - 1]
  /\ UNCHANGED <<peer, said, link, got, backlog, fdtab, servervars, vecvars,
                 objvars, mainvars, alive>>

\* The process exits, or is killed, at any time.  Closing with readings it has
\* not read resets the connection at once.
Close(k) ==
  /\ peer[k] = "open" /\ alive = "yes"
  /\ peer' = [peer EXCEPT ![k] = "closed"]
  /\ link' = [link EXCEPT ![k] = IF unread[k] > 0 THEN "reset" ELSE @]
  /\ unread' = [unread EXCEPT ![k] = 0]
  /\ UNCHANGED <<said, got, backlog, fdtab, servervars, vecvars, objvars,
                 mainvars, alive>>

Process(k) ==
  \/ Connect(k)
  \/ \E req \in Requests : Send(k, req)
  \/ ReadLine(k)
  \/ Close(k)

-----------------------------------------------------------------------------
(* The server thread: Server::doWork and Server::processRequest.            *)

FreeFds == {f \in Fd : fdtab[f] = None}
IsLowestFree(f) == f \in FreeFds /\ \A g \in FreeFds : f <= g

\* select() returns with a connection to accept; accept() gives it the lowest
\* free descriptor.
Accept ==
  /\ spc = "select" /\ alive = "yes" /\ backlog # <<>>
  /\ \E f \in Fd :
       /\ IsLowestFree(f)
       /\ fdtab' = [fdtab EXCEPT ![f] = Head(backlog)]
       /\ sfd' = f
  /\ backlog' = Tail(backlog)
  /\ spc' = "read"
  /\ UNCHANGED <<peer, said, link, unread, got, sj, sobj, vecvars, objvars,
                 mainvars, alive>>

\* (Mutant) the loop starts again at once when there is nothing to accept.
NoAcceptContinue == spc = "select" /\ alive = "yes" /\ backlog = <<>> /\ UNCHANGED vars

\* select() times out or is interrupted, or accept() fails for want of a
\* descriptor: go on to the reaping loop.
NoAccept ==
  /\ spc = "select" /\ alive = "yes" /\ (backlog = <<>> \/ FreeFds = {})
  /\ spc' = "reap" /\ sj' = 1
  /\ UNCHANGED <<netvars, fdtab, sfd, sobj, vecvars, objvars, mainvars, alive>>

\* processRequest is done with the connection: on to the reaping loop.
Served ==
  /\ spc' = "reap" /\ sj' = 1 /\ sfd' = None
  /\ UNCHANGED sobj

\* shutdown() and close() of the connection just served.
CloseServed ==
  /\ fdtab' = [fdtab EXCEPT ![sfd] = None]
  /\ Served
  /\ UNCHANGED <<netvars, vecvars, objvars, mainvars, alive>>

\* read() blocks until the process says something or goes away.  A process that
\* went away without a word leaves its descriptor open for ever.
ReadRequest ==
  /\ spc = "read" /\ alive = "yes"
  /\ LET k == fdtab[sfd] IN
       \/ /\ said[k] \in {"LISTEN", "command"}
          /\ spc' = said[k]
          /\ UNCHANGED <<sfd, sj, sobj>>
       \/ /\ said[k] = "other" \/ (said[k] = "nothing" /\ peer[k] = "closed")
          /\ Served
  /\ UNCHANGED <<netvars, fdtab, vecvars, objvars, mainvars, alive>>

\* CONFIGURE: set the FPGA's registers.  QUERY: writeBuffer(), sleep(1).  Then
\* the connection is closed.  SIGPIPE is blocked in this thread.
Command == spc = "command" /\ alive = "yes" /\ CloseServed

\* (Mutant) a refused process is forgotten, and its socket left open.
RefuseWithoutClose ==
  /\ spc = "LISTEN" /\ alive = "yes" /\ Len(clients) = MAXCLIENTS
  /\ Served
  /\ UNCHANGED <<netvars, fdtab, vecvars, objvars, mainvars, alive>>

RefuseListener ==
  /\ spc = "LISTEN" /\ alive = "yes" /\ Len(clients) = MAXCLIENTS
  /\ CloseServed

\* (Mutant) processRequest registers a process without looking at the limit.
NewClientUnlimited ==
  /\ spc = "LISTEN" /\ alive = "yes"
  /\ \E o \in Obj :
       /\ ~live[o]
       /\ live' = [live EXCEPT ![o] = TRUE]
       /\ ofd' = [ofd EXCEPT ![o] = sfd]
       /\ running' = [running EXCEPT ![o] = FALSE]
       /\ cpc' = [cpc EXCEPT ![o] = "none"]
       /\ sobj' = o
  /\ spc' = "push"
  /\ UNCHANGED <<netvars, fdtab, sfd, sj, vecvars, mainvars, alive>>

\* new Client(this, socketfd)
NewClient ==
  /\ spc = "LISTEN" /\ alive = "yes" /\ Len(clients) # MAXCLIENTS
  /\ \E o \in Obj :
       /\ ~live[o]
       /\ live' = [live EXCEPT ![o] = TRUE]
       /\ ofd' = [ofd EXCEPT ![o] = sfd]
       /\ running' = [running EXCEPT ![o] = FALSE]
       /\ cpc' = [cpc EXCEPT ![o] = "none"]
       /\ sobj' = o
  /\ spc' = "push"
  /\ UNCHANGED <<netvars, fdtab, sfd, sj, vecvars, mainvars, alive>>

\* clients.push_back(client) with room to spare ...
PushBack ==
  /\ spc = "push" /\ alive = "yes" /\ Len(clients) < cap
  /\ clients' = Append(clients, sobj)
  /\ spc' = "create"
  /\ UNCHANGED <<netvars, fdtab, sfd, sj, sobj, cap, objvars, mainvars, alive>>

\* ... and without: the elements are copied to a larger buffer and the old one
\* is freed before the vector's own pointers are changed.
Reallocate ==
  /\ spc = "push" /\ alive = "yes" /\ Len(clients) = cap
  /\ spc' = "grow"
  /\ UNCHANGED <<netvars, fdtab, sfd, sj, sobj, vecvars, objvars, mainvars, alive>>

SwapBuffer ==
  /\ spc = "grow" /\ alive = "yes"
  /\ clients' = Append(clients, sobj)
  /\ cap' = IF cap = 0 THEN 1 ELSE 2 * cap
  /\ spc' = "create"
  /\ UNCHANGED <<netvars, fdtab, sfd, sj, sobj, objvars, mainvars, alive>>

\* Thread::go(): the thread exists before go() says that it is running.
CreateThread ==
  /\ spc = "create" /\ alive = "yes"
  /\ cpc' = [cpc EXCEPT ![sobj] = "recv"]
  /\ spc' = "setrunning"
  /\ UNCHANGED <<netvars, fdtab, sfd, sj, sobj, vecvars, live, ofd, running,
                 mainvars, alive>>

SetRunning ==
  /\ spc = "setrunning" /\ alive = "yes"
  /\ running' = [running EXCEPT ![sobj] = TRUE]
  /\ spc' = "reap" /\ sj' = 1 /\ sfd' = None /\ sobj' = None
  /\ UNCHANGED <<netvars, fdtab, vecvars, live, ofd, cpc, mainvars, alive>>

\* The loop at the end of doWork: skip the clients that are running ...
ReapNext ==
  /\ spc = "reap" /\ alive = "yes"
  /\ \/ /\ sj > Len(clients)
        /\ spc' = "select" /\ sj' = 1 /\ UNCHANGED sobj
     \/ /\ sj <= Len(clients) /\ running[clients[sj]]
        /\ sj' = sj + 1 /\ UNCHANGED <<spc, sobj>>
     \/ /\ sj <= Len(clients) /\ ~running[clients[sj]]
        /\ sobj' = clients[sj] /\ spc' = "join" /\ UNCHANGED sj
  /\ UNCHANGED <<netvars, fdtab, sfd, vecvars, objvars, mainvars, alive>>

\* (Mutant) stop() does not join the thread.
NoJoin ==
  /\ spc = "join" /\ alive = "yes" /\ spc' = "move"
  /\ UNCHANGED <<netvars, fdtab, sfd, sj, sobj, vecvars, objvars, mainvars, alive>>

\* ... Client::stop() waits for the thread of one that is not ...
Join ==
  /\ spc = "join" /\ alive = "yes" /\ cpc[sobj] = "done"
  /\ spc' = "move"
  /\ UNCHANGED <<netvars, fdtab, sfd, sj, sobj, vecvars, objvars, mainvars, alive>>

\* (Mutant) the last client goes instead of the one that has finished.
EraseLast ==
  /\ spc = "move" /\ alive = "yes"
  /\ spc' = "shrink" /\ reaped' = TRUE
  /\ UNCHANGED <<netvars, fdtab, sfd, sj, sobj, vecvars, objvars, mpc, mi, mptr,
                 reading, audience, alive>>

\* ... erase() moves the later elements down one place ...
EraseMove ==
  /\ spc = "move" /\ alive = "yes"
  /\ clients' = MovedDown(clients, sj)
  /\ spc' = "shrink"
  /\ reaped' = TRUE
  /\ UNCHANGED <<netvars, fdtab, sfd, sj, sobj, cap, objvars, mpc, mi, mptr,
                 reading, audience, alive>>

\* ... and then makes the vector one shorter ...
EraseShrink ==
  /\ spc = "shrink" /\ alive = "yes"
  /\ clients' = Shrunk(clients)
  /\ spc' = "delete"
  /\ reaped' = TRUE
  /\ UNCHANGED <<netvars, fdtab, sfd, sj, sobj, cap, objvars, mpc, mi, mptr,
                 reading, audience, alive>>

\* ... and delete runs ~Client, which closes the socket, and frees the memory.
DeleteClient ==
  /\ spc = "delete" /\ alive = "yes"
  /\ fdtab' = [fdtab EXCEPT ![ofd[sobj]] = None]
  /\ live' = [live EXCEPT ![sobj] = FALSE]
  /\ spc' = "reap" /\ sobj' = None
  /\ UNCHANGED <<netvars, sfd, sj, vecvars, ofd, running, cpc, mainvars, alive>>

ServeRequest ==
  \/ ReadRequest \/ Command \/ RefuseListener
  \/ NewClient \/ PushBack \/ Reallocate \/ SwapBuffer
  \/ CreateThread \/ SetRunning

Reap == ReapNext \/ Join \/ EraseMove \/ EraseShrink \/ DeleteClient

ServerThread == Accept \/ NoAccept \/ ServeRequest \/ Reap

-----------------------------------------------------------------------------
(* The client threads: Client::doWork.                                      *)

\* (Mutant) Client::doWork closes the socket itself, as it once did.
RecvEOFCloses(o) ==
  /\ cpc[o] = "recv" /\ alive = "yes"
  /\ fdtab[ofd[o]] = None \/ peer[fdtab[ofd[o]]] = "closed"
  /\ cpc' = [cpc EXCEPT ![o] = "finish"]
  /\ fdtab' = [fdtab EXCEPT ![ofd[o]] = None]
  /\ UNCHANGED <<netvars, servervars, vecvars, live, ofd, running, mainvars, alive>>

\* recv() returns 0 or an error once the process has gone away.
RecvEOF(o) ==
  /\ cpc[o] = "recv" /\ alive = "yes"
  /\ fdtab[ofd[o]] = None \/ peer[fdtab[ofd[o]]] = "closed"
  /\ cpc' = [cpc EXCEPT ![o] = "finish"]
  /\ UNCHANGED <<netvars, fdtab, servervars, vecvars, live, ofd, running,
                 mainvars, alive>>

\* running = false ...
Finish(o) ==
  /\ cpc[o] = "finish" /\ alive = "yes"
  /\ running' = [running EXCEPT ![o] = FALSE]
  /\ cpc' = [cpc EXCEPT ![o] = "exit"]
  /\ UNCHANGED <<netvars, fdtab, servervars, vecvars, live, ofd, mainvars, alive>>

\* ... is the last thing it does before it returns.
ThreadExit(o) ==
  /\ cpc[o] = "exit" /\ alive = "yes"
  /\ cpc' = [cpc EXCEPT ![o] = "done"]
  /\ UNCHANGED <<netvars, fdtab, servervars, vecvars, live, ofd, running,
                 mainvars, alive>>

ClientThread(o) == RecvEOF(o) \/ Finish(o) \/ ThreadExit(o)

-----------------------------------------------------------------------------
(* The main thread: OKCounterD::run, Server::sendData, Client::sendData.    *)

Registered == {fdtab[ofd[clients[i]]] : i \in 1..Len(clients)}

\* A channel has triggered: the reading goes to every client.  For the
\* properties, `audience` records who is registered when the walk starts, and
\* `reaped` whether a client is erased before it ends.
Trigger ==
  /\ mpc = "idle" /\ alive = "yes" /\ reading < MaxReading
  /\ reading' = reading + 1
  /\ mpc' = "loop" /\ mi' = 1
  /\ audience' = Registered /\ reaped' = (spc = "shrink")
  /\ UNCHANGED <<netvars, fdtab, servervars, vecvars, objvars, mptr, alive>>

\* i < clients.size()
LoopTest ==
  /\ mpc = "loop" /\ alive = "yes"
  /\ mpc' = IF mi <= Len(clients) THEN "at" ELSE "idle"
  /\ UNCHANGED <<netvars, fdtab, servervars, vecvars, objvars, mi, mptr,
                 reading, audience, reaped, alive>>

\* clients.at(i), which checks i again.
At ==
  /\ mpc = "at" /\ alive = "yes" /\ mi <= Len(clients)
  /\ mptr' = clients[mi] /\ mpc' = "send"
  /\ UNCHANGED <<netvars, fdtab, servervars, vecvars, objvars, mi, reading,
                 audience, reaped, alive>>

\* The second check fails: std::out_of_range, caught by nobody.
AtThrows ==
  /\ mpc = "at" /\ alive = "yes" /\ mi > Len(clients)
  /\ alive' = "aborted"
  /\ UNCHANGED <<netvars, fdtab, servervars, vecvars, objvars, mainvars>>

\* The element is read from the buffer that push_back has just freed.
AtFreedBuffer ==
  /\ mpc = "at" /\ alive = "yes" /\ spc = "grow" /\ cap > 0
  /\ alive' = "segv"
  /\ UNCHANGED <<netvars, fdtab, servervars, vecvars, objvars, mainvars>>

Broken(k) == k # None /\ link[k] = "reset"

\* (Mutant) i is incremented twice.
NextClientSkips == mpc' = "loop" /\ mi' = mi + 2 /\ mptr' = None

NextClient == mpc' = "loop" /\ mi' = mi + 1 /\ mptr' = None

\* write() to the socket of the client; `mptr` may have been deleted meanwhile,
\* and what its memory says may be the number of somebody else's socket.
WriteReading ==
  /\ mpc = "send" /\ alive = "yes"
  /\ ofd[mptr] # None
  /\ LET k == fdtab[ofd[mptr]] IN
       /\ k # None
       /\ link[k] = "up"
       /\ IF peer[k] = "closed"
            THEN /\ link' = [link EXCEPT ![k] = "reset"]
                 /\ UNCHANGED <<unread, got>>
            ELSE /\ unread[k] < SockBuf
                 /\ unread' = [unread EXCEPT ![k] = @ + 1]
                 /\ got' = [got EXCEPT ![k] = Append(@, reading)]
                 /\ UNCHANGED link
  /\ NextClient
  /\ UNCHANGED <<peer, said, backlog, fdtab, servervars, vecvars, objvars,
                 reading, audience, reaped, alive>>

\* write() fails and sendData returns: the socket is closed, the process has
\* reset it and the error is reported as such, or the memory of a deleted
\* client holds something else by now.
WriteFails ==
  /\ mpc = "send" /\ alive = "yes"
  /\ fdtab[ofd[mptr]] = None \/ Broken(fdtab[ofd[mptr]]) \/ ~live[mptr]
  /\ NextClient
  /\ UNCHANGED <<netvars, fdtab, servervars, vecvars, objvars, reading,
                 audience, reaped, alive>>

\* The socket has been reset: SIGPIPE, which only the server thread and the
\* client threads block.
WriteSigPipe ==
  /\ mpc = "send" /\ alive = "yes" /\ ~SigPipeIgnored
  /\ Broken(fdtab[ofd[mptr]])
  /\ alive' = "sigpipe"
  /\ UNCHANGED <<netvars, fdtab, servervars, vecvars, objvars, mainvars>>

MainThread ==
  \/ Trigger \/ LoopTest \/ At \/ AtThrows \/ AtFreedBuffer
  \/ WriteReading \/ WriteFails \/ WriteSigPipe

-----------------------------------------------------------------------------

Gone == alive # "yes" /\ UNCHANGED vars

Next ==
  \/ \E k \in Conn : Process(k)
  \/ ServerThread
  \/ \E o \in Obj : ClientThread(o)
  \/ MainThread
  \/ Gone

Spec == Init /\ [][Next]_vars

(* Every thread is scheduled, and every process eventually says what it has *)
(* connected for, reads what it is sent, or goes away: okxemlog.pl sends    *)
(* LISTEN as soon as it has connected and then does nothing but read, and   *)
(* okcounterdctrl.pl sends one command and exits.                           *)
Speaks(k) == (\E req \in Requests : Send(k, req)) \/ Close(k)

Fairness ==
  /\ WF_vars(ServerThread)
  /\ WF_vars(MainThread)
  /\ \A o \in Obj : WF_vars(ClientThread(o))
  /\ \A k \in Conn : WF_vars(Speaks(k)) /\ WF_vars(ReadLine(k))

FairSpec == Spec /\ Fairness

-----------------------------------------------------------------------------
(* Properties *)

Serving == {"read", "LISTEN", "command", "push", "grow", "create", "setrunning"}

NetOK ==
  /\ peer \in [Conn -> {"idle", "open", "closed"}]
  /\ said \in [Conn -> Requests \cup {"nothing"}]
  /\ link \in [Conn -> {"up", "reset"}]
  /\ unread \in [Conn -> 0..SockBuf]
  /\ got \in [Conn -> Seq(1..MaxReading)]
  /\ backlog \in Seq(Conn)

ServerOK ==
  /\ spc \in Serving \cup {"select", "reap", "join", "move", "shrink", "delete"}
  /\ sfd \in Fd \cup {None}
  /\ sj \in 1..MAXCLIENTS + 1
  /\ sobj \in Obj \cup {None}

ObjectsOK ==
  /\ live \in [Obj -> BOOLEAN]
  /\ ofd \in [Obj -> Fd \cup {None}]
  /\ running \in [Obj -> BOOLEAN]
  /\ cpc \in [Obj -> {"none", "recv", "finish", "exit", "done"}]

MainOK ==
  /\ mpc \in {"idle", "loop", "at", "send"}
  /\ mi \in Nat \ {0}
  /\ mptr \in Obj \cup {None} /\ (mpc = "send" => mptr # None)
  /\ reading \in 0..MaxReading /\ (mpc # "idle" => reading > 0)
  /\ audience \subseteq Conn /\ reaped \in BOOLEAN

TypeOK ==
  /\ NetOK
  /\ fdtab \in [Fd -> Conn \cup {None}]
  /\ ServerOK
  /\ clients \in Seq(Obj) /\ cap \in Nat
  /\ ObjectsOK
  /\ MainOK
  /\ alive \in {"yes", "aborted", "segv", "sigpipe"}

\* The socket of a Client stays its own for as long as the Client exists: it is
\* open, no other Client and no request being served has the same descriptor,
\* and (SocketKept) it never comes to mean another connection.  This is what
\* the comment in ~Client is about: the socket must not be closed when its
\* process goes away, because the next process would be given the descriptor
\* and the old Client would then close it.
SocketOwned ==
  /\ \A o \in Obj : live[o] => ofd[o] \in Fd /\ fdtab[ofd[o]] # None
  /\ \A o, p \in Obj : live[o] /\ live[p] /\ o # p => ofd[o] # ofd[p]
  /\ \A o \in Obj : live[o] /\ o # sobj => ofd[o] # sfd

SocketKept ==
  [][\A o \in Obj : live[o] /\ live'[o] =>
       ofd'[o] = ofd[o] /\ fdtab'[ofd[o]] = fdtab[ofd[o]]]_vars

\* Server::clients and the Client objects agree: whatever the vector holds is
\* an object that has not been deleted, nothing is there twice, nothing that
\* exists has been forgotten, and there are at most MAXCLIENTS of them.  While
\* erase() is at work the element being removed is the exception.
VectorSound ==
  /\ Len(clients) <= MAXCLIENTS /\ Len(clients) <= cap
  /\ spc # "shrink" =>
       /\ Distinct(clients)
       /\ Elems(clients) =
            {o \in Obj : live[o]} \
              (IF spc \in {"push", "grow", "delete"} THEN {sobj} ELSE {})

\* No thread runs in an object that has been deleted: stop() joins it first.
ThreadInObject ==
  \A o \in Obj : cpc[o] \in {"recv", "finish", "exit"} => live[o]

\* Every descriptor the daemon holds is that of a Client, or of the request it
\* is serving, or of a process that went away without a request, or with one
\* that processRequest does not know: nothing else is ever left open.
OnlyUnansweredLeak ==
  \A f \in Fd : fdtab[f] # None =>
    \/ f = sfd
    \/ \E o \in Obj : live[o] /\ ofd[o] = f
    \/ said[fdtab[f]] \in {"other", "nothing"}

Times(k) == {n \in 1..Len(got[k]) : got[k][n] = reading}

WalkOver == mpc = "loop" /\ mi > Len(clients)

\* A process that is registered while main walks the clients is sent the
\* reading, exactly once, unless some client was erased during the walk.
SentOnceUnlessReaped ==
  WalkOver /\ ~reaped =>
    \A k \in audience : peer[k] = "open" => Cardinality(Times(k)) = 1

\* Readings go to processes that have asked for them and to no other.
OnlyListenersGetReadings ==
  \A k \in Conn : got[k] # <<>> => said[k] \in {"nothing", "LISTEN"}

\* A Client whose thread has finished and said so is destroyed.
Reapable(o) ==
  /\ live[o] /\ cpc[o] = "done" /\ ~running[o]
  /\ ~(sobj = o /\ spc \in Serving)

FinishedReaped ==
  \A o \in Obj : Reapable(o) ~> (~live[o] \/ alive # "yes")

-----------------------------------------------------------------------------
(* okcounterd implements Connections: what the state says of a connection.  *)

Held(k) == \E o \in Obj : /\ live[o] /\ fdtab[ofd[o]] = k
                          /\ ~(o = sobj /\ spc \in {"push", "grow"})

ConnState(k) ==
  CASE peer[k] = "idle"                                 -> "idle"
    [] \E i \in 1..Len(backlog) : backlog[i] = k        -> "queued"
    [] Held(k) /\ peer[k] = "open"                      -> "listening"
    [] Held(k) /\ peer[k] = "closed"                    -> "left"
    [] ~Held(k) /\ sfd # None /\ fdtab[sfd] = k         -> "serving"
    [] ~Held(k) /\ \E f \in Fd \ {sfd} : fdtab[f] = k   -> "abandoned"
    [] OTHER                                            -> "closed"

C == INSTANCE Connections WITH st <- [k \in Conn |-> ConnState(k)],
                               up <- (alive = "yes")

\* Every connection lives the life Connections describes; in particular the
\* daemon never closes a listener whose process is still there, and a
\* descriptor that is reused never makes one connection end another.
ImplementsConnections == C!Spec

=============================================================================
