-------------------------- MODULE OKCounterDProofs --------------------------
(***************************************************************************)
(* okcounterd for any number of processes, descriptors, clients and        *)
(* readings: types; the agreement between the server thread, the clients   *)
(* vector, the Client objects and the descriptor table; the refinement of  *)
(* Connections; and the walk of the main thread over the clients.          *)
(*                                                                         *)
(* SocketOwned, VectorSound and ThreadInObject are not inductive one by    *)
(* one: delete closes the socket of `sobj`, so it matters where sobj came  *)
(* from (the vector), that the vector held a live object there, and that   *)
(* its thread was joined.  IInv says what the server thread knows at each  *)
(* of its steps, and is inductive.  ConnInv, relative to it, says where a  *)
(* connection can be: not made, waiting, or behind one descriptor.  The    *)
(* step-by-step refinement needs both, before and after.  WalkInv says     *)
(* which clients main has passed, and is what SentOnceUnlessReaped rests   *)
(* on; it needs the other two.                                             *)
(***************************************************************************)
EXTENDS OKCounterD, SequenceTheorems, FiniteSetTheorems, TLAPS

-----------------------------------------------------------------------------
(* What push_back() and erase() do to a vector without repetitions.        *)

\* push_back of an element the vector does not hold.
LEMMA AppendSound ==
  ASSUME NEW S, NEW s \in Seq(S), NEW o \in S, Distinct(s), o \notin Elems(s)
  PROVE  /\ Append(s, o) \in Seq(S)
         /\ Len(Append(s, o)) = Len(s) + 1
         /\ Distinct(Append(s, o))
         /\ Elems(Append(s, o)) = Elems(s) \cup {o}
<1> DEFINE t == Append(s, o)
<1>1. /\ t \in Seq(S) /\ Len(t) = Len(s) + 1
      /\ \A i \in 1..Len(s) : t[i] = s[i]
      /\ t[Len(s) + 1] = o
  BY AppendProperties
<1>2. Len(s) \in Nat
  BY LenProperties
<1>3. Distinct(t)
  BY <1>1, <1>2 DEF Distinct, Elems
<1>4. Elems(t) = Elems(s) \cup {o}
  BY <1>1, <1>2 DEF Elems
<1> QED  BY <1>1, <1>3, <1>4

\* erase(): what is left when the last place has gone.
LEMMA EraseSound ==
  ASSUME NEW S, NEW s \in Seq(S), NEW j \in 1..Len(s), Distinct(s)
  PROVE  /\ MovedDown(s, j) \in Seq(S)
         /\ Len(MovedDown(s, j)) = Len(s)
         /\ Shrunk(MovedDown(s, j)) \in Seq(S)
         /\ Len(Shrunk(MovedDown(s, j))) = Len(s) - 1
         /\ Distinct(Shrunk(MovedDown(s, j)))
         /\ Elems(Shrunk(MovedDown(s, j))) = Elems(s) \ {s[j]}
<1> DEFINE t == MovedDown(s, j)
           n == Len(s) - 1
           u == Shrunk(t)
<1>1. Len(s) \in Nat /\ Len(s) > 0 /\ n \in Nat /\ n + 1 = Len(s)
  BY LenProperties
<1>2. t \in Seq(S) /\ Len(t) = Len(s)
  <2>1. \A i \in 1..Len(s) : s[i] \in S
    BY ElementOfSeq
  <2>2. t \in [1..Len(s) -> S]
    BY <1>1, <2>1 DEF MovedDown
  <2>3. t \in Seq(S)
    BY <1>1, <2>2, SeqDef
  <2> QED  BY <1>1, <2>2, <2>3, LenProperties
<1>3. /\ u \in Seq(S) /\ Len(u) = n
      /\ \A i \in 1..n : u[i] = s[IF i >= j THEN i + 1 ELSE i]
  <2>1. u \in Seq(S) /\ Len(u) = n /\ \A i \in 1..n : u[i] = t[i]
    BY <1>1, <1>2, SubSeqProperties DEF Shrunk
  <2>2. \A i \in 1..n : t[i] = s[IF i >= j THEN i + 1 ELSE i]
    BY <1>1 DEF MovedDown
  <2> QED  BY <2>1, <2>2
<1> HIDE DEF t, u
<1>4. Distinct(u)
  <2> SUFFICES ASSUME NEW a \in 1..n, NEW b \in 1..n, u[a] = u[b]
               PROVE  a = b
    BY <1>3 DEF Distinct
  <2>1. u[a] = s[IF a >= j THEN a + 1 ELSE a] /\ u[b] = s[IF b >= j THEN b + 1 ELSE b]
    BY <1>3
  <2>2. /\ (IF a >= j THEN a + 1 ELSE a) \in 1..Len(s)
        /\ (IF b >= j THEN b + 1 ELSE b) \in 1..Len(s)
    BY <1>1
  <2>3. (IF a >= j THEN a + 1 ELSE a) = (IF b >= j THEN b + 1 ELSE b)
    BY <2>1, <2>2 DEF Distinct
  <2> QED  BY <1>1, <2>3
<1>5. Elems(u) = Elems(s) \ {s[j]}
  <2>1. ASSUME NEW a \in 1..n
        PROVE  u[a] \in Elems(s) \ {s[j]}
    <3>1. u[a] = s[IF a >= j THEN a + 1 ELSE a]
      BY <1>3
    <3> QED  BY <1>1, <3>1 DEF Distinct, Elems
  <2>2. ASSUME NEW b \in 1..Len(s), s[b] # s[j]
        PROVE  \E a \in 1..n : s[b] = u[a]
    <3>1. CASE b < j
      <4>1. b \in 1..n /\ u[b] = s[b]
        BY <1>1, <1>3, <3>1
      <4> QED  BY <4>1
    <3>2. CASE b > j
      <4>1. b - 1 \in 1..n /\ u[b - 1] = s[b]
        BY <1>1, <1>3, <3>2
      <4> QED  BY <4>1
    <3> QED  BY <1>1, <2>2, <3>1, <3>2
  <2>3. Len(u) = n
    BY <1>3
  <2>4. Elems(u) \subseteq Elems(s) \ {s[j]}
    BY <2>1, <2>3 DEF Elems
  <2>5. Elems(s) \ {s[j]} \subseteq Elems(u)
    BY <2>2, <2>3 DEF Elems
  <2> QED  BY <2>4, <2>5
<1> QED  BY <1>2, <1>3, <1>4, <1>5 DEF t, u

-----------------------------------------------------------------------------
(* The daemon *)

Making   == {"push", "grow", "create", "setrunning"}
Removing == {"join", "move", "shrink", "delete"}

\* What the server thread knows of its local variables.
ServerInv ==
  /\ spc \in Serving <=> sfd # None
  /\ sfd # None => fdtab[sfd] # None
  /\ sobj # None <=> spc \in Making \cup Removing
  /\ sobj # None => live[sobj]
  /\ spc \in Making => ofd[sobj] = sfd
  /\ spc \in {"join", "move"} => sj <= Len(clients) /\ clients[sj] = sobj
  /\ spc \in {"move", "shrink", "delete"} => cpc[sobj] = "done"
  /\ spc \in {"push", "grow"} => Len(clients) < MAXCLIENTS

\* The vector without the element that erase() is removing.
Kept == IF spc = "shrink" THEN Shrunk(clients) ELSE clients

VectorInv ==
  /\ Len(clients) <= MAXCLIENTS /\ Len(clients) <= cap
  /\ spc = "shrink" => Len(clients) > 0
  /\ \A o \in Elems(clients) : live[o]
  /\ Distinct(Kept)
  /\ Elems(Kept) = {o \in Obj : live[o]} \
                     (IF spc \in {"push", "grow", "shrink", "delete"} THEN {sobj} ELSE {})

IInv == TypeOK /\ ServerInv /\ VectorInv /\ SocketOwned /\ ThreadInObject

-----------------------------------------------------------------------------

USE OKAssumption

LEMMA InitIInv == Init => IInv
<1> SUFFICES ASSUME Init PROVE IInv
  OBVIOUS
<1>1. TypeOK
  <2>1. <<>> \in Seq(1..MaxReading) /\ <<>> \in Seq(Conn) /\ <<>> \in Seq(Obj)
    BY EmptySeq
  <2>2. NetOK
    BY <2>1 DEF Init, NetOK
  <2>3. ServerOK
    <3>1. 1 \in 1..MAXCLIENTS + 1
      OBVIOUS
    <3> QED  BY <3>1 DEF Init, ServerOK
  <2>4. ObjectsOK
    BY DEF Init, ObjectsOK
  <2>5. MainOK
    <3>1. 0 \in 0..MaxReading /\ 1 \in Nat \ {0}
      OBVIOUS
    <3> QED  BY <3>1 DEF Init, MainOK
  <2> QED  BY <2>1, <2>2, <2>3, <2>4, <2>5 DEF Init, TypeOK
<1>2. ServerInv
  BY DEF Init, ServerInv, Serving, Making, Removing
<1>3. VectorInv
  BY DEF Init, VectorInv, Kept, Distinct, Elems
<1>4. SocketOwned /\ ThreadInObject
  BY DEF Init, SocketOwned, ThreadInObject
<1> QED  BY <1>1, <1>2, <1>3, <1>4 DEF IInv

\* What an action leaves alone keeps its part of the invariant.
LEMMA Frames ==
  /\ NetOK /\ UNCHANGED netvars => NetOK'
  /\ ServerOK /\ UNCHANGED servervars => ServerOK'
  /\ ObjectsOK /\ UNCHANGED objvars => ObjectsOK'
  /\ MainOK /\ UNCHANGED mainvars => MainOK'
  /\ VectorInv /\ UNCHANGED <<vecvars, live, spc, sobj>> => VectorInv'
  /\ SocketOwned /\ UNCHANGED <<live, ofd, fdtab, sobj, sfd>> => SocketOwned'
  /\ ThreadInObject /\ UNCHANGED <<live, cpc>> => ThreadInObject'
<1>1. NetOK /\ UNCHANGED netvars => NetOK'
  BY DEF NetOK, netvars
<1>2. ServerOK /\ UNCHANGED servervars => ServerOK'
  BY DEF ServerOK, servervars
<1>3. ObjectsOK /\ UNCHANGED objvars => ObjectsOK'
  BY DEF ObjectsOK, objvars
<1>4. MainOK /\ UNCHANGED mainvars => MainOK'
  BY DEF MainOK, mainvars
<1>5. VectorInv /\ UNCHANGED <<vecvars, live, spc, sobj>> => VectorInv'
  BY DEF VectorInv, Kept, vecvars
<1>6. SocketOwned /\ UNCHANGED <<live, ofd, fdtab, sobj, sfd>> => SocketOwned'
  BY DEF SocketOwned
<1>7. ThreadInObject /\ UNCHANGED <<live, cpc>> => ThreadInObject'
  BY DEF ThreadInObject
<1> QED  BY <1>1, <1>2, <1>3, <1>4, <1>5, <1>6, <1>7

\* What the processes and main do leaves everything but the types alone.
Untouched == UNCHANGED <<fdtab, servervars, vecvars, objvars>>

LEMMA UntouchedIInv ==
  IInv /\ Untouched /\ NetOK' /\ MainOK'
    /\ alive' \in {"yes", "aborted", "segv", "sigpipe"} => IInv'
<1> SUFFICES ASSUME IInv, Untouched, NetOK', MainOK',
                    alive' \in {"yes", "aborted", "segv", "sigpipe"}
             PROVE  IInv'
  OBVIOUS
<1>1. UNCHANGED <<fdtab, servervars, vecvars, objvars>>
      /\ UNCHANGED <<live, ofd, cpc, spc, sobj, sfd, sj, clients, cap>>
  BY DEF Untouched, servervars, vecvars, objvars
<1>2. TypeOK'
  BY <1>1, Frames DEF IInv, TypeOK
<1>3. ServerInv'
  BY <1>1 DEF IInv, ServerInv
<1> QED  BY <1>1, <1>2, <1>3, Frames DEF IInv

LEMMA ProcessIInv ==
  ASSUME IInv, NEW k \in Conn, Process(k)
  PROVE  IInv'
<1>1. NetOK /\ MainOK /\ alive \in {"yes", "aborted", "segv", "sigpipe"}
  BY DEF IInv, TypeOK
<1>2. UNCHANGED <<fdtab, servervars, vecvars, objvars, mainvars, alive>>
  BY DEF Process, Connect, Send, ReadLine, Close
<1>3. NetOK'
  <2>1. CASE Connect(k)
    <3>1. backlog' \in Seq(Conn)
      BY <1>1, <2>1, AppendProperties DEF Connect, NetOK
    <3> QED  BY <1>1, <2>1, <3>1 DEF Connect, NetOK
  <2>2. CASE \E req \in Requests : Send(k, req)
    BY <1>1, <2>2 DEF Send, NetOK
  <2>3. CASE ReadLine(k)
    BY <1>1, <2>3 DEF ReadLine, NetOK
  <2>4. CASE Close(k)
    BY <1>1, <2>4 DEF Close, NetOK
  <2> QED  BY <2>1, <2>2, <2>3, <2>4 DEF Process
<1> QED  BY <1>1, <1>2, <1>3, Frames, UntouchedIInv DEF Untouched

LEMMA MainIInv ==
  ASSUME IInv, MainThread
  PROVE  IInv'
<1>1. NetOK /\ MainOK /\ alive \in {"yes", "aborted", "segv", "sigpipe"}
  BY DEF IInv, TypeOK
<1>2. Untouched /\ alive' \in {"yes", "aborted", "segv", "sigpipe"}
  BY <1>1 DEF MainThread, Trigger, LoopTest, At, AtThrows, AtFreedBuffer, WriteReading,
              WriteFails, WriteSigPipe, Untouched
<1>3. NetOK' /\ MainOK'
  <2>1. CASE Trigger
    <3>1. Registered \subseteq Conn
      <4>1. ASSUME NEW i \in 1..Len(clients)
            PROVE  fdtab[ofd[clients[i]]] \in Conn
        <5>1. clients[i] \in Obj /\ live[clients[i]]
          BY ElementOfSeq DEF IInv, VectorInv, Elems, TypeOK
        <5> QED  BY <5>1 DEF IInv, SocketOwned, TypeOK
      <4> QED  BY <4>1 DEF Registered
    <3>2. NetOK'
      BY <1>1, <2>1, Frames DEF Trigger
    <3>3. MainOK'
      BY <1>1, <2>1, <3>1 DEF Trigger, MainOK
    <3> QED  BY <3>2, <3>3
  <2>2. CASE LoopTest
    BY <1>1, <2>2, Frames DEF LoopTest, MainOK
  <2>3. CASE At
    <3>1. clients[mi] \in Obj
      <4>1. clients \in Seq(Obj) /\ mi \in 1..Len(clients)
        BY <1>1, <2>3, LenProperties DEF IInv, TypeOK, At, MainOK
      <4> QED  BY <4>1, ElementOfSeq
    <3> QED  BY <1>1, <2>3, <3>1, Frames DEF At, MainOK
  <2>4. CASE AtThrows \/ AtFreedBuffer \/ WriteSigPipe
    BY <1>1, <2>4, Frames DEF AtThrows, AtFreedBuffer, WriteSigPipe
  <2>5. CASE WriteReading
    <3> DEFINE k == fdtab[ofd[mptr]]
    <3>1. k \in Conn /\ reading \in 1..MaxReading
      <4>1. mptr \in Obj /\ ofd[mptr] \in Fd
        BY <1>1, <2>5 DEF WriteReading, MainOK, IInv, TypeOK, ObjectsOK
      <4> QED  BY <1>1, <2>5, <4>1 DEF WriteReading, MainOK, IInv, TypeOK
    <3>2. Append(got[k], reading) \in Seq(1..MaxReading)
      BY <1>1, <3>1, AppendProperties DEF NetOK
    <3>3. NetOK'
      <4>1. CASE peer[k] = "closed"
        <5>1. link' = [link EXCEPT ![k] = "reset"]
              /\ UNCHANGED <<peer, said, unread, got, backlog>>
          BY <2>5, <4>1 DEF WriteReading
        <5> QED  BY <1>1, <5>1 DEF NetOK
      <4>2. CASE peer[k] # "closed"
        <5>1. /\ unread[k] < SockBuf
              /\ unread' = [unread EXCEPT ![k] = @ + 1]
              /\ got' = [got EXCEPT ![k] = Append(@, reading)]
              /\ UNCHANGED <<peer, said, link, backlog>>
          BY <2>5, <4>2 DEF WriteReading
        <5>2. unread[k] + 1 \in 0..SockBuf
          BY <1>1, <3>1, <5>1 DEF NetOK
        <5> QED  BY <1>1, <3>2, <5>1, <5>2 DEF NetOK
      <4> QED  BY <4>1, <4>2
    <3>4. MainOK'
      BY <1>1, <2>5 DEF WriteReading, NextClient, MainOK
    <3> QED  BY <3>3, <3>4
  <2>6. CASE WriteFails
    BY <1>1, <2>6, Frames DEF WriteFails, NextClient, MainOK
  <2> QED  BY <2>1, <2>2, <2>3, <2>4, <2>5, <2>6 DEF MainThread
<1> QED  BY <1>2, <1>3, UntouchedIInv

LEMMA ClientIInv ==
  ASSUME IInv, NEW o \in Obj, ClientThread(o)
  PROVE  IInv'
<1>1. TypeOK /\ ServerInv /\ VectorInv /\ SocketOwned /\ ThreadInObject
  BY DEF IInv
<1>2. /\ UNCHANGED <<netvars, fdtab, servervars, vecvars, live, ofd, mainvars, alive>>
      /\ cpc[o] \in {"recv", "finish", "exit"}
      /\ \E c \in {"finish", "exit", "done"} : cpc' = [cpc EXCEPT ![o] = c]
      /\ running' = running \/ running' = [running EXCEPT ![o] = FALSE]
  BY DEF ClientThread, RecvEOF, Finish, ThreadExit
<1>3. UNCHANGED <<spc, sfd, sj, sobj, clients>>
  BY <1>2 DEF servervars, vecvars
<1>4. ObjectsOK'
  BY <1>1, <1>2 DEF TypeOK, ObjectsOK
<1>5. TypeOK'
  BY <1>1, <1>2, <1>4, Frames DEF TypeOK, vecvars
<1>6. ServerInv'
  <2>1. ~(spc \in {"move", "shrink", "delete"} /\ sobj = o)
    BY <1>1, <1>2 DEF ServerInv
  <2>2. cpc[sobj] = "done" /\ sobj # o /\ sobj \in Obj => cpc'[sobj] = "done"
    BY <1>1, <1>2 DEF TypeOK, ObjectsOK
  <2>3. sobj # None => sobj \in Obj
    BY <1>1 DEF TypeOK, ServerOK
  <2> QED  BY <1>1, <1>2, <1>3, <2>1, <2>2, <2>3 DEF ServerInv, Making, Removing
<1>7. ThreadInObject'
  BY <1>1, <1>2 DEF ThreadInObject, TypeOK, ObjectsOK
<1> QED  BY <1>1, <1>2, <1>3, <1>5, <1>6, <1>7, Frames DEF IInv

-----------------------------------------------------------------------------
(* The server thread, action by action.                                     *)

\* A step that only moves the server thread on, between two places at which the
\* vector is whole and the same object is (or is not) missing from it.
LEMMA MovedOnVectorInv ==
  ASSUME VectorInv, UNCHANGED <<vecvars, live>>, spc # "shrink", spc' # "shrink",
         \/ spc \notin {"push", "grow", "delete"} /\ spc' \notin {"push", "grow", "delete"}
         \/ sobj' = sobj /\ spc \in {"push", "grow", "delete"} /\ spc' \in {"push", "grow", "delete"}
  PROVE  VectorInv'
BY DEF VectorInv, Kept, vecvars

LEMMA AcceptIInv ==
  ASSUME IInv, Accept
  PROVE  IInv'
<1>1. TypeOK /\ ServerInv /\ VectorInv /\ SocketOwned /\ ThreadInObject
  BY DEF IInv
<1>2. PICK f \in Fd : /\ f \in FreeFds
                     /\ fdtab' = [fdtab EXCEPT ![f] = Head(backlog)]
                     /\ sfd' = f
  BY DEF Accept, IsLowestFree
<1>3. Head(backlog) \in Conn /\ Tail(backlog) \in Seq(Conn)
  BY <1>1, HeadTailProperties DEF Accept, TypeOK, NetOK
<1>4. TypeOK'
  <2>1. NetOK'
    BY <1>1, <1>3 DEF Accept, TypeOK, NetOK
  <2>2. fdtab' \in [Fd -> Conn \cup {None}]
    BY <1>1, <1>2, <1>3 DEF TypeOK
  <2>3. ServerOK'
    BY <1>1, <1>2 DEF Accept, TypeOK, ServerOK, Serving
  <2> QED  BY <1>1, <2>1, <2>2, <2>3, Frames DEF Accept, TypeOK, vecvars
<1>5. ServerInv'
  BY <1>1, <1>2, <1>3 DEF Accept, ServerInv, Serving, Making, Removing, vecvars, objvars,
                          TypeOK
<1>6. VectorInv'
  BY <1>1, MovedOnVectorInv DEF Accept, objvars
<1>7. SocketOwned'
  BY <1>1, <1>2, <1>3 DEF Accept, SocketOwned, FreeFds, objvars, TypeOK
<1>8. ThreadInObject'
  BY <1>1, Frames DEF Accept, objvars
<1> QED  BY <1>4, <1>5, <1>6, <1>7, <1>8 DEF IInv

\* NoAccept, ReapNext, Join and Reallocate only move the server thread on.
LEMMA MoveOnIInv ==
  ASSUME IInv, NoAccept \/ ReapNext \/ Join \/ Reallocate
  PROVE  IInv'
<1>1. TypeOK /\ ServerInv /\ VectorInv /\ SocketOwned /\ ThreadInObject
  BY DEF IInv
<1>2. UNCHANGED <<netvars, fdtab, sfd, vecvars, objvars, mainvars, alive>>
  BY DEF NoAccept, ReapNext, Join, Reallocate
<1>3. UNCHANGED <<clients, cap, live, ofd, running, cpc>>
  BY <1>2 DEF vecvars, objvars
<1>4. clients \in Seq(Obj) /\ Len(clients) \in Nat /\ Len(clients) <= MAXCLIENTS
  BY <1>1, LenProperties DEF TypeOK, VectorInv
<1>5. ASSUME ReapNext, spc' = "join"
      PROVE  /\ sj' = sj /\ sj \in 1..Len(clients) /\ sobj' = clients[sj]
             /\ clients[sj] \in Obj /\ live[clients[sj]]
  <2>1. sj' = sj /\ sj \in 1..Len(clients) /\ sobj' = clients[sj]
    BY <1>1, <1>4, <1>5 DEF ReapNext, TypeOK, ServerOK
  <2>2. clients[sj] \in Obj /\ clients[sj] \in Elems(clients)
    BY <1>4, <2>1, ElementOfSeq DEF Elems
  <2> QED  BY <1>1, <2>1, <2>2 DEF VectorInv
<1>6. ServerOK'
  BY <1>1, <1>2, <1>4, <1>5 DEF NoAccept, ReapNext, Join, Reallocate, TypeOK, ServerOK, Serving
<1>7. TypeOK'
  BY <1>1, <1>2, <1>3, <1>6, Frames DEF TypeOK
<1>8. ServerInv'
  BY <1>1, <1>2, <1>3, <1>5 DEF NoAccept, ReapNext, Join, Reallocate, ServerInv, Serving,
                                Making, Removing, TypeOK, ServerOK
<1>9. VectorInv'
  BY <1>1, <1>2, <1>3, MovedOnVectorInv DEF NoAccept, ReapNext, Join, Reallocate
<1>10. SocketOwned'
  <2>1. sfd' = sfd /\ \A o \in Obj : live[o] /\ o # sobj' /\ o = sobj => ofd[o] # sfd
    BY <1>1, <1>2 DEF NoAccept, ReapNext, Join, Reallocate, ServerInv, Serving, Making,
                      Removing, SocketOwned
  <2> QED  BY <1>1, <1>2, <1>3, <2>1 DEF SocketOwned
<1> QED  BY <1>1, <1>3, <1>7, <1>8, <1>9, <1>10, Frames DEF IInv

\* The end of a request that left no Client: the descriptor is closed, or (a
\* process that said nothing the daemon knows) forgotten.
LEMMA EndRequestIInv ==
  ASSUME IInv, ReadRequest \/ Command \/ RefuseListener
  PROVE  IInv'
<1>1. TypeOK /\ ServerInv /\ VectorInv /\ SocketOwned /\ ThreadInObject
  BY DEF IInv
<1>2. /\ UNCHANGED <<netvars, vecvars, objvars, mainvars, alive, sobj>>
      /\ spc \in {"read", "command", "LISTEN"}
      /\ \/ sfd' = sfd /\ sj' = sj /\ spc' \in {"LISTEN", "command"}
         \/ sfd' = None /\ sj' = 1 /\ spc' = "reap"
      /\ \/ fdtab' = fdtab
         \/ fdtab' = [fdtab EXCEPT ![sfd] = None] /\ sfd' = None
  BY DEF ReadRequest, Command, RefuseListener, CloseServed, Served
<1>3. UNCHANGED <<clients, cap, live, ofd, running, cpc>>
  BY <1>2 DEF vecvars, objvars
<1>4. sfd \in Fd /\ sobj = None
  BY <1>1, <1>2 DEF ServerInv, Serving, Making, Removing, TypeOK, ServerOK
<1>5. ServerOK'
  <2>1. 1 \in 1..MAXCLIENTS + 1
    OBVIOUS
  <2> QED  BY <1>1, <1>2, <2>1 DEF TypeOK, ServerOK, Serving
<1>6. TypeOK'
  BY <1>1, <1>2, <1>3, <1>5, Frames DEF TypeOK
<1>7. ServerInv'
  BY <1>1, <1>2, <1>3, <1>4 DEF ServerInv, Serving, Making, Removing
<1>8. VectorInv'
  BY <1>1, <1>2, <1>3, MovedOnVectorInv
<1>9. SocketOwned'
  <2>1. \A o \in Obj : live[o] => ofd[o] # None /\ ofd[o] # sfd
    BY <1>1, <1>4 DEF SocketOwned
  <2>2. \A o \in Obj : live[o] => fdtab'[ofd[o]] = fdtab[ofd[o]]
    BY <1>1, <1>2, <2>1 DEF SocketOwned, TypeOK
  <2> QED  BY <1>1, <1>2, <1>3, <2>1, <2>2 DEF SocketOwned
<1> QED  BY <1>1, <1>3, <1>6, <1>7, <1>8, <1>9, Frames DEF IInv

LEMMA NewClientIInv ==
  ASSUME IInv, NewClient
  PROVE  IInv'
<1>1. TypeOK /\ ServerInv /\ VectorInv /\ SocketOwned /\ ThreadInObject
  BY DEF IInv
<1>2. PICK o \in Obj : /\ ~live[o]
                      /\ live' = [live EXCEPT ![o] = TRUE]
                      /\ ofd' = [ofd EXCEPT ![o] = sfd]
                      /\ running' = [running EXCEPT ![o] = FALSE]
                      /\ cpc' = [cpc EXCEPT ![o] = "none"]
                      /\ sobj' = o
  BY DEF NewClient
<1>3. /\ spc = "LISTEN" /\ spc' = "push" /\ Len(clients) # MAXCLIENTS
      /\ UNCHANGED <<netvars, fdtab, sfd, sj, clients, cap, mainvars, alive>>
  BY DEF NewClient, vecvars
<1>4. sfd \in Fd /\ sfd # None /\ fdtab[sfd] # None /\ sobj = None
  BY <1>1, <1>3 DEF ServerInv, Serving, Making, Removing, TypeOK, ServerOK
<1>5. TypeOK'
  <2>1. ServerOK'
    BY <1>1, <1>2, <1>3 DEF TypeOK, ServerOK, Serving
  <2>2. ObjectsOK'
    BY <1>1, <1>2, <1>4 DEF TypeOK, ObjectsOK
  <2> QED  BY <1>1, <1>3, <2>1, <2>2, Frames DEF TypeOK
<1>6. ServerInv'
  <2>1. Len(clients) < MAXCLIENTS
    BY <1>1, <1>3, LenProperties DEF VectorInv, TypeOK
  <2>2. live'[o] /\ ofd'[o] = sfd
    BY <1>1, <1>2 DEF TypeOK, ObjectsOK
  <2> QED  BY <1>2, <1>3, <1>4, <2>1, <2>2 DEF ServerInv, Serving, Making, Removing
<1>7. VectorInv'
  <2>1. \A p \in Obj : live'[p] <=> live[p] \/ p = o
    BY <1>1, <1>2 DEF TypeOK, ObjectsOK
  <2>2. {p \in Obj : live'[p]} \ {o} = {p \in Obj : live[p]}
    BY <1>2, <2>1
  <2>3. Elems(clients) \subseteq Obj
    BY <1>1, ElementOfSeq DEF Elems, TypeOK
  <2>4. \A p \in Elems(clients) : live'[p]
    BY <1>1, <2>1, <2>3 DEF VectorInv
  <2>5. Kept' = clients /\ Kept = clients
    BY <1>3 DEF Kept
  <2> QED  BY <1>1, <1>2, <1>3, <2>2, <2>4, <2>5 DEF VectorInv
<1>8. SocketOwned'
  BY <1>1, <1>2, <1>3, <1>4 DEF SocketOwned, TypeOK, ObjectsOK
<1>9. ThreadInObject'
  BY <1>1, <1>2 DEF ThreadInObject, TypeOK, ObjectsOK
<1> QED  BY <1>5, <1>6, <1>7, <1>8, <1>9 DEF IInv

LEMMA PushIInv ==
  ASSUME IInv, PushBack \/ SwapBuffer
  PROVE  IInv'
<1>1. TypeOK /\ ServerInv /\ VectorInv /\ SocketOwned /\ ThreadInObject
  BY DEF IInv
<1>2. /\ spc \in {"push", "grow"} /\ spc' = "create"
      /\ clients' = Append(clients, sobj)
      /\ UNCHANGED <<netvars, fdtab, sfd, sj, sobj, objvars, mainvars, alive>>
      /\ UNCHANGED <<live, ofd, running, cpc>>
  BY DEF PushBack, SwapBuffer, objvars
<1>3. clients \in Seq(Obj) /\ Len(clients) \in Nat /\ cap \in Nat /\ Kept = clients
  BY <1>1, <1>2, LenProperties DEF TypeOK, Kept
<1>4. sobj \in Obj /\ live[sobj]
  BY <1>1, <1>2 DEF ServerInv, Making, Removing, TypeOK, ServerOK
<1>5. /\ Distinct(clients)
      /\ Elems(clients) = {o \in Obj : live[o]} \ {sobj}
  BY <1>1, <1>2, <1>3 DEF VectorInv
<1>6. /\ clients' \in Seq(Obj)
      /\ Len(clients') = Len(clients) + 1
      /\ Distinct(clients')
      /\ Elems(clients') = Elems(clients) \cup {sobj}
  BY <1>2, <1>3, <1>4, <1>5, AppendSound
<1>7. cap' \in Nat /\ Len(clients') <= cap'
  BY <1>1, <1>3, <1>6 DEF PushBack, SwapBuffer, VectorInv
<1>8. TypeOK'
  <2>1. ServerOK'
    BY <1>1, <1>2 DEF TypeOK, ServerOK, Serving
  <2> QED  BY <1>1, <1>2, <1>6, <1>7, <2>1, Frames DEF TypeOK
<1>9. ServerInv'
  BY <1>1, <1>2 DEF ServerInv, Serving, Making, Removing
<1>10. VectorInv'
  <2>1. Len(clients') <= MAXCLIENTS
    BY <1>1, <1>2, <1>3, <1>6 DEF ServerInv
  <2>2. Elems(clients') = {o \in Obj : live[o]}
    BY <1>4, <1>5, <1>6
  <2>3. Kept' = clients'
    BY <1>2 DEF Kept
  <2> QED  BY <1>2, <1>6, <1>7, <2>1, <2>2, <2>3 DEF VectorInv
<1> QED  BY <1>1, <1>2, <1>8, <1>9, <1>10, Frames DEF IInv

LEMMA ThreadIInv ==
  ASSUME IInv, CreateThread \/ SetRunning
  PROVE  IInv'
<1>1. TypeOK /\ ServerInv /\ VectorInv /\ SocketOwned /\ ThreadInObject
  BY DEF IInv
<1>2. sobj \in Obj /\ live[sobj] /\ ofd[sobj] = sfd /\ sfd \in Fd /\ sfd # None
  BY <1>1 DEF CreateThread, SetRunning, ServerInv, Serving, Making, Removing, TypeOK, ServerOK
<1>3. /\ UNCHANGED <<netvars, fdtab, clients, cap, live, ofd, mainvars, alive>>
      /\ \/ /\ spc = "create" /\ spc' = "setrunning"
            /\ cpc' = [cpc EXCEPT ![sobj] = "recv"]
            /\ UNCHANGED <<sfd, sj, sobj, running>>
         \/ /\ spc = "setrunning" /\ spc' = "reap"
            /\ running' = [running EXCEPT ![sobj] = TRUE]
            /\ sj' = 1 /\ sfd' = None /\ sobj' = None
            /\ UNCHANGED cpc
  BY DEF CreateThread, SetRunning, vecvars
<1>4. TypeOK'
  <2>1. 1 \in 1..MAXCLIENTS + 1
    OBVIOUS
  <2>2. ServerOK'
    BY <1>1, <1>3, <2>1 DEF TypeOK, ServerOK, Serving
  <2>3. ObjectsOK'
    BY <1>1, <1>2, <1>3 DEF TypeOK, ObjectsOK
  <2> QED  BY <1>1, <1>3, <2>2, <2>3, Frames DEF TypeOK
<1>5. ServerInv'
  BY <1>1, <1>2, <1>3 DEF ServerInv, Serving, Making, Removing
<1>6. VectorInv'
  BY <1>1, <1>3, MovedOnVectorInv DEF vecvars
<1>7. SocketOwned'
  BY <1>1, <1>2, <1>3 DEF SocketOwned
<1>8. ThreadInObject'
  BY <1>1, <1>2, <1>3 DEF ThreadInObject, TypeOK, ObjectsOK
<1> QED  BY <1>4, <1>5, <1>6, <1>7, <1>8 DEF IInv

LEMMA EraseIInv ==
  ASSUME IInv, EraseMove \/ EraseShrink
  PROVE  IInv'
<1>1. TypeOK /\ ServerInv /\ VectorInv /\ SocketOwned /\ ThreadInObject
  BY DEF IInv
<1>2. /\ \/ spc = "move" /\ spc' = "shrink" /\ clients' = MovedDown(clients, sj)
         \/ spc = "shrink" /\ spc' = "delete" /\ clients' = Shrunk(clients)
      /\ reaped' = TRUE
      /\ UNCHANGED <<netvars, fdtab, sfd, sj, sobj, cap, objvars, mpc, mi, mptr,
                     reading, audience, alive>>
      /\ UNCHANGED <<live, ofd, running, cpc>>
  BY DEF EraseMove, EraseShrink, objvars
<1>3. clients \in Seq(Obj) /\ Len(clients) \in Nat /\ cap \in Nat
  BY <1>1, LenProperties DEF TypeOK
<1>4. sobj \in Obj /\ live[sobj] /\ sfd = None
  BY <1>1, <1>2 DEF ServerInv, Serving, Making, Removing, TypeOK, ServerOK
<1>5. /\ clients' \in Seq(Obj)
      /\ Len(clients') <= Len(clients)
      /\ spc' = "shrink" => Len(clients') > 0
      /\ Elems(clients') \subseteq Elems(clients)
      /\ Distinct(Kept')
      /\ Elems(Kept') = {o \in Obj : live[o]} \ {sobj}
  <2>1. CASE spc = "move"
    <3>1. /\ sj \in 1..Len(clients) /\ clients[sj] = sobj /\ Kept = clients
          /\ Distinct(clients) /\ Elems(clients) = {o \in Obj : live[o]}
      BY <1>1, <1>3, <2>1 DEF ServerInv, VectorInv, Kept, TypeOK, ServerOK
    <3>2. /\ clients' = MovedDown(clients, sj)
          /\ Kept' = Shrunk(MovedDown(clients, sj))
      BY <1>2, <2>1 DEF Kept
    <3>3. /\ clients' \in Seq(Obj) /\ Len(clients') = Len(clients)
          /\ Distinct(Kept') /\ Elems(Kept') = Elems(clients) \ {clients[sj]}
      BY <1>3, <3>1, <3>2, EraseSound
    <3>4. ASSUME NEW i \in 1..Len(clients)
          PROVE  clients'[i] \in Elems(clients)
      <4>1. clients'[i] = clients[i] \/ (i + 1 \in 1..Len(clients) /\ clients'[i] = clients[i + 1])
        BY <1>3, <3>2 DEF MovedDown
      <4> QED  BY <4>1 DEF Elems
    <3>5. Elems(clients') \subseteq Elems(clients)
      BY <3>3, <3>4 DEF Elems
    <3> QED  BY <1>3, <3>1, <3>3, <3>5
  <2>2. CASE spc = "shrink"
    <3>1. /\ Kept = Shrunk(clients) /\ Len(clients) > 0 /\ Distinct(Kept)
          /\ Elems(Kept) = {o \in Obj : live[o]} \ {sobj}
      BY <1>1, <2>2 DEF VectorInv, Kept
    <3>2. clients' = Shrunk(clients) /\ Kept' = clients' /\ spc' = "delete"
      BY <1>2, <2>2 DEF Kept
    <3>3. /\ clients' \in Seq(Obj) /\ Len(clients') = Len(clients) - 1
          /\ \A i \in 1..Len(clients') : clients'[i] = clients[i]
      <4> DEFINE n == Len(clients) - 1
      <4>1. n \in Nat /\ 1 \in 1..n + 1 /\ n \in 0..Len(clients)
        BY <1>3, <3>1
      <4>2. clients' = SubSeq(clients, 1, n)
        BY <3>2 DEF Shrunk
      <4> HIDE DEF n
      <4>3. /\ SubSeq(clients, 1, n) \in Seq(Obj) /\ Len(SubSeq(clients, 1, n)) = n
            /\ \A i \in 1..n : SubSeq(clients, 1, n)[i] = clients[i]
        BY <1>3, <4>1, SubSeqProperties
      <4> QED  BY <4>2, <4>3 DEF n
    <3>4. Elems(clients') \subseteq Elems(clients)
      BY <1>3, <3>3 DEF Elems
    <3> QED  BY <1>3, <3>1, <3>2, <3>3, <3>4
  <2> QED  BY <1>2, <2>1, <2>2
<1>6. TypeOK'
  <2>1. ServerOK' /\ MainOK'
    BY <1>1, <1>2 DEF TypeOK, ServerOK, MainOK, Serving
  <2> QED  BY <1>1, <1>2, <1>3, <1>5, <2>1, Frames DEF TypeOK
<1>7. ServerInv'
  BY <1>1, <1>2, <1>4 DEF ServerInv, Serving, Making, Removing
<1>8. VectorInv'
  <2>1. Len(clients') \in Nat
    BY <1>5, LenProperties
  <2>2. Len(clients') <= MAXCLIENTS /\ Len(clients') <= cap'
    BY <1>1, <1>2, <1>3, <1>5, <2>1 DEF VectorInv
  <2>3. \A o \in Elems(clients') : live'[o]
    BY <1>1, <1>2, <1>5 DEF VectorInv
  <2> QED  BY <1>2, <1>5, <2>2, <2>3 DEF VectorInv
<1> QED  BY <1>1, <1>2, <1>6, <1>7, <1>8, Frames DEF IInv

LEMMA DeleteIInv ==
  ASSUME IInv, DeleteClient
  PROVE  IInv'
<1>1. TypeOK /\ ServerInv /\ VectorInv /\ SocketOwned /\ ThreadInObject
  BY DEF IInv
<1>2. /\ spc = "delete" /\ spc' = "reap" /\ sobj' = None
      /\ fdtab' = [fdtab EXCEPT ![ofd[sobj]] = None]
      /\ live' = [live EXCEPT ![sobj] = FALSE]
      /\ UNCHANGED <<netvars, sfd, sj, clients, cap, ofd, running, cpc, mainvars, alive>>
  BY DEF DeleteClient, vecvars
<1>3. sobj \in Obj /\ live[sobj] /\ sfd = None /\ cpc[sobj] = "done" /\ ofd[sobj] \in Fd
  BY <1>1, <1>2 DEF ServerInv, Serving, Making, Removing, TypeOK, ServerOK, SocketOwned
<1>4. \A o \in Obj : live'[o] <=> live[o] /\ o # sobj
  BY <1>1, <1>2 DEF TypeOK, ObjectsOK
<1>5. TypeOK'
  <2>1. ServerOK'
    BY <1>1, <1>2 DEF TypeOK, ServerOK, Serving
  <2>2. ObjectsOK'
    BY <1>1, <1>2 DEF TypeOK, ObjectsOK
  <2>3. fdtab' \in [Fd -> Conn \cup {None}]
    BY <1>1, <1>2 DEF TypeOK
  <2> QED  BY <1>1, <1>2, <2>1, <2>2, <2>3, Frames DEF TypeOK
<1>6. ServerInv'
  BY <1>1, <1>2, <1>3 DEF ServerInv, Serving, Making, Removing
<1>7. VectorInv'
  <2>1. Kept = clients /\ Kept' = clients
    BY <1>2 DEF Kept
  <2>2. Elems(clients) = {o \in Obj : live[o]} \ {sobj} /\ Distinct(clients)
    BY <1>1, <1>2, <2>1 DEF VectorInv
  <2>3. Elems(clients) = {o \in Obj : live'[o]}
    BY <1>4, <2>2
  <2>4. \A o \in Elems(clients) : live'[o]
    BY <2>3
  <2> QED  BY <1>1, <1>2, <2>1, <2>2, <2>3, <2>4 DEF VectorInv
<1>8. SocketOwned'
  BY <1>1, <1>2, <1>3, <1>4 DEF SocketOwned, TypeOK
<1>9. ThreadInObject'
  BY <1>1, <1>2, <1>3, <1>4 DEF ThreadInObject
<1> QED  BY <1>5, <1>6, <1>7, <1>8, <1>9 DEF IInv

-----------------------------------------------------------------------------

LEMMA StepIInv == IInv /\ [Next]_vars => IInv'
<1> SUFFICES ASSUME IInv, [Next]_vars PROVE IInv'
  OBVIOUS
<1>1. CASE \E k \in Conn : Process(k)
  BY <1>1, ProcessIInv
<1>2. CASE ServerThread
  BY <1>2, AcceptIInv, MoveOnIInv, EndRequestIInv, NewClientIInv, PushIInv, ThreadIInv,
     EraseIInv, DeleteIInv DEF ServerThread, ServeRequest, Reap
<1>3. CASE \E o \in Obj : ClientThread(o)
  BY <1>3, ClientIInv
<1>4. CASE MainThread
  BY <1>4, MainIInv
<1>5. CASE UNCHANGED vars
  BY <1>5, Frames, UntouchedIInv DEF vars, IInv, TypeOK, Untouched
<1> QED  BY <1>1, <1>2, <1>3, <1>4, <1>5 DEF Next, Gone

\* What each part of the server thread knows at each of its steps is an
\* invariant of okcounterd.
THEOREM InductiveInvariant == Spec => []IInv
<1>1. Init => IInv
  BY InitIInv
<1>2. IInv /\ [Next]_vars => IInv'
  BY StepIInv
<1> QED  BY <1>1, <1>2, PTL DEF Spec

\* Every variable keeps its type: main's index and pointer, the server's locals,
\* the Client objects and the descriptor table.
THEOREM TypeCorrect == Spec => []TypeOK
<1>1. IInv => TypeOK
  BY DEF IInv
<1> QED  BY <1>1, InductiveInvariant, PTL

\* A Client's descriptor is open, and is nobody else's, for as long as the
\* Client exists (~Client is the only place that closes it).
THEOREM SocketsOwned == Spec => []SocketOwned
<1>1. IInv => SocketOwned
  BY DEF IInv
<1> QED  BY <1>1, InductiveInvariant, PTL

\* What a step does to the socket of a Client that exists before and after.
LEMMA SocketStep ==
  ASSUME IInv, [Next]_vars, NEW o \in Obj, live[o], live'[o]
  PROVE  ofd'[o] = ofd[o] /\ fdtab'[ofd[o]] = fdtab[ofd[o]]
<1>1. /\ TypeOK /\ ServerInv /\ SocketOwned
      /\ ofd[o] \in Fd /\ fdtab[ofd[o]] # None
  BY DEF IInv, SocketOwned
<1>2. CASE UNCHANGED <<fdtab, ofd>>
  BY <1>2
<1>3. CASE Accept
  <2>1. PICK f \in Fd : fdtab[f] = None /\ fdtab' = [fdtab EXCEPT ![f] = Head(backlog)]
    BY <1>3 DEF Accept, IsLowestFree, FreeFds
  <2> QED  BY <1>1, <1>3, <2>1 DEF Accept, TypeOK, objvars
<1>4. CASE spc \in {"read", "LISTEN", "command"} /\ CloseServed
  <2>1. sfd \in Fd /\ sfd # ofd[o]
    BY <1>1, <1>4 DEF ServerInv, Serving, Making, Removing, SocketOwned, TypeOK, ServerOK
  <2> QED  BY <1>1, <1>4, <2>1 DEF CloseServed, TypeOK, objvars
<1>5. CASE NewClient
  BY <1>1, <1>5 DEF NewClient, TypeOK, ObjectsOK
<1>6. CASE DeleteClient
  <2>1. sobj \in Obj /\ live[sobj]
    BY <1>1, <1>6 DEF DeleteClient, ServerInv, Making, Removing, TypeOK, ServerOK
  <2>2. o # sobj /\ ofd[o] # ofd[sobj]
    BY <1>1, <1>6, <2>1 DEF DeleteClient, TypeOK, ObjectsOK, SocketOwned
  <2> QED  BY <1>1, <1>6, <2>2 DEF DeleteClient, TypeOK
<1>7. \/ UNCHANGED <<fdtab, ofd>> \/ Accept \/ NewClient \/ DeleteClient
      \/ spc \in {"read", "LISTEN", "command"} /\ CloseServed
  <2>1. CASE ServerThread
    BY <2>1 DEF ServerThread, ServeRequest, Reap, NoAccept, ReadRequest, Command,
                RefuseListener, PushBack, Reallocate, SwapBuffer, CreateThread,
                SetRunning, ReapNext, Join, EraseMove, EraseShrink, objvars
  <2>2. CASE \E k \in Conn : Process(k)
    BY <2>2 DEF Process, Connect, Send, ReadLine, Close, objvars
  <2>3. CASE \E p \in Obj : ClientThread(p)
    BY <2>3 DEF ClientThread, RecvEOF, Finish, ThreadExit
  <2>4. CASE MainThread
    BY <2>4 DEF MainThread, Trigger, LoopTest, At, AtThrows, AtFreedBuffer,
                WriteReading, WriteFails, WriteSigPipe, objvars
  <2> QED  BY <2>1, <2>2, <2>3, <2>4 DEF Next, Gone, vars, objvars
<1> QED  BY <1>2, <1>3, <1>4, <1>5, <1>6, <1>7

\* No step makes the descriptor of a living Client mean another connection.
THEOREM SocketsKept == Spec => SocketKept
<1>1. IInv /\ [Next]_vars
        => [\A o \in Obj : live[o] /\ live'[o] =>
              ofd'[o] = ofd[o] /\ fdtab'[ofd[o]] = fdtab[ofd[o]]]_vars
  BY SocketStep
<1> QED  BY <1>1, InductiveInvariant, PTL DEF Spec, SocketKept

\* Server::clients holds exactly the Clients that exist, each once, and at most
\* MAXCLIENTS of them.
THEOREM VectorsSound == Spec => []VectorSound
<1>1. IInv => VectorSound
  BY DEF IInv, VectorInv, VectorSound, Kept
<1> QED  BY <1>1, InductiveInvariant, PTL

\* No thread runs in a Client that has been deleted.
THEOREM ThreadsInObjects == Spec => []ThreadInObject
<1>1. IInv => ThreadInObject
  BY DEF IInv
<1> QED  BY <1>1, InductiveInvariant, PTL

-----------------------------------------------------------------------------
(* Connections.  Each is in one place: not made yet, waiting to be accepted, *)
(* or behind one descriptor; a thread that has seen its process leave means  *)
(* that it has; and a descriptor of nobody is of a process that will never   *)
(* be answered.                                                              *)

Of(o) == fdtab[ofd[o]]
Queued(k) == k \in Elems(backlog)

Lost(k) == said[k] = "other" \/ (said[k] = "nothing" /\ peer[k] = "closed")

ConnInv ==
  /\ Distinct(backlog)
  /\ \A k \in Conn : peer[k] = "idle" => ~Queued(k)
  /\ \A k \in Conn : Queued(k) \/ peer[k] = "idle" => \A f \in Fd : fdtab[f] # k
  /\ \A f, g \in Fd : fdtab[f] # None /\ fdtab[f] = fdtab[g] => f = g
  /\ \A o \in Obj : live[o] /\ cpc[o] \in {"finish", "exit", "done"} => peer[Of(o)] = "closed"
  /\ \A f \in Fd : fdtab[f] # None =>
       f = sfd \/ (\E o \in Obj : live[o] /\ ofd[o] = f) \/ Lost(fdtab[f])

LEMMA InitConnInv == Init => ConnInv
BY DEF Init, ConnInv, Distinct, Elems, Queued

LEMMA SameConnInv ==
  ASSUME ConnInv, UNCHANGED <<peer, said, backlog, fdtab, sfd, live, ofd, cpc>>
  PROVE  ConnInv'
BY DEF ConnInv, Queued, Of, Lost

\* The waiting connections without the first, and with another.
LEMMA QueueHead ==
  ASSUME NEW S, NEW q \in Seq(S), q # <<>>, Distinct(q)
  PROVE  /\ Head(q) \in S /\ Tail(q) \in Seq(S) /\ Distinct(Tail(q))
         /\ Elems(Tail(q)) = Elems(q) \ {Head(q)} /\ Head(q) \in Elems(q)
<1>1. /\ Len(q) \in Nat \ {0} /\ Head(q) = q[1] /\ q[1] \in S
      /\ Tail(q) \in Seq(S) /\ Len(Tail(q)) = Len(q) - 1
      /\ \A i \in 1..Len(q) - 1 : Tail(q)[i] = q[i + 1]
  BY HeadTailProperties, LenProperties, EmptySeq, ElementOfSeq
<1>2. Distinct(Tail(q))
  BY <1>1 DEF Distinct
<1>3. \A i \in 1..Len(q) - 1 : Tail(q)[i] \in Elems(q) \ {Head(q)}
  BY <1>1 DEF Distinct, Elems
<1>4. ASSUME NEW i \in 1..Len(q), q[i] # Head(q)
      PROVE  q[i] \in Elems(Tail(q))
  <2>1. i - 1 \in 1..Len(Tail(q)) /\ Tail(q)[i - 1] = q[i]
    BY <1>1, <1>4
  <2> QED  BY <2>1 DEF Elems
<1>5. Elems(Tail(q)) \subseteq Elems(q) \ {Head(q)}
  BY <1>1, <1>3 DEF Elems
<1>6. Elems(q) \ {Head(q)} \subseteq Elems(Tail(q))
  BY <1>4 DEF Elems
<1>7. Head(q) \in Elems(q)
  BY <1>1 DEF Elems
<1> QED  BY <1>1, <1>2, <1>5, <1>6, <1>7

LEMMA ConnectConnInv ==
  ASSUME IInv, ConnInv, NEW k \in Conn, Connect(k)
  PROVE  ConnInv' /\ Elems(backlog') = Elems(backlog) \cup {k}
<1>1. /\ peer[k] = "idle" /\ peer' = [peer EXCEPT ![k] = "open"] /\ backlog' = Append(backlog, k)
      /\ UNCHANGED <<said, fdtab, sfd, live, ofd, cpc>>
  BY DEF Connect, servervars, objvars
<1>2. peer \in [Conn -> {"idle", "open", "closed"}] /\ backlog \in Seq(Conn) /\ fdtab \in [Fd -> Conn \cup {None}]
  BY DEF IInv, TypeOK, NetOK
<1>3. ~Queued(k) /\ \A f \in Fd : fdtab[f] # k
  BY <1>1 DEF ConnInv
<1>4. Distinct(backlog') /\ Elems(backlog') = Elems(backlog) \cup {k}
  BY <1>1, <1>2, <1>3, AppendSound DEF ConnInv, Queued
<1>5. ConnInv'
  <2>1. \A j \in Conn : peer'[j] = "idle" => ~Queued(j)'
    BY <1>1, <1>2, <1>4 DEF ConnInv, Queued
  <2>2. \A j \in Conn : Queued(j)' \/ peer'[j] = "idle" => \A f \in Fd : fdtab'[f] # j
    BY <1>1, <1>2, <1>3, <1>4 DEF ConnInv, Queued
  <2>3. \A o \in Obj : live'[o] /\ cpc'[o] \in {"finish", "exit", "done"} => peer'[Of(o)'] = "closed"
    <3>1. \A o \in Obj : live[o] => Of(o) \in Conn /\ Of(o) # k
      BY <1>2, <1>3 DEF IInv, SocketOwned, Of
    <3> QED  BY <1>1, <1>2, <3>1 DEF ConnInv, Of
  <2>4. \A f \in Fd : fdtab'[f] # None =>
          f = sfd' \/ (\E o \in Obj : live'[o] /\ ofd'[o] = f) \/ Lost(fdtab[f])'
    BY <1>1, <1>2, <1>3 DEF ConnInv, Lost
  <2> QED  BY <1>1, <1>4, <2>1, <2>2, <2>3, <2>4 DEF ConnInv
<1> QED  BY <1>4, <1>5

LEMMA ProcessConnInv ==
  ASSUME IInv, ConnInv, NEW k \in Conn, Process(k)
  PROVE  ConnInv'
<1>1. peer \in [Conn -> {"idle", "open", "closed"}] /\ fdtab \in [Fd -> Conn \cup {None}]
      /\ said \in [Conn -> Requests \cup {"nothing"}]
  BY DEF IInv, TypeOK, NetOK
<1>2. CASE Connect(k)
  BY <1>2, ConnectConnInv
<1>3. CASE \E req \in Requests : Send(k, req)
  <2>1. PICK req \in Requests : said' = [said EXCEPT ![k] = req]
    BY <1>3 DEF Send
  <2>2. /\ peer[k] = "open" /\ said[k] = "nothing"
        /\ UNCHANGED <<peer, backlog, fdtab, sfd, live, ofd, cpc>>
    BY <1>3 DEF Send, servervars, objvars
  <2>3. \A f \in Fd : fdtab[f] # None /\ Lost(fdtab[f]) => Lost(fdtab[f])'
    BY <1>1, <2>1, <2>2 DEF Lost
  <2> QED  BY <2>2, <2>3 DEF ConnInv, Queued, Of
<1>4. CASE ReadLine(k)
  BY <1>4, SameConnInv DEF ReadLine, servervars, objvars
<1>5. CASE Close(k)
  <2>1. /\ peer[k] = "open" /\ peer' = [peer EXCEPT ![k] = "closed"]
        /\ UNCHANGED <<said, backlog, fdtab, sfd, live, ofd, cpc>>
    BY <1>5 DEF Close, servervars, objvars
  <2>2. \A j \in Conn : /\ peer'[j] = "idle" <=> peer[j] = "idle"
                        /\ peer[j] = "closed" => peer'[j] = "closed"
    BY <1>1, <2>1
  <2>3. \A o \in Obj : live[o] => Of(o) \in Conn
    BY <1>1 DEF IInv, SocketOwned, Of
  <2>4. \A f \in Fd : fdtab[f] # None /\ Lost(fdtab[f]) => Lost(fdtab[f])'
    BY <1>1, <2>1, <2>2 DEF Lost
  <2> QED  BY <2>1, <2>2, <2>3, <2>4 DEF ConnInv, Queued, Of
<1> QED  BY <1>2, <1>3, <1>4, <1>5 DEF Process

LEMMA AcceptConnInv ==
  ASSUME IInv, ConnInv, Accept
  PROVE  ConnInv'
<1>1. PICK f \in Fd : fdtab[f] = None /\ fdtab' = [fdtab EXCEPT ![f] = Head(backlog)] /\ sfd' = f
  BY DEF Accept, IsLowestFree, FreeFds
<1>2. /\ backlog # <<>> /\ backlog' = Tail(backlog) /\ spc = "select"
      /\ UNCHANGED <<peer, said, live, ofd, cpc>>
  BY DEF Accept, objvars
<1> DEFINE k == Head(backlog)
<1>3. backlog \in Seq(Conn) /\ fdtab \in [Fd -> Conn \cup {None}] /\ sfd = None
  BY <1>2 DEF IInv, TypeOK, NetOK, ServerInv, Serving
<1>4. /\ k \in Conn /\ Distinct(backlog') /\ Elems(backlog') = Elems(backlog) \ {k} /\ Queued(k)
  BY <1>2, <1>3, QueueHead DEF ConnInv, Queued
<1> HIDE DEF k
<1>5. /\ \A g \in Fd : g # f => fdtab'[g] = fdtab[g]
      /\ fdtab'[f] = k /\ \A g \in Fd : fdtab[g] # k
  BY <1>1, <1>3, <1>4 DEF ConnInv, k
<1>6. peer[k] # "idle"
  BY <1>4 DEF ConnInv
<1>7. \A j \in Conn : Queued(j)' \/ peer'[j] = "idle" => \A g \in Fd : fdtab'[g] # j
  BY <1>2, <1>4, <1>5, <1>6 DEF ConnInv, Queued
<1>8. \A o \in Obj : live[o] => ofd[o] \in Fd /\ ofd[o] # f /\ Of(o)' = Of(o)
  BY <1>1, <1>2, <1>5 DEF IInv, SocketOwned, Of
<1>9. \A g \in Fd : fdtab'[g] # None =>
        g = sfd' \/ (\E o \in Obj : live'[o] /\ ofd'[o] = g) \/ Lost(fdtab[g])'
  BY <1>1, <1>2, <1>3, <1>5 DEF ConnInv, Lost
<1> QED  BY <1>2, <1>4, <1>5, <1>7, <1>8, <1>9 DEF ConnInv, Queued

\* The connection that is served is closed, or forgotten.
LEMMA EndRequestConnInv ==
  ASSUME IInv, ConnInv, ReadRequest \/ Command \/ RefuseListener
  PROVE  ConnInv'
<1>1. UNCHANGED <<peer, said, backlog, live, ofd, cpc>>
  BY DEF ReadRequest, Command, RefuseListener, CloseServed, netvars, objvars
<1>2. sfd \in Fd /\ fdtab[sfd] # None /\ fdtab \in [Fd -> Conn \cup {None}]
  BY DEF ReadRequest, Command, RefuseListener, IInv, TypeOK, ServerInv, ServerOK, Serving
<1>3. CASE ReadRequest
  <2>1. fdtab' = fdtab /\ (sfd' = sfd \/ Lost(fdtab[sfd]))
    BY <1>3 DEF ReadRequest, Served, Lost
  <2>2. \A g \in Fd : fdtab'[g] # None =>
          g = sfd' \/ (\E o \in Obj : live'[o] /\ ofd'[o] = g) \/ Lost(fdtab[g])'
    BY <1>1, <2>1 DEF ConnInv, Lost
  <2> QED  BY <1>1, <2>1, <2>2 DEF ConnInv, Queued, Of
<1>4. CASE Command \/ RefuseListener
  <2>1. fdtab' = [fdtab EXCEPT ![sfd] = None]
    BY <1>4 DEF Command, RefuseListener, CloseServed
  <2>2. \A g \in Fd : fdtab'[g] = IF g = sfd THEN None ELSE fdtab[g]
    BY <1>2, <2>1
  <2>3. sobj = None
    BY <1>4 DEF Command, RefuseListener, IInv, ServerInv, Making, Removing
  <2>4. \A o \in Obj : live[o] => ofd[o] \in Fd /\ ofd[o] # sfd
    BY <1>2, <2>3 DEF IInv, SocketOwned
  <2>5. \A g \in Fd : fdtab'[g] # None =>
          g = sfd' \/ (\E o \in Obj : live'[o] /\ ofd'[o] = g) \/ Lost(fdtab[g])'
    BY <1>1, <2>2 DEF ConnInv, Lost
  <2>6. \A o \in Obj : live[o] => Of(o)' = Of(o)
    BY <1>1, <2>2, <2>4 DEF Of
  <2> QED  BY <1>1, <2>2, <2>5, <2>6 DEF ConnInv, Queued
<1> QED  BY <1>3, <1>4

LEMMA NewClientConnInv ==
  ASSUME IInv, ConnInv, NewClient
  PROVE  ConnInv'
<1>1. PICK o \in Obj : /\ ~live[o]
                      /\ live' = [live EXCEPT ![o] = TRUE]
                      /\ ofd' = [ofd EXCEPT ![o] = sfd]
                      /\ cpc' = [cpc EXCEPT ![o] = "none"]
  BY DEF NewClient
<1>2. UNCHANGED <<peer, said, backlog, fdtab, sfd>>
  BY DEF NewClient, netvars
<1>3. \A p \in Obj : /\ live'[p] <=> live[p] \/ p = o
                     /\ p # o => ofd'[p] = ofd[p] /\ cpc'[p] = cpc[p]
                     /\ cpc'[o] = "none"
  BY <1>1 DEF IInv, TypeOK, ObjectsOK
<1> QED  BY <1>1, <1>2, <1>3 DEF ConnInv, Queued, Of, Lost

LEMMA DeleteConnInv ==
  ASSUME IInv, ConnInv, DeleteClient
  PROVE  ConnInv'
<1>1. /\ fdtab' = [fdtab EXCEPT ![ofd[sobj]] = None]
      /\ live' = [live EXCEPT ![sobj] = FALSE]
      /\ UNCHANGED <<peer, said, backlog, sfd, ofd, cpc>>
  BY DEF DeleteClient, netvars
<1>2. sobj \in Obj /\ live[sobj] /\ ofd[sobj] \in Fd
  BY DEF DeleteClient, IInv, ServerInv, Making, Removing, TypeOK, ServerOK, SocketOwned
<1>3. /\ \A g \in Fd : fdtab'[g] = IF g = ofd[sobj] THEN None ELSE fdtab[g]
      /\ \A o \in Obj : live'[o] <=> live[o] /\ o # sobj
  BY <1>1, <1>2 DEF IInv, TypeOK, ObjectsOK
<1>4. \A o \in Obj : live'[o] => ofd[o] \in Fd /\ ofd[o] # ofd[sobj] /\ Of(o)' = Of(o)
  BY <1>1, <1>2, <1>3 DEF IInv, SocketOwned, Of
<1>5. \A g \in Fd : fdtab'[g] # None =>
        g = sfd' \/ (\E o \in Obj : live'[o] /\ ofd'[o] = g) \/ Lost(fdtab[g])'
  BY <1>1, <1>3 DEF ConnInv, Lost
<1> QED  BY <1>1, <1>3, <1>4, <1>5 DEF ConnInv, Queued

LEMMA ThreadConnInv ==
  ASSUME IInv, ConnInv, CreateThread \/ SetRunning
  PROVE  ConnInv'
<1>1. UNCHANGED <<peer, said, backlog, fdtab, live, ofd>>
  BY DEF CreateThread, SetRunning, netvars
<1>2. sobj \in Obj /\ live[sobj] /\ ofd[sobj] = sfd
  BY DEF CreateThread, SetRunning, IInv, ServerInv, Making, Removing, TypeOK, ServerOK
<1>3. CASE CreateThread
  <2>1. sfd' = sfd /\ \A o \in Obj : cpc'[o] = IF o = sobj THEN "recv" ELSE cpc[o]
    BY <1>2, <1>3 DEF CreateThread, IInv, TypeOK, ObjectsOK
  <2> QED  BY <1>1, <2>1 DEF ConnInv, Queued, Of, Lost
<1>4. CASE SetRunning
  <2>1. cpc' = cpc
    BY <1>4 DEF SetRunning
  <2> QED  BY <1>1, <1>2, <2>1 DEF ConnInv, Queued, Of, Lost
<1> QED  BY <1>3, <1>4

LEMMA ClientConnInv ==
  ASSUME IInv, ConnInv, NEW o \in Obj, ClientThread(o)
  PROVE  ConnInv'
<1>1. UNCHANGED <<peer, said, backlog, fdtab, sfd, live, ofd>>
  BY DEF ClientThread, RecvEOF, Finish, ThreadExit, netvars, servervars
<1>2. live[o] /\ Of(o) # None
  BY DEF ClientThread, RecvEOF, Finish, ThreadExit, IInv, ThreadInObject, SocketOwned, Of
<1>3. peer[Of(o)] = "closed"
  BY <1>2 DEF ClientThread, RecvEOF, Finish, ThreadExit, Of, ConnInv
<1>4. \A p \in Obj : p # o => cpc'[p] = cpc[p]
  BY DEF ClientThread, RecvEOF, Finish, ThreadExit, IInv, TypeOK, ObjectsOK
<1> QED  BY <1>1, <1>3, <1>4 DEF ConnInv, Queued, Of, Lost

LEMMA StepConnInv == IInv /\ ConnInv /\ [Next]_vars => ConnInv'
<1> SUFFICES ASSUME IInv, ConnInv, [Next]_vars PROVE ConnInv'
  OBVIOUS
<1>1. CASE \E k \in Conn : Process(k)
  BY <1>1, ProcessConnInv
<1>2. CASE \E o \in Obj : ClientThread(o)
  BY <1>2, ClientConnInv
<1>3. CASE MainThread
  BY <1>3, SameConnInv DEF MainThread, Trigger, LoopTest, At, AtThrows, AtFreedBuffer,
     WriteReading, WriteFails, WriteSigPipe, netvars, servervars, objvars
<1>4. CASE NoAccept \/ ReapNext \/ Join \/ Reallocate \/ PushBack \/ SwapBuffer \/ EraseMove \/ EraseShrink
  BY <1>4, SameConnInv DEF NoAccept, ReapNext, Join, Reallocate, PushBack, SwapBuffer,
     EraseMove, EraseShrink, netvars, objvars
<1>5. CASE UNCHANGED vars
  BY <1>5, SameConnInv DEF vars, netvars, servervars, objvars
<1> QED  BY <1>1, <1>2, <1>3, <1>4, <1>5, AcceptConnInv, EndRequestConnInv, NewClientConnInv,
            DeleteConnInv, ThreadConnInv DEF Next, Gone, ServerThread, ServeRequest, Reap

-----------------------------------------------------------------------------
(* Refinement: what each step is in the life of a connection.               *)

\* okcounterd is between requests, or about to accept or to register.
Pushing(o) == o = sobj /\ spc \in {"push", "grow"}
Serves(k)  == sfd # None /\ fdtab[sfd] = k
Behind(k)  == \E f \in Fd \ {sfd} : fdtab[f] = k

LEMMA SameState ==
  ASSUME NEW k, peer'[k] = peer[k], Queued(k)' = Queued(k), Held(k)' = Held(k),
         Serves(k)' = Serves(k), Behind(k)' = Behind(k)
  PROVE  ConnState(k)' = ConnState(k)
<1>1. (\E i \in 1..Len(backlog) : backlog[i] = k) <=> Queued(k)
  BY DEF Queued, Elems
<1>2. (\E i \in 1..Len(backlog') : backlog'[i] = k) <=> Queued(k)'
  BY DEF Queued, Elems
<1> QED  BY <1>1, <1>2 DEF ConnState, Serves, Behind

\* What ConnState says, arm by arm, of a connection that is in one place.
InPlace(k) ==
  /\ peer[k] \in {"idle", "open", "closed"}
  /\ peer[k] = "idle" => ConnState(k) = "idle"
  /\ Queued(k) => ConnState(k) = "queued"
  /\ Held(k) => peer[k] # "idle" /\ ~Queued(k)
  /\ Held(k) /\ peer[k] = "open" => ConnState(k) = "listening"
  /\ Held(k) /\ peer[k] = "closed" => ConnState(k) = "left"
  /\ ~Held(k) /\ Serves(k) => ConnState(k) = "serving"
  /\ ~Held(k) /\ ~Serves(k) /\ Behind(k) => ConnState(k) = "abandoned"
  /\ peer[k] # "idle" /\ ~Queued(k) /\ ~Held(k) /\ ~Serves(k) /\ ~Behind(k)
       => ConnState(k) = "closed"

LEMMA StateOf == IInv /\ ConnInv => \A k \in Conn : InPlace(k)
<1> SUFFICES ASSUME IInv, ConnInv, NEW k \in Conn PROVE InPlace(k)
  OBVIOUS
<1>1. (\E i \in 1..Len(backlog) : backlog[i] = k) <=> Queued(k)
  BY DEF Queued, Elems
<1>2. peer[k] \in {"idle", "open", "closed"} /\ (peer[k] = "idle" => ~Queued(k))
  BY DEF IInv, TypeOK, NetOK, ConnInv
<1>3. Held(k) \/ Serves(k) \/ Behind(k) => \E f \in Fd : fdtab[f] = k
  BY DEF Held, Serves, Behind, IInv, SocketOwned, TypeOK, ServerOK
<1>4. Held(k) \/ Serves(k) \/ Behind(k) => peer[k] # "idle" /\ ~Queued(k)
  BY <1>3 DEF ConnInv
<1>5. ASSUME peer[k] = "idle"
      PROVE  ConnState(k) = "idle"
  BY <1>1, <1>2, <1>4, <1>5 DEF ConnState, Serves, Behind
<1>6. ASSUME Queued(k)
      PROVE  ConnState(k) = "queued"
  BY <1>1, <1>2, <1>4, <1>6 DEF ConnState, Serves, Behind
<1>7. ASSUME Held(k), peer[k] = "open"
      PROVE  ConnState(k) = "listening"
  BY <1>1, <1>4, <1>7 DEF ConnState
<1>8. ASSUME Held(k), peer[k] = "closed"
      PROVE  ConnState(k) = "left"
  BY <1>1, <1>4, <1>8 DEF ConnState
<1>9. ASSUME ~Held(k), Serves(k)
      PROVE  ConnState(k) = "serving"
  <2>1. ~ \E i \in 1..Len(backlog) : backlog[i] = k
    BY <1>1, <1>4, <1>9
  <2>2. ~ \E f \in Fd \ {sfd} : fdtab[f] = k
    BY <1>9 DEF Serves, ConnInv, IInv, TypeOK, ServerOK
  <2> QED  BY <2>1, <2>2, <1>4, <1>9 DEF ConnState, Serves
<1>10. ASSUME ~Held(k), ~Serves(k), Behind(k)
       PROVE  ConnState(k) = "abandoned"
  <2>1. ~ \E i \in 1..Len(backlog) : backlog[i] = k
    BY <1>1, <1>4, <1>10
  <2> QED  BY <2>1, <1>4, <1>10 DEF ConnState, Serves, Behind
<1>11. ASSUME peer[k] # "idle", ~Queued(k), ~Held(k), ~Serves(k), ~Behind(k)
       PROVE  ConnState(k) = "closed"
  <2>1. ~ \E i \in 1..Len(backlog) : backlog[i] = k
    BY <1>1, <1>11
  <2> QED  BY <2>1, <1>11 DEF ConnState, Serves, Behind
<1> QED  BY <1>2, <1>4, <1>5, <1>6, <1>7, <1>8, <1>9, <1>10, <1>11 DEF InPlace

LEMMA StateNext == (IInv /\ ConnInv => \A k \in Conn : InPlace(k))'
BY StateOf, PTL

\* A step that moves one connection on.
LEMMA Moved ==
  ASSUME NEW k \in Conn, NEW from, NEW to, alive = "yes", alive' = alive,
         ConnState(k) = from, ConnState(k)' = to,
         \A j \in Conn : j # k => ConnState(j)' = ConnState(j)
  PROVE  C!Go(k, from, to)
BY DEF C!Go

LEMMA Stayed ==
  ASSUME alive' = alive, \A j \in Conn : ConnState(j)' = ConnState(j)
  PROVE  UNCHANGED <<[k \in Conn |-> ConnState(k)], alive = "yes">>
OBVIOUS

LEMMA Frame ==
  ASSUME UNCHANGED <<peer, backlog, fdtab, sfd, live, ofd>>,
         \A o \in Obj : Pushing(o)' = Pushing(o)
  PROVE  \A k \in Conn : ConnState(k)' = ConnState(k)
<1> SUFFICES ASSUME NEW k \in Conn PROVE ConnState(k)' = ConnState(k)
  OBVIOUS
<1>1. Held(k)' = Held(k)
  BY DEF Held, Pushing
<1> QED  BY <1>1, SameState DEF Queued, Serves, Behind

Mapped == <<[k \in Conn |-> ConnState(k)], alive = "yes">>

LEMMA ConnectMaps ==
  ASSUME IInv, ConnInv, ConnInv', IInv', NEW k \in Conn, Connect(k)
  PROVE  C!Connect(k)
<1>1. /\ peer[k] = "idle" /\ peer' = [peer EXCEPT ![k] = "open"] /\ alive = "yes"
      /\ UNCHANGED <<said, fdtab, sfd, sobj, spc, live, ofd, cpc, alive>>
  BY DEF Connect, servervars, objvars
<1>2. Elems(backlog') = Elems(backlog) \cup {k}
  BY ConnectConnInv
<1>3. ConnState(k) = "idle" /\ ConnState(k)' = "queued"
  <2>1. Queued(k)'
    BY <1>2 DEF Queued
  <2> QED  BY <1>1, <2>1, StateOf, StateNext DEF InPlace
<1>4. ASSUME NEW j \in Conn, j # k PROVE ConnState(j)' = ConnState(j)
  <2>1. peer'[j] = peer[j] /\ Queued(j)' = Queued(j)
    BY <1>1, <1>2, <1>4 DEF IInv, TypeOK, NetOK, Queued
  <2> QED  BY <1>1, <2>1, SameState DEF Held, Serves, Behind
<1> QED  BY <1>1, <1>3, <1>4, Moved DEF C!Connect

LEMMA CloseMaps ==
  ASSUME IInv, ConnInv, ConnInv', IInv', NEW k \in Conn, Close(k)
  PROVE  C!Leave(k) \/ UNCHANGED Mapped
<1>1. /\ peer[k] = "open" /\ peer' = [peer EXCEPT ![k] = "closed"] /\ alive = "yes"
      /\ UNCHANGED <<said, backlog, fdtab, sfd, sobj, spc, live, ofd, cpc, alive>>
  BY DEF Close, servervars, objvars
<1>2. \A j \in Conn : peer'[j] = IF j = k THEN "closed" ELSE peer[j]
  BY <1>1 DEF IInv, TypeOK, NetOK
<1>3. \A j \in Conn : /\ Queued(j)' = Queued(j) /\ Held(j)' = Held(j)
                      /\ Serves(j)' = Serves(j) /\ Behind(j)' = Behind(j)
  BY <1>1 DEF Queued, Held, Serves, Behind
<1>4. \A j \in Conn : j # k => ConnState(j)' = ConnState(j)
  BY <1>2, <1>3, SameState
<1>5. CASE Held(k)
  <2>1. ConnState(k) = "listening"
    BY <1>1, <1>5, StateOf DEF InPlace
  <2>3. ConnState(k)' = "left"
    BY <1>2, <1>3, <1>5, StateNext DEF InPlace
  <2> QED  BY <1>1, <1>4, <2>1, <2>3, Moved DEF C!Leave
<1>6. CASE ~Held(k)
  <2>1. ConnState(k)' = ConnState(k)
    <3>1. (\E i \in 1..Len(backlog') : backlog'[i] = k) = (\E i \in 1..Len(backlog) : backlog[i] = k)
      BY <1>1
    <3>2. ~Held(k)' /\ peer'[k] = "closed"
      BY <1>2, <1>3, <1>6
    <3> QED  BY <1>1, <1>6, <3>1, <3>2 DEF ConnState
  <2> QED  BY <1>1, <1>4, <2>1 DEF Mapped
<1> QED  BY <1>5, <1>6

LEMMA AcceptMaps ==
  ASSUME IInv, ConnInv, ConnInv', IInv', Accept
  PROVE  \E k \in Conn : C!Accept(k)
<1>1. PICK f \in Fd : fdtab[f] = None /\ fdtab' = [fdtab EXCEPT ![f] = Head(backlog)] /\ sfd' = f
  BY DEF Accept, IsLowestFree, FreeFds
<1>2. /\ backlog # <<>> /\ backlog' = Tail(backlog) /\ spc = "select" /\ spc' = "read"
      /\ alive = "yes" /\ UNCHANGED <<peer, said, live, ofd, cpc, sobj, alive>>
  BY DEF Accept, objvars
<1>3. backlog \in Seq(Conn) /\ fdtab \in [Fd -> Conn \cup {None}] /\ sfd = None
  BY <1>2 DEF IInv, TypeOK, NetOK, ServerInv, Serving
<1>k. PICK k \in Conn : k = Head(backlog)
  BY <1>2, <1>3, QueueHead DEF ConnInv
<1>4. Elems(backlog') = Elems(backlog) \ {k} /\ Queued(k)
  BY <1>2, <1>3, <1>k, QueueHead DEF ConnInv, Queued
<1>5. /\ \A g \in Fd : g # f => fdtab'[g] = fdtab[g]
      /\ fdtab'[f] = k
  BY <1>1, <1>3, <1>k
<1>6. \A o \in Obj : live[o] => ofd[o] \in Fd /\ ofd[o] # f /\ Of(o)' = Of(o)
  BY <1>1, <1>2, <1>5 DEF IInv, SocketOwned, Of
<1>7. \A j \in Conn : Held(j)' = Held(j)
  BY <1>2, <1>6 DEF Held, Of
<1>8. ConnState(k) = "queued" /\ ~Held(k)
  BY <1>4, StateOf DEF InPlace
<1>9. ConnState(k)' = "serving"
  <2>1. ~Held(k)' /\ Serves(k)'
    BY <1>1, <1>4, <1>5, <1>7, <1>8 DEF Serves
  <2> QED  BY <2>1, StateNext DEF InPlace
<1>10. ASSUME NEW j \in Conn, j # k PROVE ConnState(j)' = ConnState(j)
  <2>1. Queued(j)' = Queued(j)
    BY <1>4, <1>10 DEF Queued
  <2>2. Serves(j)' = Serves(j) /\ Behind(j)' = Behind(j)
    BY <1>1, <1>3, <1>5, <1>10 DEF Serves, Behind
  <2> QED  BY <1>2, <1>7, <2>1, <2>2, SameState
<1>11. C!In({"serving"}) = {}
  <2>1. \A j \in Conn : ConnState(j) # "serving"
    BY <1>3, StateOf DEF InPlace, Serves
  <2> QED  BY <2>1 DEF C!In
<1> QED  BY <1>2, <1>4, <1>8, <1>9, <1>10, <1>11, Moved DEF C!Accept

LEMMA EndRequestMaps ==
  ASSUME IInv, ConnInv, ConnInv', IInv', ReadRequest \/ Command \/ RefuseListener
  PROVE  UNCHANGED Mapped \/ \E k \in Conn : C!Abandon(k) \/ C!Answer(k)
<1>1. /\ spc \notin {"push", "grow"} /\ spc' \notin {"push", "grow"} /\ alive = "yes"
      /\ UNCHANGED <<peer, said, backlog, live, ofd, cpc, sobj, alive>>
  BY DEF ReadRequest, Command, RefuseListener, CloseServed, Served, netvars, objvars
<1>2. sfd \in Fd /\ sfd # None /\ fdtab[sfd] \in Conn /\ fdtab \in [Fd -> Conn \cup {None}] /\ sobj = None
  BY DEF ReadRequest, Command, RefuseListener, IInv, TypeOK, ServerInv, ServerOK, Serving,
         Making, Removing
<1>k. PICK k \in Conn : k = fdtab[sfd]
  BY <1>2
<1>3. \A o \in Obj : live[o] => ofd[o] \in Fd /\ ofd[o] # sfd /\ Of(o) # k
  BY <1>2, <1>k DEF IInv, SocketOwned, Of, ConnInv
<1>4. ~Held(k) /\ Serves(k) /\ ConnState(k) = "serving"
  <2>1. ~Held(k) /\ Serves(k)
    BY <1>2, <1>k, <1>3 DEF Held, Of, Serves
  <2> QED  BY <1>2, <1>k, <2>1, StateOf DEF InPlace
<1>5. peer[k] # "idle" /\ ~Queued(k)
  BY <1>2, <1>k DEF ConnInv
<1>6. CASE ReadRequest /\ sfd' = sfd
  <2>1. fdtab' = fdtab
    BY <1>6 DEF ReadRequest
  <2>2. \A j \in Conn : ConnState(j)' = ConnState(j)
    BY <1>1, <1>6, <2>1, Frame DEF Pushing
  <2> QED  BY <1>1, <2>2 DEF Mapped
<1>7. CASE ReadRequest /\ sfd' # sfd
  <2>1. fdtab' = fdtab /\ sfd' = None
    BY <1>7 DEF ReadRequest, Served
  <2>2. \A j \in Conn : Held(j)' = Held(j) /\ Queued(j)' = Queued(j)
    BY <1>1, <2>1 DEF Held, Queued
  <2>3. ASSUME NEW j \in Conn, j # k PROVE ConnState(j)' = ConnState(j)
    <3>1. Serves(j)' = Serves(j) /\ Behind(j)' = Behind(j)
      BY <1>2, <1>k, <2>1, <2>3 DEF Serves, Behind
    <3> QED  BY <1>1, <2>2, <3>1, SameState
  <2>4. ConnState(k)' = "abandoned"
    <3>1. ~Held(k)' /\ ~Serves(k)' /\ Behind(k)' /\ ~Queued(k)'
      BY <1>1, <1>2, <1>k, <1>4, <1>5, <2>1, <2>2 DEF Serves, Behind, Held, Queued
    <3> QED  BY <3>1, StateNext DEF InPlace
  <2>5. C!Abandon(k)
    BY <1>1, <1>2, <1>k, <1>4, <2>3, <2>4, Moved DEF C!Abandon
  <2> QED  BY <1>2, <1>k, <2>5
<1>8. CASE Command \/ RefuseListener
  <2>1. fdtab' = [fdtab EXCEPT ![sfd] = None] /\ sfd' = None
    BY <1>8 DEF Command, RefuseListener, CloseServed, Served
  <2>2. \A g \in Fd : fdtab'[g] = IF g = sfd THEN None ELSE fdtab[g]
    BY <1>2, <1>k, <2>1
  <2>3. \A o \in Obj : live[o] => Of(o)' = Of(o)
    BY <1>1, <1>3, <2>2 DEF Of
  <2>4. \A j \in Conn : Held(j)' = Held(j) /\ Queued(j)' = Queued(j)
    BY <1>1, <2>3 DEF Held, Queued, Of
  <2>5. ASSUME NEW j \in Conn, j # k PROVE ConnState(j)' = ConnState(j)
    <3>1. Serves(j)' = Serves(j) /\ Behind(j)' = Behind(j)
      BY <1>2, <1>k, <2>1, <2>2, <2>5 DEF Serves, Behind
    <3> QED  BY <1>1, <2>4, <3>1, SameState
  <2>6. ConnState(k)' = "closed"
    <3>1. \A g \in Fd : fdtab'[g] # k
      BY <1>2, <1>k, <2>2 DEF ConnInv
    <3>3. ~Held(k)' /\ ~Serves(k)' /\ ~Behind(k)'
      BY <1>4, <2>1, <2>4, <3>1, <1>k DEF Serves, Behind
    <3> QED  BY <1>1, <1>5, <2>4, <3>3, StateNext DEF InPlace
  <2>7. C!Answer(k)
    BY <1>1, <1>2, <1>k, <1>4, <2>5, <2>6, Moved DEF C!Answer
  <2> QED  BY <1>2, <1>k, <2>7
<1> QED  BY <1>6, <1>7, <1>8

\* A Client that is made, and not yet in the vector, is still a request.
LEMMA NewClientMaps ==
  ASSUME IInv, NewClient
  PROVE  UNCHANGED Mapped
<1>1. PICK o \in Obj : /\ ~live[o] /\ live' = [live EXCEPT ![o] = TRUE]
                      /\ ofd' = [ofd EXCEPT ![o] = sfd] /\ sobj' = o
  BY DEF NewClient
<1>2. /\ spc = "LISTEN" /\ spc' = "push"
      /\ UNCHANGED <<peer, backlog, fdtab, sfd, alive>>
  BY DEF NewClient, netvars
<1>3. \A p \in Obj : p # o => live'[p] = live[p] /\ ofd'[p] = ofd[p]
  BY <1>1 DEF IInv, TypeOK, ObjectsOK
<1>4. ASSUME NEW j \in Conn PROVE ConnState(j)' = ConnState(j)
  <2>1. Held(j)' = Held(j)
    BY <1>1, <1>2, <1>3 DEF Held
  <2> QED  BY <1>2, <2>1, SameState DEF Queued, Serves, Behind
<1> QED  BY <1>2, <1>4 DEF Mapped

\* The Cardinality of the instance is that of FiniteSets.
LEMMA SameCardinality == \A S : C!Cardinality(S) = Cardinality(S)
BY DEF C!Cardinality, Cardinality

\* The listeners are behind the Clients in the vector.
LEMMA ListenersFit ==
  ASSUME IInv, ConnInv, spc \in {"push", "grow"}
  PROVE  C!Cardinality(C!In({"listening", "left"})) < MAXCLIENTS
<1> DEFINE S == C!In({"listening", "left"})
           n == Len(clients)
           f == [i \in 1..n |-> Of(clients[i])]
<1>1. n \in Nat /\ n < MAXCLIENTS
  BY LenProperties DEF IInv, TypeOK, ServerInv
<1>2. ASSUME NEW j \in S
      PROVE  \E i \in 1..n : Of(clients[i]) = j
  <2>1. j \in Conn /\ ConnState(j) \in {"listening", "left"}
    BY DEF C!In
  <2>2. Held(j)
    BY <2>1, StateOf DEF InPlace
  <2>3. PICK o \in Obj : live[o] /\ Of(o) = j /\ o # sobj
    BY <2>2 DEF Held, Of
  <2>4. o \in Elems(clients)
    BY <2>3 DEF IInv, VectorInv, Kept
  <2> QED  BY <2>3, <2>4 DEF Elems
<1>3. S \subseteq {f[i] : i \in 1..n}
  BY <1>2
<1>4. IsFiniteSet({f[i] : i \in 1..n}) /\ Cardinality({f[i] : i \in 1..n}) <= n
  <2> DEFINE T == {f[i] : i \in 1..n}
  <2>1. ExistsSurjection(1..n, T)
    <3>1. f \in Surjection(1..n, T)
      BY DEF Surjection
    <3> QED  BY <3>1 DEF ExistsSurjection
  <2> HIDE DEF T
  <2>2. Cardinality(T) <= n
    BY <1>1, <2>1, FS_SurjCardinalityBound
  <2>3. IsFiniteSet(T)
    <3>1. IsFiniteSet(1..n)
      BY <1>1, FS_Interval
    <3>2. PICK g : g \in Surjection(1..n, T)
      BY <2>1 DEF ExistsSurjection
    <3> QED  BY <3>1, <3>2, FS_Surjection
  <2> QED  BY <2>2, <2>3 DEF T
<1> HIDE DEF S, n, f
<1>5. Cardinality(S) <= Cardinality({f[i] : i \in 1..n}) /\ IsFiniteSet(S)
  BY <1>3, <1>4, FS_Subset
<1>6. Cardinality(S) \in Nat /\ Cardinality({f[i] : i \in 1..n}) \in Nat
  BY <1>4, <1>5, FS_CardinalityType
<1>7. Cardinality(S) < MAXCLIENTS
  BY <1>1, <1>4, <1>5, <1>6
<1> QED  BY <1>7, SameCardinality DEF S

LEMMA PushMaps ==
  ASSUME IInv, ConnInv, ConnInv', IInv', PushBack \/ SwapBuffer
  PROVE  \E k \in Conn : C!Register(k)
<1>1. /\ spc \in {"push", "grow"} /\ spc' = "create" /\ alive = "yes"
      /\ UNCHANGED <<peer, backlog, fdtab, sfd, sobj, live, ofd, alive>>
  BY DEF PushBack, SwapBuffer, netvars, objvars
<1>2. /\ sobj \in Obj /\ live[sobj] /\ ofd[sobj] = sfd /\ sfd \in Fd /\ sfd # None
      /\ fdtab[sfd] \in Conn
  BY <1>1 DEF IInv, ServerInv, Serving, Making, Removing, TypeOK, ServerOK
<1>3. PICK k \in Conn : k = fdtab[sfd]
  BY <1>2
<1>4. \A o \in Obj : live[o] /\ o # sobj => Of(o) # k /\ ofd[o] \in Fd
  BY <1>2, <1>3 DEF IInv, SocketOwned, ConnInv, Of
<1>5. ~Held(k) /\ Serves(k) /\ Held(k)'
  BY <1>1, <1>2, <1>3, <1>4 DEF Held, Serves, Of
<1>6. ConnState(k) = "serving" /\ ConnState(k)' \in {"listening", "left"}
  BY <1>5, StateOf, StateNext DEF InPlace
<1>7. ASSUME NEW j \in Conn, j # k PROVE ConnState(j)' = ConnState(j)
  <2>1. Held(j)' = Held(j)
    BY <1>1, <1>2, <1>3, <1>7 DEF Held
  <2> QED  BY <1>1, <2>1, SameState DEF Queued, Serves, Behind
<1>8. C!Go(k, "serving", "listening") \/ C!Go(k, "serving", "left")
  BY <1>1, <1>6, <1>7, Moved
<1> QED  BY <1>1, <1>8, ListenersFit DEF C!Register

\* The request is over, and the listener stays one.
LEMMA SetRunningMaps ==
  ASSUME IInv, ConnInv, ConnInv', IInv', SetRunning
  PROVE  UNCHANGED Mapped
<1>1. /\ spc = "setrunning" /\ spc' = "reap" /\ sfd' = None
      /\ UNCHANGED <<peer, backlog, fdtab, live, ofd, alive>>
  BY DEF SetRunning, netvars
<1>2. sobj \in Obj /\ live[sobj] /\ ofd[sobj] = sfd /\ sfd \in Fd /\ fdtab[sfd] \in Conn
  BY <1>1 DEF IInv, ServerInv, Serving, Making, Removing, TypeOK, ServerOK
<1>3. \A j \in Conn : Held(j)' = Held(j)
  BY <1>1 DEF Held
<1>4. ASSUME NEW j \in Conn PROVE ConnState(j)' = ConnState(j)
  <2>1. CASE Held(j)
    BY <1>1, <1>3, <2>1, StateOf, StateNext DEF InPlace
  <2>2. CASE ~Held(j)
    <3>1. fdtab[sfd] # j
      BY <1>1, <1>2, <2>2 DEF Held
    <3>2. Serves(j)' = Serves(j) /\ Behind(j)' = Behind(j)
      BY <1>1, <1>2, <3>1 DEF Serves, Behind
    <3> QED  BY <1>1, <1>3, <3>2, SameState DEF Queued
  <2> QED  BY <2>1, <2>2
<1> QED  BY <1>1, <1>4 DEF Mapped

\* Only the socket of a process that has gone away is closed by ~Client.
LEMMA DeleteMaps ==
  ASSUME IInv, ConnInv, ConnInv', IInv', DeleteClient
  PROVE  \E k \in Conn : C!Destroy(k)
<1>1. /\ fdtab' = [fdtab EXCEPT ![ofd[sobj]] = None]
      /\ live' = [live EXCEPT ![sobj] = FALSE]
      /\ spc = "delete" /\ spc' = "reap" /\ alive = "yes"
      /\ UNCHANGED <<peer, backlog, sfd, ofd, alive>>
  BY DEF DeleteClient, netvars
<1>2. /\ sobj \in Obj /\ live[sobj] /\ ofd[sobj] \in Fd /\ cpc[sobj] = "done" /\ sfd = None
      /\ fdtab[ofd[sobj]] \in Conn
  BY <1>1 DEF IInv, ServerInv, Serving, Making, Removing, TypeOK, ServerOK, SocketOwned
<1>3. PICK k \in Conn : k = Of(sobj)
  BY <1>2 DEF Of
<1>4. peer[k] = "closed" /\ ~Queued(k) /\ Held(k)
  BY <1>1, <1>2, <1>3 DEF ConnInv, Of, Held
<1>5. /\ \A g \in Fd : fdtab'[g] = IF g = ofd[sobj] THEN None ELSE fdtab[g]
      /\ \A o \in Obj : live'[o] <=> live[o] /\ o # sobj
  BY <1>1, <1>2 DEF IInv, TypeOK, ObjectsOK
<1>6. \A g \in Fd : fdtab'[g] # k
  <2>1. \A g \in Fd : fdtab[g] = k => g = ofd[sobj]
    BY <1>2, <1>3 DEF ConnInv, Of
  <2> QED  BY <1>5, <2>1
<1>7. ~Held(k)' /\ ~Serves(k)' /\ ~Behind(k)'
  BY <1>1, <1>2, <1>5, <1>6 DEF Held, Serves, Behind, IInv, SocketOwned
<1>8. ConnState(k) = "left" /\ ConnState(k)' = "closed"
  <2>1. peer'[k] = "closed" /\ ~Queued(k)'
    BY <1>1, <1>4 DEF Queued
  <2> QED  BY <1>4, <1>7, <2>1, StateOf, StateNext DEF InPlace
<1>9. ASSUME NEW j \in Conn, j # k PROVE ConnState(j)' = ConnState(j)
  <2>1. Held(j)' = Held(j)
    BY <1>1, <1>2, <1>3, <1>5, <1>9 DEF Held, Of, IInv, SocketOwned
  <2>2. Serves(j)' = Serves(j) /\ Behind(j)' = Behind(j)
    BY <1>1, <1>2, <1>3, <1>5, <1>9 DEF Serves, Behind, Of
  <2> QED  BY <1>1, <2>1, <2>2, SameState DEF Queued
<1> QED  BY <1>1, <1>8, <1>9, Moved DEF C!Destroy

\* The steps that change no descriptor, no process and no Client's place.
LEMMA FrameMaps ==
  ASSUME UNCHANGED <<peer, backlog, fdtab, sfd, live, ofd>>,
         \A o \in Obj : Pushing(o)' = Pushing(o)
  PROVE  /\ UNCHANGED alive => UNCHANGED Mapped
         /\ alive = "yes" /\ alive' # "yes" => C!Stop
BY Frame DEF Mapped, C!Stop

LEMMA StepMaps ==
  ASSUME IInv, ConnInv, IInv', ConnInv', [Next]_vars
  PROVE  C!Next \/ UNCHANGED Mapped
<1>1. CASE \E k \in Conn : Process(k)
  <2>1. PICK k \in Conn : Process(k)
    BY <1>1
  <2>2. CASE Connect(k)
    BY <2>2, ConnectMaps DEF C!Next
  <2>3. CASE (\E req \in Requests : Send(k, req)) \/ ReadLine(k)
    BY <2>3, FrameMaps DEF Send, ReadLine, servervars, objvars, Pushing
  <2>4. CASE Close(k)
    BY <2>4, CloseMaps DEF C!Next
  <2> QED  BY <2>1, <2>2, <2>3, <2>4 DEF Process
<1>2. CASE NoAccept \/ ReapNext \/ Join \/ Reallocate \/ EraseMove \/ EraseShrink \/ CreateThread
  <2>1. UNCHANGED <<peer, backlog, fdtab, sfd, live, ofd, alive>>
    BY <1>2 DEF NoAccept, ReapNext, Join, Reallocate, EraseMove, EraseShrink, CreateThread,
                netvars, objvars
  <2>2. \A o \in Obj : Pushing(o)' = Pushing(o)
    BY <1>2 DEF NoAccept, ReapNext, Join, Reallocate, EraseMove, EraseShrink, CreateThread,
                Pushing
  <2> QED  BY <2>1, <2>2, FrameMaps
<1>3. CASE Accept
  BY <1>3, AcceptMaps DEF C!Next
<1>4. CASE ReadRequest \/ Command \/ RefuseListener
  BY <1>4, EndRequestMaps DEF C!Next
<1>5. CASE NewClient
  BY <1>5, NewClientMaps
<1>6. CASE PushBack \/ SwapBuffer
  BY <1>6, PushMaps DEF C!Next
<1>7. CASE SetRunning
  BY <1>7, SetRunningMaps
<1>8. CASE DeleteClient
  BY <1>8, DeleteMaps DEF C!Next
<1>9. CASE \E o \in Obj : ClientThread(o)
  BY <1>9, FrameMaps DEF ClientThread, RecvEOF, Finish, ThreadExit, netvars, servervars, Pushing
<1>10. CASE MainThread
  <2>1. /\ UNCHANGED <<peer, backlog, fdtab, sfd, sobj, spc, live, ofd>>
        /\ alive' = alive \/ (alive = "yes" /\ alive' # "yes")
    BY <1>10 DEF MainThread, Trigger, LoopTest, At, AtThrows, AtFreedBuffer, WriteReading,
                 WriteFails, WriteSigPipe, netvars, servervars, objvars
  <2> QED  BY <2>1, FrameMaps DEF Pushing, C!Next
<1>11. CASE UNCHANGED vars
  BY <1>11, FrameMaps DEF vars, netvars, servervars, objvars, Pushing
<1> QED  BY <1>1, <1>2, <1>3, <1>4, <1>5, <1>6, <1>7, <1>8, <1>9, <1>10, <1>11
            DEF Next, Gone, ServerThread, ServeRequest, Reap

LEMMA InitMaps == Init => C!Init
<1> SUFFICES ASSUME Init PROVE C!Init
  OBVIOUS
<1>1. \A k \in Conn : peer[k] = "idle" /\ ~Held(k)
  BY DEF Init, Held
<1>2. ASSUME NEW k \in Conn PROVE ConnState(k) = "idle"
  BY <1>2, InitIInv, InitConnInv, StateOf, <1>1 DEF InPlace
<1> QED  BY <1>2 DEF C!Init, Init

\* Every connection is in one place: not made yet, waiting to be accepted, or
\* behind one descriptor (that accept() gave it, and nobody closed since).
THEOREM ConnectionsKept == Spec => [](IInv /\ ConnInv)
<1>1. Init => IInv /\ ConnInv
  BY InitIInv, InitConnInv
<1>2. IInv /\ ConnInv /\ [Next]_vars => IInv' /\ ConnInv'
  BY StepIInv, StepConnInv
<1> QED  BY <1>1, <1>2, PTL DEF Spec

\* Every step of okcounterd, of its threads and of the processes outside is a
\* step in the life of one connection, or none: it implements Connections.
THEOREM Implemented == Spec => ImplementsConnections
<1>1. Init => C!Init
  BY InitMaps
<1>2. IInv /\ ConnInv /\ IInv' /\ ConnInv' /\ [Next]_vars
        => [C!Next]_<<[k \in Conn |-> ConnState(k)], alive = "yes">>
  BY StepMaps DEF Mapped
<1> QED  BY <1>1, <1>2, ConnectionsKept, PTL DEF Spec, C!Spec, ImplementsConnections

\* Whatever descriptor the daemon holds is a Client's, or the request's it is
\* serving, or that of a process it will never answer.
THEOREM NothingElseLeaks == Spec => []OnlyUnansweredLeak
<1>1. ConnInv => OnlyUnansweredLeak
  BY DEF ConnInv, OnlyUnansweredLeak, Lost
<1> QED  BY <1>1, ConnectionsKept, PTL

-----------------------------------------------------------------------------
(* The walk of the main thread over the clients.                            *)

Within == 1..Len(clients)
Client(i) == Of(clients[i])

\* main is between the first client and the last, and none has been erased.
OnTheWalk ==
  /\ spc # "shrink"
  /\ mi <= Len(clients) + 1
  /\ mpc \in {"at", "send"} => mi <= Len(clients)
  /\ mpc = "send" => mptr = clients[mi]
  /\ \A k \in audience : \E i \in Within : k = Client(i)
  /\ \A k \in Conn : Times(k) # {} => \E i \in Within : i < mi /\ k = Client(i)
  /\ \A i \in Within : i < mi /\ peer[Client(i)] = "open" => \E n \in Nat : Times(Client(i)) = {n}

WalkInv ==
  /\ \A k \in Conn : link[k] = "reset" => peer[k] = "closed"
  /\ \A k \in Conn : \A n \in 1..Len(got[k]) : got[k][n] <= reading
  /\ mpc # "idle" /\ ~reaped => OnTheWalk

LEMMA InitWalkInv == Init => WalkInv
BY DEF Init, WalkInv

\* The clients in the vector are different connections.
LEMMA ClientsApart ==
  ASSUME IInv, ConnInv, spc # "shrink"
  PROVE  /\ Len(clients) \in Nat
         /\ \A i \in Within : /\ clients[i] \in Obj /\ live[clients[i]]
                              /\ Client(i) \in Conn /\ peer[Client(i)] # "idle"
         /\ \A i, j \in Within : Client(i) = Client(j) => i = j
<1>1. clients \in Seq(Obj) /\ Len(clients) \in Nat
  BY LenProperties DEF IInv, TypeOK
<1>2. ASSUME NEW i \in Within
      PROVE  /\ clients[i] \in Obj /\ live[clients[i]]
             /\ Client(i) \in Conn /\ peer[Client(i)] # "idle" /\ ofd[clients[i]] \in Fd
  <2>1. clients[i] \in Obj /\ live[clients[i]]
    BY <1>1, ElementOfSeq DEF Within, Elems, IInv, VectorInv
  <2>2. ofd[clients[i]] \in Fd /\ Client(i) \in Conn
    <3>1. ofd[clients[i]] \in Fd /\ fdtab[ofd[clients[i]]] # None
      BY <2>1 DEF IInv, SocketOwned
    <3>2. fdtab \in [Fd -> Conn \cup {None}]
      BY DEF IInv, TypeOK
    <3> QED  BY <3>1, <3>2 DEF Client, Of
  <2> QED  BY <2>1, <2>2 DEF ConnInv, Client, Of
<1>3. ASSUME NEW i \in Within, NEW j \in Within, Client(i) = Client(j)
      PROVE  i = j
  <2>1. ofd[clients[i]] = ofd[clients[j]]
    BY <1>2, <1>3 DEF ConnInv, Client, Of
  <2>2. clients[i] = clients[j]
    BY <1>2, <2>1 DEF IInv, SocketOwned
  <2> QED  BY <2>2 DEF IInv, VectorInv, Kept, Distinct, Within
<1> QED  BY <1>1, <1>2, <1>3

\* A step of another thread, or of a process: no client leaves the vector, or
\* comes to be another connection.
LEMMA WalkOn ==
  ASSUME IInv, ConnInv, WalkInv, IInv', [Next]_vars,
         UNCHANGED <<mainvars, got>>, spc' # "shrink" \/ spc = "shrink",
         \A k \in Conn : peer'[k] = "open" => peer[k] \in {"idle", "open"},
         \A k \in Conn : link'[k] = "reset" => peer'[k] = "closed",
         Len(clients) <= Len(clients'), \A i \in Within : clients'[i] = clients[i]
  PROVE  WalkInv'
<1>1. UNCHANGED <<mpc, mi, mptr, reading, audience, reaped, got>>
  BY DEF mainvars
<1>2. \A k \in Conn : Times(k)' = Times(k)
  BY <1>1 DEF Times
<1>3. ASSUME mpc # "idle", ~reaped
      PROVE  OnTheWalk'
  <2>1. OnTheWalk /\ spc # "shrink" /\ spc' # "shrink"
    BY <1>3 DEF WalkInv, OnTheWalk
  <2>2. Len(clients) \in Nat /\ Len(clients') \in Nat /\ mi \in Nat
    BY LenProperties DEF IInv, TypeOK, MainOK
  <2>3. \A i \in Within : i \in Within'
    BY <2>2 DEF Within
  <2>4. \A i \in Within : /\ Client(i) \in Conn /\ Client(i)' = Client(i)
                          /\ peer'[Client(i)] = "open" => peer[Client(i)] = "open"
    <3> SUFFICES ASSUME NEW i \in Within
                 PROVE  /\ Client(i) \in Conn /\ Client(i)' = Client(i)
                        /\ peer'[Client(i)] = "open" => peer[Client(i)] = "open"
      OBVIOUS
    <3>1. clients[i] \in Obj /\ live[clients[i]] /\ Client(i) \in Conn /\ peer[Client(i)] # "idle"
      BY <2>1, ClientsApart
    <3>2. clients[i] \in Elems(clients')
      BY <2>3 DEF Elems, Within
    <3>3. live'[clients[i]]
      BY <3>2 DEF IInv, VectorInv
    <3>4. Client(i)' = Client(i)
      BY <3>1, <3>3, SocketStep DEF Client, Of
    <3> QED  BY <3>1, <3>4
  <2>5. mi <= Len(clients) + 1 /\ \A i \in Within' : i < mi => i \in Within
    BY <2>1, <2>2 DEF OnTheWalk, Within
  <2>6. mi <= Len(clients') + 1
    BY <2>2, <2>5
  <2>7. mpc \in {"at", "send"} => mi <= Len(clients')
    BY <2>1, <2>2 DEF OnTheWalk
  <2>8. mpc = "send" => mptr = clients'[mi]
    <3>1. mpc = "send" => mi \in Within
      BY <2>1, <2>2 DEF OnTheWalk, Within, IInv, TypeOK, MainOK
    <3> QED  BY <2>1, <3>1 DEF OnTheWalk
  <2>9. \A k \in audience : \E i \in Within' : k = Client(i)'
    BY <2>1, <2>3, <2>4 DEF OnTheWalk
  <2>10. \A k \in Conn : Times(k)' # {} => \E i \in Within' : i < mi /\ k = Client(i)'
    BY <1>2, <2>1, <2>3, <2>4 DEF OnTheWalk
  <2>11. ASSUME NEW i \in Within', i < mi, peer'[Client(i)'] = "open"
         PROVE  \E n \in Nat : Times(Client(i))' = {n}
    <3>1. i \in Within /\ Client(i)' = Client(i) /\ Client(i) \in Conn /\ peer[Client(i)] = "open"
      BY <2>4, <2>5, <2>11
    <3>2. \E n \in Nat : Times(Client(i)) = {n}
      BY <2>1, <2>11, <3>1 DEF OnTheWalk
    <3>3. Times(Client(i))' = Times(Client(i))
      BY <1>1, <3>1 DEF Times
    <3> QED  BY <3>2, <3>3
  <2> QED  BY <1>1, <2>1, <2>6, <2>7, <2>8, <2>9, <2>10, <2>11 DEF OnTheWalk
<1> QED  BY <1>1, <1>3 DEF WalkInv

LEMMA ProcessWalkInv ==
  ASSUME IInv, ConnInv, WalkInv, IInv', [Next]_vars, NEW k \in Conn, Process(k)
  PROVE  WalkInv'
<1>1. UNCHANGED <<mainvars, got, spc, clients>>
  BY DEF Process, Connect, Send, ReadLine, Close, servervars, vecvars
<1>2. peer \in [Conn -> {"idle", "open", "closed"}] /\ link \in [Conn -> {"up", "reset"}]
  BY DEF IInv, TypeOK, NetOK
<1>3. \A j \in Conn : peer'[j] = "open" => peer[j] \in {"idle", "open"}
  BY <1>2 DEF Process, Connect, Send, ReadLine, Close
<1>4. \A j \in Conn : link'[j] = "reset" => peer'[j] = "closed"
  BY <1>2 DEF Process, Connect, Send, ReadLine, Close, WalkInv
<1>5. Len(clients) <= Len(clients') /\ \A i \in Within : clients'[i] = clients[i]
  BY <1>1, LenProperties DEF IInv, TypeOK
<1> QED  BY <1>1, <1>3, <1>4, <1>5, WalkOn

LEMMA ServerWalkInv ==
  ASSUME IInv, ConnInv, WalkInv, IInv', [Next]_vars, ServerThread
  PROVE  WalkInv'
<1>1. CASE EraseMove \/ EraseShrink
  <2>1. reaped' = TRUE /\ UNCHANGED <<peer, link, got, reading>>
    BY <1>1 DEF EraseMove, EraseShrink, netvars
  <2> QED  BY <2>1 DEF WalkInv
<1>2. CASE ~(EraseMove \/ EraseShrink)
  <2>1. UNCHANGED <<mainvars, got, peer, link>> /\ (spc' # "shrink" \/ spc = "shrink")
    BY <1>2 DEF ServerThread, ServeRequest, Reap, Accept, NoAccept, ReadRequest, Command,
       RefuseListener, CloseServed, Served, NewClient, PushBack, Reallocate, SwapBuffer,
       CreateThread, SetRunning, ReapNext, Join, DeleteClient, netvars
  <2>2. \/ clients' = clients
        \/ clients' = Append(clients, sobj) /\ sobj \in Obj
    BY <1>2 DEF ServerThread, ServeRequest, Reap, Accept, NoAccept, ReadRequest, Command,
       RefuseListener, CloseServed, Served, NewClient, PushBack, Reallocate, SwapBuffer,
       CreateThread, SetRunning, ReapNext, Join, DeleteClient, vecvars,
       IInv, TypeOK, ServerOK, ServerInv, Making, Removing
  <2>3. Len(clients) <= Len(clients') /\ \A i \in Within : clients'[i] = clients[i]
    <3>1. clients \in Seq(Obj) /\ Len(clients) \in Nat
      BY LenProperties DEF IInv, TypeOK
    <3> QED  BY <2>2, <3>1, AppendProperties DEF Within
  <2> QED  BY <2>1, <2>3, WalkOn DEF WalkInv
<1> QED  BY <1>1, <1>2

LEMMA ClientWalkInv ==
  ASSUME IInv, ConnInv, WalkInv, IInv', [Next]_vars, NEW o \in Obj, ClientThread(o)
  PROVE  WalkInv'
<1>1. UNCHANGED <<mainvars, got, peer, link, spc, clients>>
  BY DEF ClientThread, RecvEOF, Finish, ThreadExit, netvars, servervars, vecvars
<1>2. Len(clients) <= Len(clients') /\ \A i \in Within : clients'[i] = clients[i]
  BY <1>1, LenProperties DEF IInv, TypeOK
<1> QED  BY <1>1, <1>2, WalkOn DEF WalkInv

\* A new reading: nobody has it yet, and whoever is registered is to get it.
LEMMA TriggerWalkInv ==
  ASSUME IInv, ConnInv, WalkInv, Trigger
  PROVE  WalkInv'
<1>1. /\ reading' = reading + 1 /\ mpc' = "loop" /\ mi' = 1
      /\ audience' = Registered /\ reaped' = (spc = "shrink")
      /\ UNCHANGED <<peer, link, got, fdtab, spc, clients, ofd>>
  BY DEF Trigger, netvars, servervars, vecvars, objvars
<1>2. reading \in Nat /\ got \in [Conn -> Seq(1..MaxReading)]
  BY DEF IInv, TypeOK, NetOK, MainOK
<1>3. ASSUME NEW k \in Conn, NEW n \in 1..Len(got[k])
      PROVE  got[k][n] <= reading /\ got[k][n] \in Nat
  <2>1. got[k] \in Seq(1..MaxReading)
    BY <1>2
  <2>2. got[k][n] \in 1..MaxReading
    BY <2>1, ElementOfSeq
  <2> QED  BY <2>2 DEF WalkInv
<1>4. \A k \in Conn : Times(k)' = {}
  BY <1>1, <1>2, <1>3 DEF Times
<1>5. \A k \in Conn : \A n \in 1..Len(got'[k]) : got'[k][n] <= reading'
  BY <1>1, <1>2, <1>3
<1>6. ASSUME ~reaped'
      PROVE  OnTheWalk'
  <2>1. spc' # "shrink" /\ Len(clients) \in Nat
    BY <1>1, <1>6, ClientsApart
  <2>2. \A k \in audience' : \E i \in Within' : k = Client(i)'
    BY <1>1 DEF Registered, Within, Client, Of
  <2>3. \A i \in Within' : ~(i < mi')
    BY <1>1, <2>1 DEF Within
  <2> QED  BY <1>1, <1>4, <2>1, <2>2, <2>3 DEF OnTheWalk
<1> QED  BY <1>1, <1>5, <1>6 DEF WalkInv

\* The walk goes on past a client that has the reading, or whose process has
\* gone away.
LEMMA PastClient ==
  ASSUME IInv, ConnInv, OnTheWalk, mpc = "send", mpc' = "loop", mi' = mi + 1,
         UNCHANGED <<peer, fdtab, spc, clients, ofd, reading, audience>>,
         \A k \in Conn : k # Of(mptr) => got'[k] = got[k],
         \/ got'[Of(mptr)] = got[Of(mptr)] /\ peer[Of(mptr)] = "closed"
         \/ got'[Of(mptr)] = Append(got[Of(mptr)], reading)
  PROVE  OnTheWalk'
<1>1. /\ mi \in Within /\ mi \in Nat /\ mptr = clients[mi] /\ Of(mptr) = Client(mi)
      /\ Len(clients) \in Nat /\ Client(mi) \in Conn
      /\ \A i, j \in Within : Client(i) = Client(j) => i = j
  BY ClientsApart DEF OnTheWalk, Within, Client, IInv, TypeOK, MainOK
<1>2. PICK k \in Conn : k = Client(mi)
  BY <1>1
<1>3. \A i \in Within : Client(i)' = Client(i) /\ i \in Within'
  BY DEF Within, Client, Of
<1>4. \A j \in Conn : j # k => Times(j)' = Times(j)
  BY <1>1, <1>2 DEF Times
<1>5. Times(k) = {}
  BY <1>1, <1>2 DEF OnTheWalk
<1>6. (Times(k)' = {} /\ peer[k] = "closed") \/ (\E n \in Nat : Times(k)' = {n})
  <2>1. CASE got'[k] = got[k] /\ peer[k] = "closed"
    BY <1>5, <2>1 DEF Times
  <2>2. CASE got'[k] = Append(got[k], reading)
    <3>1. got[k] \in Seq(1..MaxReading) /\ Len(got[k]) \in Nat
      BY LenProperties DEF IInv, TypeOK, NetOK
    <3>2. reading \in 1..MaxReading
      BY DEF IInv, TypeOK, MainOK
    <3>3. /\ Len(got'[k]) = Len(got[k]) + 1 /\ got'[k][Len(got[k]) + 1] = reading
          /\ \A n \in 1..Len(got[k]) : got'[k][n] = got[k][n]
      BY <2>2, <3>1, <3>2, AppendProperties
    <3>4. \A n \in 1..Len(got[k]) : got[k][n] # reading
      BY <1>5 DEF Times
    <3>5. Times(k)' = {Len(got[k]) + 1}
      <4>1. reading' = reading
        OBVIOUS
      <4>2. \A n \in 1..Len(got'[k]) : got'[k][n] = reading <=> n = Len(got[k]) + 1
        <5>1. \A n \in 1..Len(got'[k]) : n \in 1..Len(got[k]) \/ n = Len(got[k]) + 1
          BY <3>1, <3>3
        <5>2. \A n \in 1..Len(got[k]) : n # Len(got[k]) + 1
          BY <3>1
        <5> QED  BY <3>3, <3>4, <5>1, <5>2
      <4>3. Len(got[k]) + 1 \in 1..Len(got'[k])
        BY <3>1, <3>3
      <4> QED  BY <4>1, <4>2, <4>3 DEF Times
    <3> QED  BY <3>1, <3>5
  <2> QED  BY <1>1, <1>2, <2>1, <2>2
<1>7. \A j \in Conn : Times(j)' # {} => \E i \in Within' : i < mi' /\ j = Client(i)'
  <2> SUFFICES ASSUME NEW j \in Conn, Times(j)' # {}
               PROVE  \E i \in Within' : i < mi' /\ j = Client(i)'
    OBVIOUS
  <2>1. CASE j = k
    BY <1>1, <1>2, <1>3, <2>1
  <2>2. CASE j # k
    <3>1. PICK i \in Within : i < mi /\ j = Client(i)
      BY <1>4, <2>2 DEF OnTheWalk
    <3>2. i < mi'
      BY <1>1, <3>1 DEF Within
    <3> QED  BY <1>3, <3>1, <3>2
  <2> QED  BY <2>1, <2>2
<1>8. ASSUME NEW i \in Within', i < mi', peer'[Client(i)'] = "open"
      PROVE  \E n \in Nat : Times(Client(i))' = {n}
  <2>1. i \in Within /\ Client(i)' = Client(i) /\ (i < mi \/ i = mi) /\ Client(i) \in Conn
    BY <1>1, <1>3, <1>8, ClientsApart DEF Within, OnTheWalk
  <2>2. CASE i = mi
    <3>1. Client(i)' = k
      BY <1>2, <2>1, <2>2
    <3>2. Times(Client(i))' = Times(k)'
      BY <3>1 DEF Times
    <3> QED  BY <1>6, <1>8, <3>1, <3>2
  <2>3. CASE i < mi
    <3>1. Client(i) # k /\ peer[Client(i)] = "open"
      BY <1>1, <1>2, <1>8, <2>1, <2>3
    <3>2. Times(Client(i))' = Times(Client(i))
      <4>1. got'[Client(i)] = got[Client(i)]
        BY <1>1, <1>2, <2>1, <3>1
      <4> QED  BY <2>1, <4>1 DEF Times
    <3> QED  BY <2>1, <2>3, <3>1, <3>2 DEF OnTheWalk
  <2> QED  BY <2>1, <2>2, <2>3
<1>9. mi' <= Len(clients') + 1
  BY <1>1 DEF Within
<1>10. \A j \in audience' : \E i \in Within' : j = Client(i)'
  BY <1>3 DEF OnTheWalk
<1>11. mpc' = "loop" /\ spc' # "shrink"
  BY DEF OnTheWalk
<1> QED  BY <1>7, <1>8, <1>9, <1>10, <1>11 DEF OnTheWalk

LEMMA MainWalkInv ==
  ASSUME IInv, ConnInv, WalkInv, MainThread
  PROVE  WalkInv'
<1>1. CASE Trigger
  BY <1>1, TriggerWalkInv
<1>2. CASE LoopTest \/ At \/ AtThrows \/ AtFreedBuffer \/ WriteSigPipe
  <2>1. UNCHANGED <<peer, link, got, fdtab, spc, clients, ofd, reading, audience, reaped, mi>>
    BY <1>2 DEF LoopTest, At, AtThrows, AtFreedBuffer, WriteSigPipe, netvars, servervars,
                vecvars, objvars, mainvars
  <2>2. \/ LoopTest
        \/ mpc' = "send" /\ mpc = "at" /\ mptr' = clients[mi]
        \/ UNCHANGED <<mpc, mptr>>
    BY <1>2 DEF At, AtThrows, AtFreedBuffer, WriteSigPipe, mainvars
  <2>3. ASSUME mpc' # "idle", ~reaped'
        PROVE  OnTheWalk'
    <3>1. OnTheWalk
      BY <1>2, <2>1, <2>2, <2>3 DEF WalkInv, LoopTest
    <3>2. /\ mpc' \in {"at", "send"} => mi <= Len(clients)
          /\ mpc' = "send" => mptr' = clients[mi]
      BY <2>1, <2>2, <2>3, <3>1 DEF OnTheWalk, LoopTest
    <3> QED  BY <2>1, <3>1, <3>2 DEF OnTheWalk, Within, Client, Of, Times
  <2> QED  BY <2>1, <2>3 DEF WalkInv
<1>3. CASE WriteReading
  <2>1. PICK k \in Conn : k = Of(mptr)
    BY <1>3 DEF WriteReading, IInv, TypeOK, MainOK, ObjectsOK, Of
  <2>2. /\ mpc = "send" /\ mpc' = "loop" /\ mi' = mi + 1
        /\ UNCHANGED <<peer, fdtab, spc, clients, ofd, reading, audience, reaped>>
        /\ \/ peer[k] = "closed" /\ link' = [link EXCEPT ![k] = "reset"] /\ got' = got
           \/ got' = [got EXCEPT ![k] = Append(@, reading)] /\ link' = link
    BY <1>3, <2>1 DEF WriteReading, NextClient, servervars, vecvars, objvars, Of
  <2>3. /\ link \in [Conn -> {"up", "reset"}] /\ got \in [Conn -> Seq(1..MaxReading)]
        /\ reading \in 1..MaxReading
    BY <2>2 DEF IInv, TypeOK, NetOK, MainOK
  <2>4. /\ \A j \in Conn : j # k => got'[j] = got[j]
        /\ \/ got'[k] = got[k] /\ peer[k] = "closed"
           \/ got'[k] = Append(got[k], reading)
    BY <2>2, <2>3
  <2>5. \A j \in Conn : link'[j] = "reset" => peer'[j] = "closed"
    BY <2>2, <2>3 DEF WalkInv
  <2>6. ASSUME NEW j \in Conn, NEW n \in 1..Len(got'[j])
        PROVE  got'[j][n] <= reading'
    <3>1. CASE got'[j] = got[j]
      BY <2>2, <2>6, <3>1 DEF WalkInv
    <3>2. CASE got'[j] = Append(got[j], reading)
      <4>1. /\ Len(got[j]) \in Nat /\ Len(got'[j]) = Len(got[j]) + 1
            /\ got'[j][Len(got[j]) + 1] = reading
            /\ \A m \in 1..Len(got[j]) : got'[j][m] = got[j][m]
        BY <2>3, <3>2, AppendProperties, LenProperties
      <4>2. n \in 1..Len(got[j]) \/ n = Len(got[j]) + 1
        BY <4>1
      <4>3. \A m \in 1..Len(got[j]) : got[j][m] <= reading
        BY DEF WalkInv
      <4>4. CASE n \in 1..Len(got[j])
        BY <2>2, <4>1, <4>3, <4>4
      <4>5. CASE n = Len(got[j]) + 1
        BY <2>2, <2>3, <4>1, <4>5
      <4> QED  BY <4>2, <4>4, <4>5
    <3> QED  BY <2>4, <3>1, <3>2
  <2>7. ~reaped' => OnTheWalk'
    BY <2>1, <2>2, <2>4, PastClient DEF WalkInv
  <2> QED  BY <2>5, <2>6, <2>7 DEF WalkInv
<1>4. CASE WriteFails
  <2>1. /\ mpc = "send" /\ mpc' = "loop" /\ mi' = mi + 1
        /\ UNCHANGED <<peer, link, got, fdtab, spc, clients, ofd, reading, audience, reaped>>
        /\ Of(mptr) = None \/ Broken(Of(mptr)) \/ ~live[mptr]
    BY <1>4 DEF WriteFails, NextClient, netvars, servervars, vecvars, objvars, Of
  <2>2. ASSUME ~reaped'
        PROVE  OnTheWalk'
    <3>1. OnTheWalk
      BY <2>1, <2>2 DEF WalkInv
    <3>2. mi \in Within /\ mptr = clients[mi]
      BY <2>1, <3>1 DEF OnTheWalk, Within, IInv, TypeOK, MainOK
    <3>3. live[mptr] /\ Of(mptr) \in Conn
      BY <3>1, <3>2, ClientsApart DEF OnTheWalk, Client
    <3>4. peer[Of(mptr)] = "closed"
      BY <2>1, <3>3 DEF Broken, WalkInv
    <3> QED  BY <2>1, <3>1, <3>4, PastClient
  <2> QED  BY <2>1, <2>2 DEF WalkInv
<1> QED  BY <1>1, <1>2, <1>3, <1>4 DEF MainThread

LEMMA StepWalkInv == IInv /\ ConnInv /\ WalkInv /\ IInv' /\ [Next]_vars => WalkInv'
<1> SUFFICES ASSUME IInv, ConnInv, WalkInv, IInv', [Next]_vars PROVE WalkInv'
  OBVIOUS
<1>1. CASE \E k \in Conn : Process(k)
  BY <1>1, ProcessWalkInv
<1>2. CASE \E o \in Obj : ClientThread(o)
  BY <1>2, ClientWalkInv
<1>3. CASE UNCHANGED vars
  <2>1. UNCHANGED <<peer, link, got, fdtab, spc, clients, ofd, mainvars>>
    BY <1>3 DEF vars, netvars, servervars, vecvars, objvars
  <2> QED  BY <2>1 DEF WalkInv, OnTheWalk, Within, Client, Of, Times, mainvars
<1> QED  BY <1>1, <1>2, <1>3, ServerWalkInv, MainWalkInv DEF Next, Gone

\* A process that is registered while main walks the clients, and still there,
\* is sent the reading exactly once unless a client was erased meanwhile.
THEOREM SentOnce == Spec => []SentOnceUnlessReaped
<1>1. Init => IInv /\ ConnInv /\ WalkInv
  BY InitIInv, InitConnInv, InitWalkInv
<1>2. IInv /\ ConnInv /\ WalkInv /\ [Next]_vars => IInv' /\ ConnInv' /\ WalkInv'
  BY StepIInv, StepConnInv, StepWalkInv
<1>3. IInv /\ WalkInv => SentOnceUnlessReaped
  <2> SUFFICES ASSUME IInv, WalkInv, WalkOver, ~reaped, NEW k \in audience, peer[k] = "open"
               PROVE  Cardinality(Times(k)) = 1
    BY DEF SentOnceUnlessReaped
  <2>1. OnTheWalk /\ mi > Len(clients) /\ Len(clients) \in Nat /\ mi \in Nat
    BY LenProperties DEF WalkInv, WalkOver, IInv, TypeOK, MainOK
  <2>2. PICK i \in Within : k = Client(i)
    BY <2>1 DEF OnTheWalk
  <2>3. PICK n \in Nat : Times(k) = {n}
    BY <2>1, <2>2 DEF OnTheWalk, Within
  <2> QED  BY <2>3, FS_Singleton
<1> QED  BY <1>1, <1>2, <1>3, PTL DEF Spec

=============================================================================
