---------------------------- MODULE Connections -----------------------------
(***************************************************************************)
(* What okcounterd promises to the processes that connect to it, without   *)
(* threads, descriptors or vectors: the life of a connection.  It is       *)
(* accepted, one at a time, and then it is answered and closed, abandoned, *)
(* or registered as a listener.  A listener is closed only after its       *)
(* process has gone away, and there are never more than MAXCLIENTS.        *)
(* OKCounterD implements this specification (its refinement is C!Spec).    *)
(***************************************************************************)
EXTENDS Naturals, FiniteSets

CONSTANTS Conn, MAXCLIENTS

VARIABLES
  st,   \* where each connection is in its life
  up    \* the daemon is running

States == {"idle", "queued", "serving", "listening", "left", "closed", "abandoned"}

In(S) == {k \in Conn : st[k] \in S}

Init == st = [k \in Conn |-> "idle"] /\ up = TRUE

Go(k, from, to) ==
  /\ up /\ st[k] = from
  /\ st' = [st EXCEPT ![k] = to]
  /\ UNCHANGED up

Connect(k)  == Go(k, "idle", "queued")
Accept(k)   == Go(k, "queued", "serving") /\ In({"serving"}) = {}
Answer(k)   == Go(k, "serving", "closed")
Abandon(k)  == Go(k, "serving", "abandoned")
Leave(k)    == Go(k, "listening", "left")
Destroy(k)  == Go(k, "left", "closed")

\* The process may have gone away before it is registered.
Register(k) ==
  /\ Cardinality(In({"listening", "left"})) < MAXCLIENTS
  /\ Go(k, "serving", "listening") \/ Go(k, "serving", "left")

Stop == up /\ up' = FALSE /\ UNCHANGED st

Next ==
  \/ \E k \in Conn : \/ Connect(k) \/ Accept(k) \/ Answer(k) \/ Abandon(k)
                     \/ Register(k) \/ Leave(k) \/ Destroy(k)
  \/ Stop

Spec == Init /\ [][Next]_<<st, up>>

=============================================================================
