---------------------------- MODULE MCOKCounterD ----------------------------
(* Two or three processes and a daemon of one or two clients.               *)
EXTENDS OKCounterD, TLC

CONSTANTS k1, k2, k3, o1, o2, o3

Two == {k1, k2}
Three == {k1, k2, k3}
OneObj == {o1}
TwoObj == {o1, o2}
ThreeObj == {o1, o2, o3}
Fd1 == {1}
Fd2 == {1, 2}
Fd3 == {1, 2, 3}

Symmetry == Permutations(Conn) \cup Permutations(Obj)
=============================================================================
