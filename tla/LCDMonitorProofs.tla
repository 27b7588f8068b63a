-------------------------- MODULE LCDMonitorProofs --------------------------
(***************************************************************************)
(* For any settings, screens and keys, and packets lost or answered late:  *)
(* that the settings are always in one file or the other, that the file    *)
(* has what the panel is set to, that the backlight is at the level it     *)
(* should have, and that no command is run but for an ENTER that its       *)
(* question was there for, if no more than five packets can wait.          *)
(*                                                                         *)
(* The last one is about counting.  Every packet that is sent takes one    *)
(* from the inbox, its answer or whatever came before, and there are six   *)
(* for a question: what was typed before the question was shown - the      *)
(* second of them - is used up by the time that an answer is read.  So the *)
(* invariant says how much may be waiting, and how many packets of the     *)
(* question are left to send while keys from before are among it.          *)
(*                                                                         *)
(* That the file has what the panel is set to is about two ways of reading *)
(* it: configfile_parse_as_list() and configfile_update() go through it    *)
(* line by line, and know the section they are in by different means. What *)
(* a line-by-line reading keeps is proved once (LoopRuns).                 *)
(*                                                                         *)
(* That the backlight is as it should be is about what is still to be      *)
(* sent: every packet for it sets the level it should have then, and if    *)
(* none is left, it has that level, unless the last was lost.              *)
(***************************************************************************)
EXTENDS LCDMonitor, SequenceTheorems, FiniteSetTheorems, TLAPS

-----------------------------------------------------------------------------
(* Sequences of whatever *)

IsSeq(q) == \E S : q \in Seq(S)

LEMMA Parts ==
  ASSUME NEW q, IsSeq(q), q # << >>
  PROVE  /\ Len(q) \in Nat \ {0} /\ DOMAIN q = 1..Len(q)
         /\ Head(q) = q[1]
         /\ IsSeq(Tail(q)) /\ Len(Tail(q)) = Len(q) - 1
         /\ \A i \in 1..Len(q) - 1 : Tail(q)[i] = q[i + 1]
<1>1. PICK S : q \in Seq(S)
  BY DEF IsSeq
<1>2. Tail(q) \in Seq(S)
  BY <1>1
<1> QED
  BY <1>1, <1>2 DEF IsSeq

LEMMA Lengths == ASSUME NEW q, IsSeq(q) PROVE Len(q) \in Nat /\ DOMAIN q = 1..Len(q)
BY DEF IsSeq

LEMMA Empty == IsSeq(<< >>) /\ Len(<< >>) = 0
<1>1. << >> \in Seq({})
  OBVIOUS
<1> QED
  BY <1>1 DEF IsSeq

LEMMA Joined ==
  ASSUME NEW a, NEW b, IsSeq(a), IsSeq(b)
  PROVE  /\ IsSeq(a \o b) /\ Len(a \o b) = Len(a) + Len(b)
         /\ \A i \in 1..Len(a) : (a \o b)[i] = a[i]
         /\ \A i \in 1..Len(b) : (a \o b)[Len(a) + i] = b[i]
<1>1. PICK S : a \in Seq(S)
  BY DEF IsSeq
<1>2. PICK T : b \in Seq(T)
  BY DEF IsSeq
<1>3. a \in Seq(S \cup T) /\ b \in Seq(S \cup T)
  <2>1. /\ Len(a) \in Nat /\ DOMAIN a = 1..Len(a) /\ a = [i \in 1..Len(a) |-> a[i]]
        /\ \A i \in 1..Len(a) : a[i] \in S
    BY <1>1
  <2>2. /\ Len(b) \in Nat /\ DOMAIN b = 1..Len(b) /\ b = [i \in 1..Len(b) |-> b[i]]
        /\ \A i \in 1..Len(b) : b[i] \in T
    BY <1>2
  <2> QED
    BY <2>1, <2>2, SeqDef
<1>4. a \o b \in Seq(S \cup T)
  BY <1>3
<1> QED
  BY <1>3, <1>4 DEF IsSeq

LEMMA Extended ==
  ASSUME NEW q, IsSeq(q), NEW e
  PROVE  /\ IsSeq(Append(q, e)) /\ Len(Append(q, e)) = Len(q) + 1
         /\ \A i \in 1..Len(q) : Append(q, e)[i] = q[i]
         /\ Append(q, e)[Len(q) + 1] = e
<1>1. PICK S : q \in Seq(S)
  BY DEF IsSeq
<1>2. q \in Seq(S \cup {e})
  <2>1. /\ Len(q) \in Nat /\ DOMAIN q = 1..Len(q) /\ q = [i \in 1..Len(q) |-> q[i]]
        /\ \A i \in 1..Len(q) : q[i] \in S
    BY <1>1
  <2> QED
    BY <2>1, SeqDef
<1>3. Append(q, e) \in Seq(S \cup {e})
  BY <1>2
<1> QED
  BY <1>2, <1>3 DEF IsSeq

LEMMA Listed ==
  /\ \A x : IsSeq(<<x>>) /\ Len(<<x>>) = 1 /\ <<x>>[1] = x
  /\ \A x, y : IsSeq(<<x, y>>) /\ Len(<<x, y>>) = 2 /\ <<x, y>>[1] = x /\ <<x, y>>[2] = y
  /\ \A x, y, z : /\ IsSeq(<<x, y, z>>) /\ Len(<<x, y, z>>) = 3
                  /\ <<x, y, z>>[1] = x /\ <<x, y, z>>[2] = y /\ <<x, y, z>>[3] = z
<1>1. ASSUME NEW x PROVE <<x>> \in Seq({x})
  OBVIOUS
<1>2. ASSUME NEW x, NEW y PROVE <<x, y>> \in Seq({x, y})
  OBVIOUS
<1>3. ASSUME NEW x, NEW y, NEW z PROVE <<x, y, z>> \in Seq({x, y, z})
  OBVIOUS
<1> QED
  BY <1>1, <1>2, <1>3 DEF IsSeq

\* A function on an interval from 1 is a sequence.
LEMMA Rowed ==
  ASSUME NEW n \in Nat, NEW f, DOMAIN f = 1..n, f = [i \in 1..n |-> f[i]]
  PROVE  IsSeq(f) /\ Len(f) = n
<1>1. f \in Seq({f[i] : i \in 1..n})
  BY SeqDef
<1>2. Len(f) \in Nat /\ 1..Len(f) = 1..n
  BY <1>1
<1>3. Len(f) = n
  BY <1>2
<1> QED
  BY <1>1, <1>3 DEF IsSeq

-----------------------------------------------------------------------------
(* The invariant *)

Fields == {"at", "menus", "row", "dlg", "focus", "edit"}
Told   == {"lines", "led"}
\* Few enough packets wait for the confirmation of a command to be safe
Few == MaxInbox + MaxLate <= 4

\* In the menus and dialogs there is a menu to come back to.
InChain(u) == u.at \in {"menu", "dialog"} => u.menus \in Seq(DOMAIN Menus) /\ u.menus # << >>

Shape ==
  /\ IsSeq(todo) /\ IsSeq(inbox)
  /\ DOMAIN ui = Fields
  /\ ui.at \in {"status", "menu", "dialog", "down", "dead"}
  /\ InChain(ui)
  /\ DOMAIN cache = Told /\ DOMAIN cache.lines = 0..3
  /\ file = [i \in DOMAIN file |-> file[i]] /\ tmpfile = [i \in DOMAIN tmpfile |-> tmpfile[i]]
  /\ held \in BOOLEAN /\ late \in 0..MaxLate
  /\ ~Running => todo = << >>

Question(c) == Padded(Text(c, 0))
Questions == {Question(c) : c \in Commands}

\* Of the packets that the user and the display may send before one is read.
Awaited == (IF held THEN 1 ELSE 0) + late
Most == MaxInbox + MaxLate + 1

InboxInv ==
  /\ Len(inbox) + Awaited <= Most
  /\ \A i \in 1..Len(inbox) : inbox[i].seen \in Questions \cup {NoText, Unshown}

\* The packets that draw the confirmation of a command.
Screen(c) ==
  <<Op("clear", 0, NoText), Op("line", 0, Question(c)), Op("line", 1, Padded(Text("Yes", 0))),
    Op("line", 2, Padded(Text("No", 0))), Op("line", 3, Padded(NoText)), Op("cursor", 0, NoText)>>

\* So many packets are still to be sent, each of which takes one from the inbox:
\* an ENTER typed before the question was shown is among those.
Asking(c) ==
  LET n == Len(todo) IN
  /\ ui.focus \in 1..2
  /\ n \in 0..6
  /\ \A i \in 1..n : todo[i] = Screen(c)[6 - n + i]
  /\ \A r \in 0..3 : n <= 5 /\ 5 - n <= r => cache.lines[r] = NoText
  /\ n <= 4 => cache.lines[0] = Question(c)
  /\ n <= 4 /\ Few =>
       \A i \in 1..Len(inbox) : inbox[i].kind = "enter" /\ inbox[i].seen = NoText => i <= n

DialogInv == ui.at = "dialog" /\ ui.dlg \in Commands => Asking(ui.dlg)

\* What may be done at any time: no step of an update of the file, no command
\* that was not confirmed, and not one packet of the two for the LED alone.
PlainOp(q, i) ==
  /\ q[i].op \notin {"write", "unlink", "rename"}
  /\ q[i].op = "system" /\ Few => q[i].text \in Questions \cup {Unshown}
  /\ q[i].op = "led" /\ q[i].n = 1 => i < Len(q) /\ q[i + 1].op = "led"

\* After k of the three steps of configfile_update(), the others come first.
Pending(q, k) ==
  /\ IsSeq(q) /\ 3 - k <= Len(q)
  /\ \A i \in 1..3 - k : q[i].op = <<"write", "unlink", "rename">>[i + k]
  /\ \A i \in 4 - k..Len(q) : PlainOp(q, i)

\* The file is missing only between the second step and the third, and the
\* temporary one is there then.
TodoInv ==
  \E k \in 0..3 : /\ Pending(todo, k)
                  /\ k \in 1..2 => tmpfile # Missing
                  /\ Running /\ file = Missing => k = 2

IInv == Shape /\ InboxInv /\ DialogInv /\ TodoInv /\ SomewhereSaved

-----------------------------------------------------------------------------
(* What is to be done *)

Plain(q) == IsSeq(q) /\ \A i \in 1..Len(q) : PlainOp(q, i)

LEMMA PlainPending == \A q : Plain(q) <=> Pending(q, 3)
<1>1. ASSUME NEW q, IsSeq(q) PROVE Len(q) \in Nat
  BY <1>1, Lengths
<1> QED
  BY <1>1 DEF Plain, Pending

LEMMA PlainEmpty == Plain(<< >>)
BY Empty DEF Plain

LEMMA PlainParts ==
  /\ Plain(Clear) /\ Plain(Cursor)
  /\ \A r, t : Plain(Line(r, t))
  /\ \A n : Plain(Back(n))
  /\ \A w : Plain(LED(w))
BY Listed DEF Plain, PlainOp, Clear, Cursor, Line, Back, LED, Op

LEMMA PendingJoined ==
  ASSUME NEW a, NEW b, NEW k \in 0..3, Pending(a, k), Plain(b)
  PROVE  Pending(a \o b, k)
<1>1. IsSeq(a) /\ IsSeq(b)
  BY DEF Plain, Pending
<1>2. PICK h : h = a \o b
  OBVIOUS
<1>3. /\ IsSeq(h) /\ Len(h) = Len(a) + Len(b)
      /\ \A i \in 1..Len(a) : h[i] = a[i]
      /\ \A i \in 1..Len(b) : h[Len(a) + i] = b[i]
  BY ONLY <1>1, <1>2, Joined
<1>4. Len(a) \in Nat /\ Len(b) \in Nat /\ 3 - k <= Len(a)
  BY <1>1, Lengths DEF Pending
<1>5. ASSUME NEW i \in 1..3 - k PROVE h[i].op = <<"write", "unlink", "rename">>[i + k]
  <2>1. i \in 1..Len(a)
    BY <1>4
  <2> QED
    BY <1>3, <2>1 DEF Pending
<1>6. ASSUME NEW i \in 4 - k..Len(h) PROVE PlainOp(h, i)
  <2>1. CASE i <= Len(a)
    <3>1. i \in 1..Len(a) /\ PlainOp(a, i)
      BY <1>3, <1>4, <2>1 DEF Pending
    <3> QED
      BY <1>3, <1>4, <3>1 DEF PlainOp
  <2>2. CASE i > Len(a)
    <3>1. i - Len(a) \in 1..Len(b) /\ i = Len(a) + (i - Len(a))
      BY <1>3, <1>4, <2>2
    <3>2. h[Len(a) + (i - Len(a))] = b[i - Len(a)]
      BY <1>3, <3>1
    <3>3. PlainOp(b, i - Len(a))
      BY <3>1 DEF Plain
    <3>4. h[i] = b[i - Len(a)]
      BY <3>1, <3>2
    <3>5. ASSUME i - Len(a) < Len(b) PROVE i < Len(h) /\ h[i + 1] = b[i - Len(a) + 1]
      <4>1. i - Len(a) + 1 \in 1..Len(b) /\ Len(a) + (i - Len(a) + 1) = i + 1 /\ i < Len(h)
        BY <1>3, <1>4, <3>1, <3>5
      <4>2. h[Len(a) + (i - Len(a) + 1)] = b[i - Len(a) + 1]
        BY <1>3, <4>1
      <4> QED
        BY <4>1, <4>2
    <3> QED
      BY <3>3, <3>4, <3>5 DEF PlainOp
  <2> QED
    BY <1>4, <2>1, <2>2
<1>7. 3 - k <= Len(h)
  BY <1>3, <1>4
<1> QED
  BY <1>2, <1>3, <1>5, <1>6, <1>7 DEF Pending

LEMMA PlainJoined == ASSUME NEW a, NEW b, Plain(a), Plain(b) PROVE Plain(a \o b)
BY PlainPending, PendingJoined

LEMMA MenuLengths == \A m \in DOMAIN Menus : Len(Menus[m]) \in Nat
BY DEF Menus

LEMMA PlainMenu ==
  ASSUME NEW u, u.menus \in Seq(DOMAIN Menus), u.menus # << >>
  PROVE  Plain(DrawMenu(u))
<1> DEFINE n == Len(Items(u))
           f == [i \in 1..n |-> Op("line", i - 1, Text(Items(u)[i], 0))]
<1>1. Last(u.menus) \in DOMAIN Menus
  BY DEF Last
<1>2. n \in Nat
  BY <1>1, MenuLengths DEF Items
<1>3. IsSeq(f) /\ Len(f) = n
  <2>1. PICK k \in Nat : k = n
    BY <1>2
  <2>2. PICK g : g = f
    OBVIOUS
  <2>3. DOMAIN g = 1..k /\ g = [i \in 1..k |-> g[i]]
    BY <2>1, <2>2
  <2> QED
    BY <2>1, <2>2, <2>3, Rowed
<1>4. Plain(f)
  BY <1>2, <1>3 DEF Plain, PlainOp, Op
<1>5. Plain(Clear \o f)
  BY <1>4, PlainParts, PlainJoined
<1> QED
  BY <1>5, PlainParts, PlainJoined DEF DrawMenu

LEMMA PlainRows == ASSUME NEW d, NEW e PROVE Plain(Rows(d, e)) /\ Len(Rows(d, e)) = 4
<1>1. PICK g : g = Rows(d, e)
  OBVIOUS
<1>2. DOMAIN g = 1..4 /\ g = [i \in 1..4 |-> g[i]] /\ \A i \in 1..4 : g[i].op = "line"
  BY <1>1 DEF Rows, Op
<1>3. IsSeq(g) /\ Len(g) = 4
  BY <1>2, Rowed
<1> QED
  BY <1>1, <1>2, <1>3 DEF Plain, PlainOp

LEMMA PlainDialog == ASSUME NEW d, NEW e PROVE Plain(DrawDialog(d, e))
<1>1. Plain(Clear \o Rows(d, e))
  BY PlainRows, PlainParts, PlainJoined
<1> QED
  BY <1>1, PlainParts, PlainJoined DEF DrawDialog

\* The packets for the confirmation of a command.
LEMMA Confirmation ==
  ASSUME NEW c \in Commands, NEW e
  PROVE  /\ Len(DrawDialog(c, e)) = 6
         /\ \A i \in 1..6 : DrawDialog(c, e)[i] = Screen(c)[i]
<1>1. DialogLines(c, e) = <<Text(c, 0), Text("Yes", 0), Text("No", 0), NoText>>
  <2>1. c = "poweroff"
    BY DEF Commands
  <2>2. DialogLines("poweroff", e) =
          <<Text("poweroff", 0), Text("Yes", 0), Text("No", 0), NoText>>
    BY Zenon DEF DialogLines, Commands, Messages
  <2> QED
    BY <2>1, <2>2
<1>2. PICK g : g = Rows(c, e)
  OBVIOUS
<1>3. \A i \in 1..4 : g[i] = Screen(c)[i + 1]
  BY <1>1, <1>2 DEF Rows, Screen, Question
<1>4. IsSeq(Clear) /\ IsSeq(g) /\ IsSeq(Cursor)
  BY <1>2, PlainRows, PlainParts DEF Plain
<1>5. Len(Clear) = 1 /\ Clear[1] = Screen(c)[1] /\ Len(g) = 4
  BY <1>2, PlainRows, Listed DEF Clear, Screen
<1>6. Len(Cursor) = 1 /\ Cursor[1] = Screen(c)[6]
  BY Listed DEF Cursor, Screen
<1>7. PICK h : h = Clear \o g
  OBVIOUS
<1>8. /\ IsSeq(h) /\ Len(h) = Len(Clear) + Len(g)
      /\ \A i \in 1..Len(Clear) : h[i] = Clear[i]
      /\ \A i \in 1..Len(g) : h[Len(Clear) + i] = g[i]
  BY ONLY <1>4, <1>7, Joined
<1>9. ASSUME NEW i \in 1..5 PROVE h[i] = Screen(c)[i]
  <2>1. CASE i = 1
    BY <1>5, <1>8, <2>1
  <2>2. CASE i # 1
    <3>1. i - 1 \in 1..4 /\ i = 1 + (i - 1)
      BY <2>2
    <3>2. h[1 + (i - 1)] = g[i - 1]
      BY <1>5, <1>8, <3>1
    <3> QED
      BY <1>3, <3>1, <3>2
  <2> QED
    BY <2>1, <2>2
<1>10. PICK k : k = h \o Cursor
  OBVIOUS
<1>11. /\ IsSeq(k) /\ Len(k) = Len(h) + Len(Cursor)
       /\ \A i \in 1..Len(h) : k[i] = h[i]
       /\ \A i \in 1..Len(Cursor) : k[Len(h) + i] = Cursor[i]
  <2>1. IsSeq(h)
    BY <1>8
  <2> QED
    BY ONLY <1>4, <1>10, <2>1, Joined
<1>12. Len(h) = 5
  BY <1>5, <1>8
<1>13. ASSUME NEW i \in 1..6 PROVE k[i] = Screen(c)[i]
  <2>1. CASE i \in 1..5
    BY <1>9, <1>11, <1>12, <2>1
  <2>2. CASE i = 6
    BY <1>6, <1>11, <1>12, <2>2
  <2> QED
    BY <2>1, <2>2
<1> QED
  BY <1>2, <1>6, <1>7, <1>10, <1>11, <1>12, <1>13 DEF DrawDialog

\* An update of the file, with what comes after it.
LEMMA Updates == \A t, v : Pending(Update(t, v), 0)
BY Listed DEF Update, Op, Pending

LEMMA UpdatedThere ==
  ASSUME NEW f, f = [i \in DOMAIN f |-> f[i]], f # Missing, NEW sec, NEW t, NEW v
  PROVE  /\ Updated(f, sec, t, v) # Missing
         /\ Updated(f, sec, t, v) = [i \in DOMAIN Updated(f, sec, t, v) |-> Updated(f, sec, t, v)[i]]
<1>1. PICK g : g = Updated(f, sec, t, v)
  OBVIOUS
<1>2. /\ DOMAIN g = DOMAIN f /\ g = [i \in DOMAIN g |-> g[i]]
      /\ \A i \in DOMAIN f : g[i] \in {f[i], Token(t, v)}
  BY <1>1, Zenon DEF Updated
<1>3. ASSUME g = Missing PROVE FALSE
  <2>1. DOMAIN g = 1..1 /\ g[1] = [k |-> "missing"]
    BY <1>3 DEF Missing
  <2>2. g[1] # Token(t, v)
    BY <2>1 DEF Token
  <2>3. f[1] = [k |-> "missing"] /\ DOMAIN f = 1..1
    BY <1>2, <2>1, <2>2
  <2>4. f = [i \in 1..1 |-> [k |-> "missing"]]
    BY <2>3
  <2>5. f = Missing
    BY <2>4 DEF Missing
  <2> QED
    BY <2>5
<1> QED
  BY <1>1, <1>2, <1>3

-----------------------------------------------------------------------------
(* The display and the screens *)

\* What the program takes for shown after it sent a packet.
LEMMA ToldLines ==
  ASSUME NEW c, DOMAIN cache = Told, DOMAIN cache.lines = 0..3
  PROVE  /\ DOMAIN Believed(c) = Told /\ DOMAIN Believed(c).lines = 0..3
         /\ Believed(c).lines = IF c.op = "clear" THEN Blank
                                ELSE IF c.op = "line" THEN [cache.lines EXCEPT ![c.n] = c.text]
                                ELSE cache.lines
BY DEF Believed, Told, LinesAfter, Blank

LEMMA Screens ==
  /\ DOMAIN Status = Fields /\ Status.at = "status" /\ Status.dlg = ""
  /\ \A m, r : /\ DOMAIN InMenu(m, r) = Fields
                /\ InMenu(m, r).at = "menu" /\ InMenu(m, r).menus = m
BY DEF Status, InMenu, Fields

\* The menu behind a chain of menus.
LEMMA Chains ==
  /\ <<"main">> \in Seq(DOMAIN Menus) /\ <<"main">> # << >>
  /\ \A m \in Seq(DOMAIN Menus) :
       /\ \A x \in DOMAIN Menus : Append(m, x) \in Seq(DOMAIN Menus) /\ Append(m, x) # << >>
       /\ Len(m) > 1 => Front(m) \in Seq(DOMAIN Menus) /\ Front(m) # << >>
<1>1. "main" \in DOMAIN Menus
  BY DEF Menus
<1>2. <<"main">> \in Seq(DOMAIN Menus) /\ <<"main">> # << >>
  BY <1>1
<1>3. ASSUME NEW m \in Seq(DOMAIN Menus), NEW x \in DOMAIN Menus
      PROVE  Append(m, x) \in Seq(DOMAIN Menus) /\ Append(m, x) # << >>
  <2>1. Append(m, x) \in Seq(DOMAIN Menus) /\ Len(Append(m, x)) = Len(m) + 1 /\ Len(m) \in Nat
    BY <1>3
  <2> QED
    BY <2>1
<1>4. ASSUME NEW m \in Seq(DOMAIN Menus), Len(m) > 1
      PROVE  Front(m) \in Seq(DOMAIN Menus) /\ Front(m) # << >>
  <2>1. Len(m) \in Nat /\ \A i \in 1..Len(m) : m[i] \in DOMAIN Menus
    OBVIOUS
  <2>2. Front(m) \in Seq(DOMAIN Menus) /\ Len(Front(m)) = Len(m) - 1
    BY <1>4, <2>1 DEF Front
  <2> QED
    BY <1>4, <2>1, <2>2
<1> QED
  BY <1>2, <1>3, <1>4

-----------------------------------------------------------------------------
(* What is left to be done *)

LEMMA PlainTail == ASSUME NEW q, Plain(q), q # << >> PROVE Plain(Tail(q))
<1>1. /\ Len(q) \in Nat \ {0} /\ IsSeq(Tail(q)) /\ Len(Tail(q)) = Len(q) - 1
      /\ \A i \in 1..Len(q) - 1 : Tail(q)[i] = q[i + 1]
  BY Parts DEF Plain
<1>2. ASSUME NEW i \in 1..Len(q) - 1 PROVE PlainOp(Tail(q), i)
  <2>1. i + 1 \in 1..Len(q)
    BY <1>1
  <2>2. PlainOp(q, i + 1)
    BY <2>1 DEF Plain
  <2> QED
    BY <1>1, <2>1, <2>2 DEF PlainOp
<1> QED
  BY <1>1, <1>2 DEF Plain

\* Nothing of an update is left when something else comes first.
LEMMA PlainLeft ==
  ASSUME Shape, TodoInv, todo # << >>, Head(todo).op \notin {"write", "unlink", "rename"}
  PROVE  Plain(todo) /\ file # Missing
<1>1. PICK k \in 0..3 : /\ Pending(todo, k)
                        /\ k \in 1..2 => tmpfile # Missing
                        /\ Running /\ file = Missing => k = 2
  BY Zenon DEF TodoInv
<1>2. Head(todo) = todo[1] /\ Running
  BY Parts DEF Shape
<1>3. ASSUME k # 3 PROVE FALSE
  <2>1. todo[1].op = <<"write", "unlink", "rename">>[1 + k]
    BY <1>1, <1>3 DEF Pending
  <2>2. <<"write", "unlink", "rename">>[1 + k] \in {"write", "unlink", "rename"}
    BY <1>3
  <2> QED
    BY <1>2, <2>1, <2>2
<1> QED
  BY <1>1, <1>2, <1>3, PlainPending

LEMMA NothingLeft ==
  ASSUME Shape, TodoInv, todo = << >>, Running
  PROVE  file # Missing
<1>1. PICK k \in 0..3 : /\ Pending(todo, k)
                        /\ k \in 1..2 => tmpfile # Missing
                        /\ Running /\ file = Missing => k = 2
  BY Zenon DEF TodoInv
<1>2. 3 - k <= 0
  BY <1>1, Empty DEF Pending
<1> QED
  BY <1>1, <1>2

LEMMA PlainTodo ==
  ASSUME Plain(todo'), file' # Missing
  PROVE  TodoInv' /\ SomewhereSaved'
<1>1. Pending(todo', 3)
  BY PlainPending
<1>2. Pending(todo, 3)' <=> Pending(todo', 3)
  BY DEF Pending, PlainOp
<1> QED
  BY <1>1, <1>2 DEF TodoInv, SomewhereSaved

LEMMA PendingTodo ==
  ASSUME Pending(todo', 0), file' # Missing
  PROVE  TodoInv' /\ SomewhereSaved'
<1>1. Pending(todo, 0)' <=> Pending(todo', 0)
  BY DEF Pending, PlainOp
<1> QED
  BY <1>1 DEF TodoInv, SomewhereSaved

LEMMA SameTodo ==
  ASSUME TodoInv, SomewhereSaved, UNCHANGED <<todo, file, tmpfile>>, Running' => Running
  PROVE  TodoInv' /\ SomewhereSaved'
<1>1. ASSUME NEW k PROVE Pending(todo, k)' <=> Pending(todo, k)
  BY DEF Pending, PlainOp
<1> QED
  BY <1>1 DEF TodoInv, SomewhereSaved

-----------------------------------------------------------------------------
(* The packets that came *)

LEMMA SameInbox == InboxInv /\ UNCHANGED <<inbox, held, late>> => InboxInv'
BY DEF InboxInv, Awaited

LEMMA ReadInbox ==
  ASSUME Shape, InboxInv, inbox # << >>, inbox' = Tail(inbox), UNCHANGED <<held, late>>
  PROVE  InboxInv' /\ IsSeq(inbox')
<1>1. /\ Len(inbox) \in Nat \ {0} /\ IsSeq(inbox') /\ Len(inbox') = Len(inbox) - 1
      /\ \A i \in 1..Len(inbox) - 1 : inbox'[i] = inbox[i + 1]
  BY Parts DEF Shape
<1>2. Awaited' = Awaited /\ Awaited \in Nat /\ Most \in Nat
  BY LCDAssumption DEF Awaited, Most, Shape
<1>3. Len(inbox') + Awaited' <= Most
  BY <1>1, <1>2 DEF InboxInv
<1>4. ASSUME NEW i \in 1..Len(inbox') PROVE inbox'[i].seen \in Questions \cup {NoText, Unshown}
  BY <1>1 DEF InboxInv
<1> QED
  BY <1>1, <1>3, <1>4 DEF InboxInv

\* What the program does when nothing is left to be done.
LEMMA Idles ==
  ASSUME IInv, NEW at \in {"status", "menu", "dialog"}, Idle(at),
         UNCHANGED <<cache, file, tmpfile, held, late>>,
         inbox' = inbox \/ (inbox # << >> /\ inbox' = Tail(inbox)),
         DOMAIN ui' = Fields, ui'.at \in {"status", "menu", "dialog"}, InChain(ui'),
         Plain(todo') \/ Pending(todo', 0),
         DialogInv'
  PROVE  IInv'
<1>1. Running /\ todo = << >> /\ Running'
  BY DEF Idle, Running
<1>2. file' # Missing
  BY <1>1, NothingLeft DEF IInv
<1>3. TodoInv' /\ SomewhereSaved'
  BY <1>2, PlainTodo, PendingTodo
<1>4. InboxInv' /\ IsSeq(inbox')
  BY SameInbox, ReadInbox DEF IInv, Shape
<1>5. Shape'
  BY <1>1, <1>4 DEF IInv, Shape, Plain, Pending, InChain
<1> QED
  BY <1>3, <1>4, <1>5 DEF IInv

-----------------------------------------------------------------------------
(* Packets are sent, and answered *)

LEMMA Padding == \A t : Padded(t) # NoText
<1>1. ASSUME NEW t PROVE Len(Padded(t)) = 3
  BY DEF Padded
<1>2. Len(NoText) = 2
  BY DEF NoText, Text
<1> QED
  BY <1>1, <1>2

\* The next packet of the confirmation, which the display was not told before.
LEMMA AskingHead ==
  ASSUME Shape, NEW c, Asking(c), todo # << >>
  PROVE  LET n == Len(todo)
             h == Head(todo)
         IN  /\ n \in 1..6 /\ Running /\ ~Cached(h)
             /\ n = 6 => h.op = "clear"
             /\ n \in 2..5 => h.op = "line" /\ h.n = 5 - n
             /\ n = 5 => h.text = Question(c)
             /\ n = 1 => h.op = "cursor"
<1>1. /\ Len(todo) \in Nat \ {0} /\ Head(todo) = todo[1] /\ Running
  BY Parts DEF Shape
<1>2. Len(todo) \in 1..6 /\ Head(todo) = Screen(c)[7 - Len(todo)]
  <2>1. Len(todo) \in 1..6 /\ todo[1] = Screen(c)[6 - Len(todo) + 1]
    BY <1>1 DEF Asking
  <2> QED
    BY <1>1, <2>1
<1>3. CASE Len(todo) = 6
  BY <1>1, <1>2, <1>3 DEF Screen, Op, Cached
<1>4. CASE Len(todo) = 1
  BY <1>1, <1>2, <1>4 DEF Screen, Op, Cached
<1>5. CASE Len(todo) \in 2..5
  <2>1. cache.lines[5 - Len(todo)] = NoText
    <3>1. \A r \in 0..3 : Len(todo) <= 5 /\ 5 - Len(todo) <= r => cache.lines[r] = NoText
      BY DEF Asking
    <3>2. ASSUME NEW n \in 2..5 PROVE 5 - n \in 0..3 /\ n <= 5 /\ 5 - n <= 5 - n
      OBVIOUS
    <3> QED
      BY <1>5, <3>1, <3>2
  <2>2. /\ Head(todo).op = "line" /\ Head(todo).n = 5 - Len(todo)
        /\ Len(todo) = 5 => Head(todo).text = Question(c)
        /\ \E t : Head(todo).text = Padded(t)
    <3>1. CASE Len(todo) = 5
      BY <1>2, <3>1 DEF Screen, Op, Question
    <3>2. CASE Len(todo) = 4
      BY <1>2, <3>2 DEF Screen, Op
    <3>3. CASE Len(todo) = 3
      BY <1>2, <3>3 DEF Screen, Op
    <3>4. CASE Len(todo) = 2
      BY <1>2, <3>4 DEF Screen, Op
    <3> QED
      BY <1>5, <3>1, <3>2, <3>3, <3>4
  <2>3. Head(todo).text # NoText
    BY <2>2, Padding
  <2>4. ~Cached(Head(todo))
    BY <2>1, <2>2, <2>3 DEF Cached
  <2>5. Len(todo) \in 1..6 /\ Len(todo) # 6 /\ Len(todo) # 1
    BY ONLY <1>5
  <2> QED
    BY <1>1, <2>2, <2>4, <2>5
<1> QED
  BY <1>2, <1>3, <1>4, <1>5

LEMMA SkipPlain ==
  ASSUME IInv, Skip
  PROVE  Plain(todo) /\ file # Missing /\ Plain(todo')
<1>1. todo # << >> /\ Head(todo).op \in Packets /\ Cached(Head(todo))
  BY DEF Skip
<1>2. Plain(todo) /\ file # Missing
  BY <1>1, PlainLeft DEF IInv, Packets
<1>3. Plain(todo')
  <2>1. CASE Head(todo).op = "led"
    <3>1. todo' = Tail(Tail(todo)) /\ Head(todo).n = 1
      BY <2>1 DEF Skip, Cached
    <3>2. /\ Len(todo) \in Nat \ {0} /\ Head(todo) = todo[1]
          /\ IsSeq(Tail(todo)) /\ Len(Tail(todo)) = Len(todo) - 1
      BY <1>1, <1>2, Parts DEF Plain
    <3>3. 1 < Len(todo)
      BY <1>2, <2>1, <3>1, <3>2 DEF Plain, PlainOp
    <3>4. Len(Tail(todo)) # 0
      BY <3>2, <3>3
    <3>5. Tail(todo) # << >>
      BY <3>4, Empty, Zenon
    <3> QED
      BY <1>1, <1>2, <3>1, <3>5, PlainTail
  <2>2. CASE Head(todo).op # "led"
    BY <1>1, <1>2, <2>2, PlainTail DEF Skip
  <2> QED
    BY <2>1, <2>2
<1> QED
  BY <1>2, <1>3

LEMMA SkipIInv == IInv /\ Skip => IInv'
<1> SUFFICES ASSUME IInv, Skip PROVE IInv'
  OBVIOUS
<1>1. todo # << >> /\ Head(todo).op \in Packets /\ Cached(Head(todo))
  BY DEF Skip
<1>2. Plain(todo) /\ file # Missing /\ Plain(todo')
  BY SkipPlain
<1>4. TodoInv' /\ SomewhereSaved'
  BY <1>2, PlainTodo DEF Skip
<1>5. DialogInv'
  BY <1>1, AskingHead DEF IInv, DialogInv, Skip
<1>6. Running
  BY <1>1 DEF IInv, Shape
<1>7. Shape' /\ InboxInv'
  BY <1>2, <1>6, SameInbox DEF IInv, Shape, Skip, link, Plain, Running, InChain
<1> QED
  BY <1>4, <1>5, <1>7 DEF IInv

\* Each packet that is sent takes one from the inbox, if only its own answer.
LEMMA Answered ==
  ASSUME Shape, InboxInv, Exchange
  PROVE  /\ IsSeq(inbox') /\ Len(inbox') \in Nat
         /\ Len(inbox') + Awaited' <= Most
         /\ \A i \in 1..Len(inbox') :
              inbox'[i] # Response => i + 1 \in 1..Len(inbox) /\ inbox'[i] = inbox[i + 1]
<1>1. IsSeq(inbox) /\ Len(inbox) \in Nat /\ held' = held /\ held \in BOOLEAN
      /\ late \in Nat /\ Awaited \in Nat /\ MaxInbox \in Nat /\ MaxLate \in Nat
  BY Lengths, LCDAssumption DEF Shape, Exchange, Awaited
<1>2. CASE inbox' = GetResponse(Append(inbox, Response)) /\ late' = late
  <2>1. PICK q : q = Append(inbox, Response)
    OBVIOUS
  <2>2. /\ IsSeq(q) /\ Len(q) = Len(inbox) + 1
        /\ \A i \in 1..Len(inbox) : q[i] = inbox[i]
        /\ q[Len(inbox) + 1] = Response
    BY ONLY <1>1, <2>1, Extended
  <2>3. q # << >>
    BY <1>1, <2>2, Empty
  <2>4. inbox' = Tail(q)
    BY <1>2, <2>1, <2>3 DEF GetResponse
  <2>5. /\ IsSeq(inbox') /\ Len(inbox') = Len(q) - 1
        /\ \A i \in 1..Len(q) - 1 : inbox'[i] = q[i + 1]
    BY <2>2, <2>3, <2>4, Parts
  <2>6. Len(inbox') = Len(inbox) /\ Awaited' = Awaited
    BY <1>1, <1>2, <2>2, <2>5 DEF Awaited
  <2>7. ASSUME NEW i \in 1..Len(inbox') PROVE inbox'[i] # Response => i + 1 \in 1..Len(inbox) /\ inbox'[i] = inbox[i + 1]
    <3>1. inbox'[i] = q[i + 1]
      BY <1>1, <2>2, <2>5, <2>6
    <3>2. CASE i = Len(inbox)
      BY <2>2, <3>1, <3>2
    <3>3. CASE i # Len(inbox)
      BY <1>1, <2>2, <2>6, <3>1, <3>3
    <3> QED
      BY <3>2, <3>3
  <2>8. Len(inbox') + Awaited' <= Most
    BY <2>6 DEF InboxInv
  <2>9. IsSeq(inbox') /\ Len(inbox') \in Nat
    BY <1>1, <2>5, <2>6
  <2> QED
    BY <2>7, <2>8, <2>9
<1>3. CASE inbox' = GetResponse(inbox) /\ (late' = late \/ (late < MaxLate /\ late' = late + 1))
  <2>1. Awaited' \in {Awaited, Awaited + 1} /\ Awaited' <= MaxLate + 1
    BY <1>1, <1>3 DEF Awaited, Shape
  <2>2. CASE inbox = << >>
    <3>1. inbox' = << >>
      BY <1>3, <2>2 DEF GetResponse
    <3>2. Len(inbox') = 0
      BY <3>1, Empty, Zenon
    <3>3. 1..Len(inbox') = {}
      BY <3>2
    <3>4. Len(inbox') + Awaited' <= Most
      <4>1. Awaited' \in Nat
        BY <1>1, <2>1
      <4>2. MaxLate + 1 <= Most /\ Most \in Nat
        BY <1>1 DEF Most
      <4>3. Awaited' <= Most
        BY <1>1, <2>1, <4>1, <4>2
      <4>4. ASSUME NEW l, l = 0, NEW x \in Nat, NEW y \in Nat, x <= y PROVE l + x <= y
        BY ONLY <4>4
      <4> QED
        BY ONLY <3>2, <4>1, <4>2, <4>3, <4>4
    <3> QED
      BY <3>1, <3>2, <3>3, <3>4, Empty
  <2>3. CASE inbox # << >>
    <3>1. inbox' = Tail(inbox)
      BY <1>3, <2>3 DEF GetResponse
    <3>2. /\ IsSeq(inbox') /\ Len(inbox') = Len(inbox) - 1 /\ Len(inbox) \in Nat \ {0}
          /\ \A i \in 1..Len(inbox) - 1 : inbox'[i] = inbox[i + 1]
      BY <1>1, <2>3, <3>1, Parts
    <3>3. Len(inbox') + Awaited' <= Len(inbox) + Awaited
      BY <1>1, <2>1, <3>2
    <3>4. ASSUME NEW i \in 1..Len(inbox') PROVE i + 1 \in 1..Len(inbox) /\ inbox'[i] = inbox[i + 1]
      BY <3>2
    <3>5. Len(inbox') + Awaited' <= Most
      BY <1>1, <2>1, <3>2, <3>3 DEF InboxInv, Most
    <3> QED
      BY <3>2, <3>4, <3>5
  <2> QED
    BY <2>2, <2>3
<1>4. \/ inbox' = GetResponse(Append(inbox, Response)) /\ late' = late
      \/ inbox' = GetResponse(inbox) /\ (late' = late \/ (late < MaxLate /\ late' = late + 1))
  BY Zenon DEF Exchange
<1> QED
  BY <1>2, <1>3, <1>4

\* The question comes on the display, and with every packet that follows the keys
\* typed before it get one fewer.
LEMMA ExchangeAsking ==
  ASSUME IInv, Exchange, NEW c, Asking(c)
  PROVE  Asking(c)'
<1> DEFINE h == Head(todo)
<1>1. Shape /\ InboxInv /\ todo # << >>
  BY DEF IInv, Exchange
<1>2. PICK n : n = Len(todo)
  OBVIOUS
<1>3. /\ n \in 1..6
      /\ n = 6 => h.op = "clear"
      /\ n \in 2..5 => h.op = "line" /\ h.n = 5 - n
      /\ n = 5 => h.text = Question(c)
      /\ n = 1 => h.op = "cursor"
  BY <1>1, <1>2, AskingHead
<1>4. Len(todo') = n - 1 /\ \A i \in 1..n - 1 : todo'[i] = todo[i + 1]
  BY <1>1, <1>2, Parts DEF Exchange, Shape
<1>5. /\ cache'.lines = IF h.op = "clear" THEN Blank
                         ELSE IF h.op = "line" THEN [cache.lines EXCEPT ![h.n] = h.text]
                         ELSE cache.lines
      /\ DOMAIN cache.lines = 0..3
  BY <1>1, ToldLines DEF Exchange, Shape
<1>6. /\ ui.focus \in 1..2
      /\ \A i \in 1..n : todo[i] = Screen(c)[6 - n + i]
      /\ \A r \in 0..3 : n <= 5 /\ 5 - n <= r => cache.lines[r] = NoText
      /\ n <= 4 => cache.lines[0] = Question(c)
      /\ n <= 4 /\ Few =>
           \A i \in 1..Len(inbox) : inbox[i].kind = "enter" /\ inbox[i].seen = NoText => i <= n
  BY <1>2 DEF Asking
<1>7. ASSUME NEW i \in 1..n - 1 PROVE todo'[i] = Screen(c)[6 - (n - 1) + i]
  <2>1. i + 1 \in 1..n /\ 6 - n + (i + 1) = 6 - (n - 1) + i
    BY <1>3
  <2> QED
    BY <1>4, <1>6, <2>1
<1>8. ASSUME NEW r \in 0..3, 5 - (n - 1) <= r PROVE cache'.lines[r] = NoText
  <2>1. CASE n = 6
    BY <1>3, <1>5, <2>1 DEF Blank
  <2>2. CASE n \in 2..5
    <3>1. h.op = "line" /\ h.n # r /\ n <= 5 /\ 5 - n <= r
      BY <1>3, <1>8, <2>2
    <3>2. cache.lines[r] = NoText
      BY <1>6, <3>1
    <3> QED
      BY <1>5, <3>1, <3>2
  <2>3. CASE n = 1
    BY <1>8, <2>3
  <2> QED
    BY <1>3, <2>1, <2>2, <2>3
<1>9. ASSUME n - 1 <= 4 PROVE cache'.lines[0] = Question(c)
  <2>1. CASE n = 5
    BY <1>3, <1>5, <2>1
  <2>2. CASE n \in 2..4
    <3>1. h.op = "line" /\ h.n # 0 /\ n <= 4
      BY <1>3, <2>2
    <3> QED
      BY <1>5, <1>6, <3>1
  <2>3. CASE n = 1
    BY <1>3, <1>5, <1>6, <2>3
  <2> QED
    BY <1>3, <1>9, <2>1, <2>2, <2>3
<1>10. ASSUME n - 1 <= 4, Few, NEW i \in 1..Len(inbox'),
              inbox'[i].kind = "enter", inbox'[i].seen = NoText
       PROVE  i <= n - 1
  <2>1. Len(inbox) \in Nat /\ Len(inbox) <= 5
    <3>1. Awaited \in Nat
      BY LCDAssumption DEF Awaited, IInv, Shape
    <3>2. Len(inbox) \in Nat
      BY <1>1, Lengths DEF Shape
    <3> QED
      BY <1>1, <1>10, <3>1, <3>2, LCDAssumption DEF InboxInv, Most, Few
  <2>2. inbox'[i] # Response
    BY <1>10 DEF Response
  <2>3. /\ IsSeq(inbox') /\ Len(inbox') \in Nat
        /\ i + 1 \in 1..Len(inbox) /\ inbox'[i] = inbox[i + 1]
    BY <1>1, <1>10, <2>2, Answered
  <2>4. CASE n = 5
    BY <1>10, <2>1, <2>3, <2>4
  <2>5. CASE n <= 4
    <3>1. i + 1 <= n
      BY <1>6, <1>10, <2>3, <2>5
    <3> QED
      BY <1>3, <2>3, <3>1
  <2> QED
    BY <1>3, <1>10, <2>4, <2>5
<1>11. ui' = ui
  BY DEF Exchange
<1>12. n - 1 \in 0..6
  BY <1>3
<1> QED
  BY <1>3, <1>4, <1>6, <1>7, <1>8, <1>9, <1>10, <1>11, <1>12 DEF Asking, Screen

LEMMA ExchangeIInv == IInv /\ Exchange => IInv'
<1> SUFFICES ASSUME IInv, Exchange PROVE IInv'
  OBVIOUS
<1>1. todo # << >> /\ Head(todo).op \in Packets
  BY DEF Exchange
<1>2. Plain(todo) /\ file # Missing
  BY <1>1, PlainLeft DEF IInv, Packets
<1>3. Plain(todo')
  BY <1>1, <1>2, PlainTail DEF Exchange
<1>4. TodoInv' /\ SomewhereSaved'
  BY <1>2, <1>3, PlainTodo DEF Exchange
<1>5. DialogInv'
  <2>1. ui' = ui
    BY DEF Exchange
  <2>2. CASE ui.at = "dialog" /\ ui.dlg \in Commands
    <3>1. PICK c : c = ui.dlg
      OBVIOUS
    <3>2. Asking(c)
      BY <2>2, <3>1 DEF IInv, DialogInv
    <3>3. Asking(c)'
      BY <3>2, ExchangeAsking
    <3> QED
      BY <2>1, <3>1, <3>3 DEF DialogInv, Asking
  <2>3. CASE ~(ui.at = "dialog" /\ ui.dlg \in Commands)
    BY <2>1, <2>3 DEF DialogInv
  <2> QED
    BY <2>2, <2>3
<1>6. /\ IsSeq(inbox')
      /\ Len(inbox') + Awaited' <= Most
      /\ \A i \in 1..Len(inbox') :
            inbox'[i] # Response => i + 1 \in 1..Len(inbox) /\ inbox'[i] = inbox[i + 1]
  BY Answered DEF IInv
<1>7. InboxInv'
  <2>1. Response.seen = NoText
    BY DEF Response
  <2>2. ASSUME NEW i \in 1..Len(inbox') PROVE inbox'[i].seen \in Questions \cup {NoText, Unshown}
    BY <1>6, <2>1 DEF IInv, InboxInv
  <2> QED
    BY <1>6, <2>2 DEF InboxInv
<1>8. DOMAIN cache' = Told /\ DOMAIN cache'.lines = 0..3 /\ late' \in 0..MaxLate
  <2>1. cache' = Believed(Head(todo))
    BY DEF Exchange
  <2>2. DOMAIN cache = Told /\ DOMAIN cache.lines = 0..3 /\ late \in 0..MaxLate
    BY DEF IInv, Shape
  <2>3. late' = late \/ (late < MaxLate /\ late' = late + 1)
    BY DEF Exchange
  <2>4. late' \in 0..MaxLate
    BY <2>2, <2>3, LCDAssumption
  <2> QED
    BY <2>1, <2>2, <2>4, ToldLines
<1>9. Running
  BY <1>1 DEF IInv, Shape
<1>10. Shape'
  BY <1>3, <1>6, <1>8, <1>9 DEF IInv, Shape, Exchange, Plain, Running, InChain
<1> QED
  BY <1>4, <1>5, <1>7, <1>8, <1>10 DEF IInv

-----------------------------------------------------------------------------
(* The configuration file and commands *)

LEMMA PendingTail ==
  ASSUME NEW q, NEW k \in 0..2, Pending(q, k)
  PROVE  /\ q # << >> /\ Pending(Tail(q), k + 1)
         /\ Head(q).op = <<"write", "unlink", "rename">>[1 + k]
<1>1. IsSeq(q) /\ 3 - k <= Len(q) /\ Len(q) \in Nat
  BY Lengths DEF Pending
<1>2. Len(q) # 0
  BY <1>1
<1>3. q # << >>
  BY <1>2, Empty, Zenon
<1>4. /\ Head(q) = q[1] /\ IsSeq(Tail(q)) /\ Len(Tail(q)) = Len(q) - 1
      /\ \A i \in 1..Len(q) - 1 : Tail(q)[i] = q[i + 1]
  BY <1>1, <1>3, Parts
<1>5. Head(q).op = <<"write", "unlink", "rename">>[1 + k]
  BY <1>4 DEF Pending
<1>6. ASSUME NEW i \in 1..3 - (k + 1)
      PROVE  Tail(q)[i].op = <<"write", "unlink", "rename">>[i + (k + 1)]
  <2>1. i + 1 \in 1..3 - k /\ i \in 1..Len(q) - 1 /\ (i + 1) + k = i + (k + 1)
    BY <1>1
  <2>2. q[i + 1].op = <<"write", "unlink", "rename">>[(i + 1) + k]
    BY <2>1 DEF Pending
  <2> QED
    BY <1>4, <2>1, <2>2
<1>7. ASSUME NEW i \in 4 - (k + 1)..Len(Tail(q)) PROVE PlainOp(Tail(q), i)
  <2>1. i + 1 \in 4 - k..Len(q) /\ i \in 1..Len(q) - 1
    BY <1>1, <1>4
  <2>2. PlainOp(q, i + 1)
    BY <2>1 DEF Pending
  <2> QED
    BY <1>1, <1>4, <2>1, <2>2 DEF PlainOp
<1>8. 3 - (k + 1) <= Len(Tail(q))
  BY <1>1, <1>4
<1> QED
  BY <1>3, <1>4, <1>5, <1>6, <1>7, <1>8 DEF Pending

\* The packets of a confirmation are not interrupted.
LEMMA AskingOnly ==
  ASSUME IInv, todo # << >>, Head(todo).op \notin Packets
  PROVE  ~(ui.at = "dialog" /\ ui.dlg \in Commands)
<1>1. ASSUME ui.at = "dialog", ui.dlg \in Commands PROVE FALSE
  <2>1. Asking(ui.dlg) /\ Shape
    BY <1>1 DEF IInv, DialogInv
  <2>2. PICK n : n = Len(todo)
    OBVIOUS
  <2>3. /\ n \in 1..6
        /\ n = 6 => Head(todo).op = "clear"
        /\ n \in 2..5 => Head(todo).op = "line"
        /\ n = 1 => Head(todo).op = "cursor"
    BY <2>1, <2>2, AskingHead
  <2> QED
    BY <2>3 DEF Packets
<1> QED
  BY <1>1

LEMMA MissingThere == Missing = [i \in DOMAIN Missing |-> Missing[i]]
BY DEF Missing

LEMMA UpdateConfigIInv == IInv /\ UpdateConfig => IInv'
<1> SUFFICES ASSUME IInv, UpdateConfig PROVE IInv'
  OBVIOUS
<1>1. /\ todo # << >> /\ todo' = Tail(todo)
      /\ Head(todo).op \in {"write", "unlink", "rename"}
  BY DEF UpdateConfig
<1>2. /\ file = [i \in DOMAIN file |-> file[i]] /\ tmpfile = [i \in DOMAIN tmpfile |-> tmpfile[i]]
      /\ Running /\ IsSeq(todo)
  BY <1>1 DEF IInv, Shape
<1>3. PICK k \in 0..3 : /\ Pending(todo, k)
                        /\ k \in 1..2 => tmpfile # Missing
                        /\ Running /\ file = Missing => k = 2
  BY Zenon DEF IInv, TodoInv
<1>4. k \in 0..2
  <2>1. ASSUME k = 3 PROVE FALSE
    <3>1. Plain(todo)
      BY <1>3, <2>1, PlainPending
    <3>2. Len(todo) \in Nat \ {0} /\ Head(todo) = todo[1]
      BY <1>1, <1>2, Parts
    <3> QED
      BY <1>1, <3>1, <3>2 DEF Plain, PlainOp
  <2> QED
    BY <2>1
<1>5. Pending(todo', k + 1) /\ Head(todo).op = <<"write", "unlink", "rename">>[1 + k]
  BY <1>1, <1>3, <1>4, PendingTail
<1>6. /\ k + 1 \in 1..2 => tmpfile' # Missing
      /\ file' = Missing => k + 1 = 2
      /\ file' # Missing \/ tmpfile' # Missing
      /\ file' = [i \in DOMAIN file' |-> file'[i]] /\ tmpfile' = [i \in DOMAIN tmpfile' |-> tmpfile'[i]]
  <2>1. CASE k = 0
    <3>1. Head(todo).op = "write" /\ file # Missing
      BY <1>2, <1>3, <1>5, <2>1
    <3>2. PICK t, v : tmpfile' = Updated(file, "ui", t, v) /\ file' = file
      BY <3>1, Zenon DEF UpdateConfig
    <3>3. /\ Updated(file, "ui", t, v) # Missing
          /\ Updated(file, "ui", t, v) =
                [i \in DOMAIN Updated(file, "ui", t, v) |-> Updated(file, "ui", t, v)[i]]
      BY <1>2, <3>1, UpdatedThere
    <3> QED
      BY <1>2, <2>1, <3>1, <3>2, <3>3
  <2>2. CASE k = 1
    <3>1. Head(todo).op = "unlink" /\ tmpfile # Missing
      BY <1>3, <1>5, <2>2
    <3>2. file' = Missing /\ tmpfile' = tmpfile
      BY <3>1, Zenon DEF UpdateConfig
    <3> QED
      BY <1>2, <2>2, <3>1, <3>2, MissingThere
  <2>3. CASE k = 2
    <3>1. Head(todo).op = "rename" /\ tmpfile # Missing
      BY <1>3, <1>5, <2>3
    <3>2. file' = tmpfile /\ tmpfile' = Missing
      BY <3>1, Zenon DEF UpdateConfig
    <3> QED
      BY <1>2, <2>3, <3>1, <3>2, MissingThere
  <2> QED
    BY <1>4, <2>1, <2>2, <2>3
<1>7. TodoInv' /\ SomewhereSaved'
  <2>1. Pending(todo, k + 1)' <=> Pending(todo', k + 1)
    BY DEF Pending, PlainOp
  <2>2. k + 1 \in 0..3
    BY <1>4
  <2> QED
    BY <1>5, <1>6, <2>1, <2>2 DEF TodoInv, SomewhereSaved
<1>8. ~(ui.at = "dialog" /\ ui.dlg \in Commands)
  BY <1>1, AskingOnly DEF Packets
<1>9. IsSeq(todo')
  BY <1>1, <1>2, Parts
<1>10. Shape' /\ InboxInv' /\ DialogInv'
  BY <1>2, <1>6, <1>8, <1>9, SameInbox
     DEF IInv, Shape, DialogInv, UpdateConfig, Running, InChain, link
<1> QED
  BY <1>7, <1>10 DEF IInv

LEMMA SystemIInv == IInv /\ System => IInv'
<1> SUFFICES ASSUME IInv, System PROVE IInv'
  OBVIOUS
<1>1. todo # << >> /\ Head(todo).op = "system" /\ file' = file
  BY DEF System
<1>2. Plain(todo) /\ file # Missing
  BY <1>1, PlainLeft DEF IInv
<1>3. Plain(todo')
  BY <1>1, <1>2, PlainTail, PlainParts, PlainJoined DEF System
<1>4. TodoInv' /\ SomewhereSaved'
  BY <1>1, <1>2, <1>3, PlainTodo
<1>5. ~(ui.at = "dialog" /\ ui.dlg \in Commands)
  BY <1>1, AskingOnly DEF Packets
<1>6. Running
  BY <1>1 DEF IInv, Shape
<1>7. Shape' /\ InboxInv' /\ DialogInv'
  BY <1>3, <1>5, <1>6, SameInbox
     DEF IInv, Shape, DialogInv, System, Plain, Running, InChain, link
<1> QED
  BY <1>4, <1>7 DEF IInv

-----------------------------------------------------------------------------
(* The user and the display *)

\* A packet comes: an ENTER given without a question only before it is shown.
LEMMA Comes ==
  ASSUME IInv, NEW p, p.seen \in Questions \cup {NoText, Unshown},
         inbox' = inbox \/ inbox' = Append(inbox, p),
         UNCHANGED <<ui, todo, cache, file, tmpfile>>,
         Len(inbox') + Awaited' <= Most, held' \in BOOLEAN, late' \in 0..MaxLate,
         p.kind = "enter" /\ p.seen = NoText => \A c \in Commands : cache.lines[0] # Question(c)
  PROVE  IInv'
<1>1. IsSeq(inbox) /\ Len(inbox) \in Nat
  BY Lengths DEF IInv, Shape
<1>2. /\ IsSeq(inbox')
      /\ \A i \in 1..Len(inbox') : inbox'[i] = p \/ (i \in 1..Len(inbox) /\ inbox'[i] = inbox[i])
  <2>1. CASE inbox' = inbox
    BY <1>1, <2>1
  <2>2. CASE inbox' = Append(inbox, p)
    <3>1. /\ IsSeq(inbox') /\ Len(inbox') = Len(inbox) + 1
          /\ \A i \in 1..Len(inbox) : inbox'[i] = inbox[i]
          /\ inbox'[Len(inbox) + 1] = p
      BY <1>1, <2>2, Extended
    <3>2. ASSUME NEW i \in 1..Len(inbox')
          PROVE  inbox'[i] = p \/ (i \in 1..Len(inbox) /\ inbox'[i] = inbox[i])
      BY <1>1, <3>1
    <3> QED
      BY <3>1, <3>2
  <2> QED
    BY <2>1, <2>2
<1>3. InboxInv'
  <2>1. ASSUME NEW i \in 1..Len(inbox') PROVE inbox'[i].seen \in Questions \cup {NoText, Unshown}
    BY <1>2 DEF IInv, InboxInv
  <2> QED
    BY <2>1 DEF InboxInv
<1>4. DialogInv'
  <2> SUFFICES ASSUME ui.at = "dialog", NEW c \in Commands, c = ui.dlg PROVE Asking(c)'
    BY DEF DialogInv, Asking
  <2>1. Asking(c)
    BY DEF IInv, DialogInv
  <2>2. ASSUME Len(todo) <= 4, Few, NEW i \in 1..Len(inbox'),
               inbox'[i].kind = "enter", inbox'[i].seen = NoText
        PROVE  i <= Len(todo)
    <3>1. cache.lines[0] = Question(c)
      BY <2>1, <2>2 DEF Asking
    <3>2. inbox'[i] # p
      BY <2>2, <3>1
    <3> QED
      BY <1>2, <2>1, <2>2, <3>2 DEF Asking
  <2> QED
    BY <2>1, <2>2 DEF Asking, Screen
<1>5. TodoInv' /\ SomewhereSaved'
  BY SameTodo DEF IInv, Running
<1>6. Shape'
  BY <1>2 DEF IInv, Shape, Running, InChain
<1> QED
  BY <1>3, <1>4, <1>5, <1>6 DEF IInv

LEMMA Lengthened ==
  ASSUME Shape, NEW p, inbox' = inbox \/ inbox' = Append(inbox, p)
  PROVE  Len(inbox) \in Nat /\ Len(inbox') \in Nat /\ Len(inbox') <= Len(inbox) + 1
<1>1. IsSeq(inbox) /\ Len(inbox) \in Nat
  BY Lengths DEF Shape
<1>2. CASE inbox' = inbox
  BY <1>1, <1>2
<1>3. CASE inbox' = Append(inbox, p)
  <2>1. Len(inbox') = Len(inbox) + 1
    BY <1>1, <1>3, Extended
  <2> QED
    BY <1>1, <2>1
<1> QED
  BY <1>2, <1>3

LEMMA LateAnswerIInv == IInv /\ LateAnswer => IInv'
<1> SUFFICES ASSUME IInv, LateAnswer PROVE IInv'
  OBVIOUS
<1>1. /\ inbox' = inbox \/ inbox' = Append(inbox, Response)
      /\ late > 0 /\ late' = late - 1 /\ held' = held
  BY DEF LateAnswer, Receive
<1>2. Len(inbox) \in Nat /\ Len(inbox') \in Nat /\ Len(inbox') <= Len(inbox) + 1
  BY <1>1, Lengthened DEF IInv
<1>3. late \in 0..MaxLate /\ MaxLate \in Nat /\ MaxInbox \in Nat
  BY LCDAssumption DEF IInv, Shape
<1>4. Awaited' = Awaited - 1 /\ Awaited \in Nat
  BY <1>1, <1>3 DEF Awaited
<1>5. Len(inbox) + Awaited <= Most
  BY DEF IInv, InboxInv
<1>6. Len(inbox') + Awaited' <= Most
  BY <1>2, <1>3, <1>4, <1>5 DEF Most
<1>7. Response.seen = NoText /\ Response.kind # "enter"
  BY DEF Response
<1>8. UNCHANGED <<ui, todo, cache, file, tmpfile>> /\ held' \in BOOLEAN /\ late' \in 0..MaxLate
  BY <1>1, <1>3 DEF LateAnswer, IInv, Shape
<1> QED
  BY <1>1, <1>6, <1>7, <1>8, Comes

LEMMA PressIInv == IInv /\ Press => IInv'
<1> SUFFICES ASSUME IInv, Press PROVE IInv'
  OBVIOUS
<1>1. PICK p : p = [kind |-> "press", seen |-> NoText]
  OBVIOUS
<1>2. inbox' = inbox \/ inbox' = Append(inbox, p)
  BY <1>1 DEF Press, Send, Receive
<1>3. Len(inbox) \in Nat /\ Len(inbox') \in Nat /\ Len(inbox') <= Len(inbox) + 1
  BY <1>2, Lengthened DEF IInv
<1>4. late \in 0..MaxLate /\ late' = late /\ MaxLate \in Nat /\ MaxInbox \in Nat /\ Len(inbox) < MaxInbox
  BY LCDAssumption DEF IInv, Shape, Press, Send, link
<1>5. Len(inbox') + Awaited' <= Most
  BY <1>3, <1>4 DEF Awaited, Most
<1>6. p.seen = NoText /\ p.kind # "enter"
  BY <1>1
<1>7. UNCHANGED <<ui, todo, cache, file, tmpfile>> /\ held' \in BOOLEAN /\ late' \in 0..MaxLate
  BY <1>4 DEF Press, Send
<1> QED
  BY <1>2, <1>5, <1>6, <1>7, Comes

\* What an ENTER is given to: with a question where the program believes one, or else
\* the mark that the question was lost, it is not given to nothing.
Seen == IF disp.top # cache.lines[0] THEN Unshown ELSE Asked

LEMMA SeenQuestion ==
  /\ Seen \in Questions \cup {NoText, Unshown}
  /\ Seen = NoText => \A c \in Commands : cache.lines[0] # Question(c)
<1>1. Unshown # NoText
  BY DEF Unshown, NoText, Text
<1>2. CASE disp.top # cache.lines[0]
  BY <1>1, <1>2 DEF Seen
<1>3. CASE disp.top = cache.lines[0]
  <2>1. CASE \E c \in Commands : disp.top = Padded(Text(c, 0))
    BY <1>3, <2>1, Padding DEF Seen, Asked, Questions, Question
  <2>2. CASE ~\E c \in Commands : disp.top = Padded(Text(c, 0))
    BY <1>3, <2>2 DEF Seen, Asked, Questions, Question
  <2> QED
    BY <2>1, <2>2
<1> QED
  BY <1>2, <1>3

LEMMA ReleaseIInv == ASSUME NEW k, IInv, Release(k) PROVE IInv'
<1>1. PICK p : p = [kind |-> k, seen |-> IF k # "enter" THEN NoText ELSE Seen]
  OBVIOUS
<1>2. inbox' = inbox \/ inbox' = Append(inbox, p)
  BY <1>1 DEF Release, Send, Receive, Seen
<1>3. Len(inbox) \in Nat /\ Len(inbox') \in Nat /\ Len(inbox') <= Len(inbox) + 1
  BY <1>2, Lengthened DEF IInv
<1>4. Awaited' = Awaited - 1 /\ Awaited \in Nat /\ MaxLate \in Nat /\ late' = late
  BY LCDAssumption DEF Awaited, Release, Send, IInv, Shape, link
<1>5. Len(inbox) + Awaited <= Most /\ Most \in Nat
  BY LCDAssumption DEF IInv, InboxInv, Most
<1>6. Len(inbox') + Awaited' <= Most
  BY <1>3, <1>4, <1>5
<1>7. /\ p.seen \in Questions \cup {NoText, Unshown}
      /\ p.kind = "enter" /\ p.seen = NoText => \A c \in Commands : cache.lines[0] # Question(c)
  BY <1>1, SeenQuestion
<1>8. UNCHANGED <<ui, todo, cache, file, tmpfile>> /\ held' \in BOOLEAN /\ late' \in 0..MaxLate
  BY <1>4 DEF Release, Send, IInv, Shape
<1> QED
  BY <1>2, <1>6, <1>7, <1>8, Comes

-----------------------------------------------------------------------------
(* Start and end *)

LEMMA PlainStartup == \A c : Plain(Startup(c))
<1>1. ASSUME NEW c PROVE Plain(Startup(c))
  <2>1. Plain(LED("off") \o Back(c.intensity))
    BY PlainParts, PlainJoined
  <2> QED
    BY <2>1, PlainParts, PlainJoined DEF Startup
<1> QED
  BY <1>1

LEMMA TerminateIInv == IInv /\ Terminate => IInv'
<1> SUFFICES ASSUME IInv, Terminate PROVE IInv'
  OBVIOUS
<1>1. DOMAIN ui' = Fields /\ ui'.at = "down"
  BY DEF Terminate, Status, Fields
<1>2. todo' = << >> /\ inbox' = << >> /\ UNCHANGED <<file, tmpfile, held, late>>
  BY DEF Terminate, link
<1>3. DOMAIN cache' = Told /\ DOMAIN cache'.lines = 0..3
  BY DEF Terminate, Told, Unknown, Blank
<1>4. ~Running' /\ DialogInv'
  BY <1>1 DEF Running, DialogInv
<1>5. Plain(todo')
  BY <1>2, PlainEmpty
<1>6. TodoInv' /\ SomewhereSaved'
  <2>1. Pending(todo', 3)
    BY <1>5, PlainPending
  <2>2. Pending(todo, 3)' <=> Pending(todo', 3)
    BY DEF Pending, PlainOp
  <2> QED
    BY <1>2, <1>4, <2>1, <2>2 DEF TodoInv, SomewhereSaved, IInv
<1>7. InboxInv'
  <2>1. Awaited' \in Nat /\ Awaited' <= Most
    BY <1>2, LCDAssumption DEF Awaited, Most, IInv, Shape
  <2>2. Len(inbox') = 0
    BY <1>2, Empty
  <2>4. Len(inbox') + Awaited' <= Most
    BY <2>1, <2>2
  <2>5. 1..Len(inbox') = {}
    BY <2>2
  <2> QED
    BY <2>4, <2>5 DEF InboxInv
<1>8. Shape'
  BY <1>1, <1>2, <1>3, Empty DEF Shape, IInv, InChain
<1> QED
  BY <1>4, <1>6, <1>7, <1>8 DEF IInv

LEMMA RestartIInv == IInv /\ Restart => IInv'
<1> SUFFICES ASSUME IInv, Restart PROVE IInv'
  OBVIOUS
<1>1. ~Running /\ todo = << >> /\ UNCHANGED <<inbox, cache, file, tmpfile, held, late>>
  BY DEF Restart, link, IInv, Shape, Running
<1>2. CASE file = Missing
  <2>1. DOMAIN ui' = Fields /\ ui'.at = "dead" /\ todo' = todo
    BY <1>2 DEF Restart, Status, Fields
  <2>2. ~Running'
    BY <2>1 DEF Running
  <2>3. TodoInv' /\ SomewhereSaved'
    BY <1>1, <2>1, <2>2, SameTodo DEF IInv
  <2> QED
    BY <1>1, <2>1, <2>3, SameInbox DEF IInv, Shape, DialogInv, InChain
<1>3. CASE file # Missing
  <2>1. ui' = Status /\ todo' = Startup(cfg')
    BY <1>3 DEF Restart
  <2>2. DOMAIN ui' = Fields /\ ui'.at = "status" /\ Running'
    BY <2>1, Screens DEF Running
  <2>3. Plain(todo')
    BY <2>1, PlainStartup
  <2>4. TodoInv' /\ SomewhereSaved'
    BY <1>1, <1>3, <2>3, PlainTodo
  <2> QED
    BY <1>1, <2>2, <2>3, <2>4, SameInbox DEF IInv, Shape, DialogInv, InChain, Plain
<1> QED
  BY <1>2, <1>3

\* A file of lines is there.
LEMMA FileThere ==
  ASSUME NEW N, NEW V, NEW f \in Seq(Lines(N, V))
  PROVE  f # Missing /\ f = [i \in DOMAIN f |-> f[i]]
<1>1. f = [i \in DOMAIN f |-> f[i]] /\ \A i \in DOMAIN f : f[i] \in Lines(N, V)
  OBVIOUS
<1>2. ASSUME f = Missing PROVE FALSE
  <2>1. 1 \in DOMAIN f /\ f[1].k = "missing"
    BY <1>2 DEF Missing
  <2>2. f[1] \in Lines(N, V)
    BY <1>1, <2>1
  <2> QED
    BY <2>1, <2>2 DEF Lines
<1> QED
  BY <1>1, <1>2

LEMMA InitIInv == Init => IInv
<1> SUFFICES ASSUME Init PROVE IInv
  OBVIOUS
<1>1. DOMAIN ui = Fields /\ ui.at = "status"
  BY Screens DEF Init
<1>2. Plain(todo)
  BY PlainStartup DEF Init
<1>3. file # Missing /\ file = [i \in DOMAIN file |-> file[i]]
  <2>1. file \in Seq(Lines(STRING, Int))
    BY LCDAssumption DEF Init
  <2> QED
    BY <2>1, FileThere
<1>4. TodoInv /\ SomewhereSaved
  BY <1>2, <1>3, PlainPending DEF TodoInv, SomewhereSaved
<1>6. InboxInv
  <2>1. Awaited \in 0..1 /\ Most \in Nat /\ Most >= 1
    BY LCDAssumption DEF Awaited, Most, Init
  <2>2. Len(inbox) = 0
    BY Empty DEF Init
  <2>3. Len(inbox) + Awaited <= Most
    BY <2>1, <2>2
  <2>4. 1..Len(inbox) = {}
    BY <2>2
  <2> QED
    BY <2>3, <2>4 DEF InboxInv
<1>7. Shape
  <2>1. DOMAIN cache = Told /\ DOMAIN cache.lines = 0..3
    BY DEF Init, Told, Unknown, Blank
  <2>2. tmpfile = [i \in DOMAIN tmpfile |-> tmpfile[i]]
    BY MissingThere DEF Init
  <2>3. IsSeq(inbox) /\ IsSeq(todo) /\ held \in BOOLEAN /\ late \in 0..MaxLate
    <3>1. late = 0 /\ MaxLate \in Nat
      BY LCDAssumption DEF Init
    <3>2. late \in 0..MaxLate
      BY <3>1
    <3>3. IsSeq(inbox) /\ held \in BOOLEAN
      BY Empty DEF Init
    <3> QED
      BY <1>2, <3>2, <3>3 DEF Plain
  <2> QED
    BY <1>1, <1>3, <2>1, <2>2, <2>3 DEF Shape, Running, InChain
<1>8. DialogInv
  BY <1>1 DEF DialogInv
<1> QED
  BY <1>4, <1>6, <1>7, <1>8 DEF IInv

-----------------------------------------------------------------------------
(* The status screen and the menus *)

LEMMA NoQuestion == ui'.at # "dialog" => DialogInv'
BY DEF DialogInv

LEMMA StatusScreen ==
  ASSUME IInv, Idle("status"), UNCHANGED <<ui, cache, file, tmpfile, held, late>>,
         inbox' = inbox \/ (inbox # << >> /\ inbox' = Tail(inbox)), Plain(todo')
  PROVE  IInv'
<1>1. ui'.at = "status" /\ DOMAIN ui' = Fields
  BY DEF Idle, IInv, Shape
<1> QED
  BY <1>1, NoQuestion, Idles DEF InChain

LEMMA ShowStatusPlain == ASSUME ShowStatus PROVE Plain(todo')
<1>1. PICK check \in {lazy, TRUE}, alarms \in BOOLEAN :
        todo' = Line(0, Text("clock", 0)) \o
                (IF check THEN Line(1, Text("mode", cfg.mode)) \o Line(3, Text(IF alarms THEN "ALARM" ELSE "OK", 0))
                                  \o LED(IF alarms THEN "red" ELSE "green")
                          ELSE << >>)
  BY Zenon DEF ShowStatus
<1>2. Plain(todo')
  <2>1. PICK a, b, c : /\ a = Line(1, Text("mode", cfg.mode))
                       /\ b = Line(3, Text(IF alarms THEN "ALARM" ELSE "OK", 0))
                       /\ c = LED(IF alarms THEN "red" ELSE "green")
    BY Zenon
  <2>2. Plain(a) /\ Plain(b) /\ Plain(c)
    BY <2>1, PlainParts
  <2>3. Plain(a \o b)
    BY <2>2, PlainJoined
  <2>4. Plain((a \o b) \o c)
    BY <2>2, <2>3, PlainJoined
  <2>5. PICK d : d = IF check THEN (a \o b) \o c ELSE << >>
    OBVIOUS
  <2>6. Plain(d)
    BY <2>4, <2>5, PlainEmpty
  <2>7. todo' = Line(0, Text("clock", 0)) \o d
    BY <1>1, <2>1, <2>5, Zenon
  <2> QED
    BY <2>6, <2>7, PlainParts, PlainJoined
<1> QED
  BY <1>2

LEMMA ShowStatusIInv == IInv /\ ShowStatus => IInv'
BY ShowStatusPlain, StatusScreen DEF ShowStatus, link

LEMMA BacklightOffIInv == IInv /\ BacklightOff => IInv'
BY StatusScreen, PlainParts DEF BacklightOff, link

LEMMA StatusOtherIInv == IInv /\ StatusOther => IInv'
<1> SUFFICES ASSUME IInv, StatusOther PROVE IInv'
  OBVIOUS
<1>1. Plain(todo')
  BY PlainEmpty DEF StatusOther, Idle
<1> QED
  BY <1>1, StatusScreen DEF StatusOther, link

LEMMA StatusKeyPlain == ASSUME StatusKey PROVE Plain(todo')
<1>1. PICK u : u = InMenu(<<"main">>, 1)
  OBVIOUS
<1>2. ui' = u /\ DOMAIN u = Fields /\ u.at = "menu" /\ u.menus = <<"main">>
  BY <1>1, Screens DEF StatusKey
<1>3. Plain(DrawMenu(u))
  BY <1>2, Chains, PlainMenu
<1>4. Plain(todo')
  <2>1. PICK a : a = IF dark THEN Back(cfg.intensity) ELSE << >>
    OBVIOUS
  <2>2. Plain(a)
    BY <2>1, PlainParts, PlainEmpty
  <2>3. Plain(a \o Clear)
    BY <2>2, PlainParts, PlainJoined
  <2>4. Plain((a \o Clear) \o LED("off"))
    BY <2>3, PlainParts, PlainJoined
  <2>5. Plain(((a \o Clear) \o LED("off")) \o Cursor)
    BY <2>4, PlainParts, PlainJoined
  <2>6. Plain((((a \o Clear) \o LED("off")) \o Cursor) \o DrawMenu(u))
    BY <1>3, <2>5, PlainJoined
  <2>7. todo' = (((a \o Clear) \o LED("off")) \o Cursor) \o DrawMenu(u)
    BY <1>2, <2>1, Zenon DEF StatusKey
  <2> QED
    BY <2>6, <2>7
<1> QED
  BY <1>4

LEMMA StatusKeyIInv == IInv /\ StatusKey => IInv'
<1> SUFFICES ASSUME IInv, StatusKey PROVE IInv'
  OBVIOUS
<1>1. PICK u : u = InMenu(<<"main">>, 1)
  OBVIOUS
<1>2. ui' = u /\ DOMAIN u = Fields /\ u.at = "menu" /\ u.menus = <<"main">>
  BY <1>1, Screens DEF StatusKey
<1>4. Plain(todo')
  BY StatusKeyPlain
<1>5. InChain(ui') /\ ui'.at \in {"status", "menu", "dialog"}
  BY <1>2, Chains DEF InChain
<1>6. DialogInv'
  BY <1>2, NoQuestion
<1>7. Idle("status") /\ inbox # << >> /\ inbox' = Tail(inbox)
      /\ UNCHANGED <<cache, file, tmpfile, held, late>>
  BY DEF StatusKey, link
<1> QED
  BY <1>2, <1>4, <1>5, <1>6, <1>7, Idles

LEMMA Opened ==
  ASSUME NEW c \in Commands, NEW e, todo' = DrawDialog(c, e), ui'.focus = 1
  PROVE  Asking(c)'
<1>1. Len(todo') = 6 /\ \A i \in 1..6 : todo'[i] = Screen(c)[i]
  BY Confirmation
<1>2. \A i \in 1..6 : 6 - 6 + i = i
  OBVIOUS
<1>3. \A i \in 1..6 : todo'[i] = Screen(c)[6 - 6 + i]
  BY <1>1, <1>2
<1> QED
  BY <1>1, <1>3 DEF Asking, Screen

LEMMA ExecItemIInv ==
  ASSUME IInv, Idle("menu"), NEW item, ExecItem(item), inbox # << >>, inbox' = Tail(inbox),
         UNCHANGED <<cache, file, tmpfile, held, late>>
  PROVE  IInv'
<1>1. ui.at = "menu" /\ DOMAIN ui = Fields /\ ui.menus \in Seq(DOMAIN Menus) /\ ui.menus # << >>
  BY DEF IInv, Shape, Idle, InChain
<1>2. CASE item \in Modes
  <2>1. PICK a : a = IF cfg.mode = Mode[item] THEN << >> ELSE Update("display mode", Mode[item]) \o Clear
    OBVIOUS
  <2>2. Plain(a) \/ Pending(a, 0)
    <3>1. CASE cfg.mode = Mode[item]
      BY <2>1, <3>1, PlainEmpty
    <3>2. CASE cfg.mode # Mode[item]
      <4>1. PICK x : x = Update("display mode", Mode[item])
        OBVIOUS
      <4>2. Pending(x, 0) /\ 0 \in 0..3 /\ Plain(Clear)
        <5>1. Pending(x, 0)
          BY <4>1, Updates, Zenon
        <5> QED
          BY <5>1, PlainParts
      <4>3. Pending(x \o Clear, 0)
        BY ONLY <4>2, PendingJoined
      <4> QED
        BY <2>1, <3>2, <4>1, <4>3
    <3> QED
      BY <3>1, <3>2
  <2>3. todo' = a \o DrawMenu(ui) /\ ui' = ui
    BY <1>2, <2>1 DEF ExecItem
  <2>4. Plain(todo') \/ Pending(todo', 0)
    BY <1>1, <2>2, <2>3, PlainMenu, PlainJoined, PendingJoined
  <2>5. ui'.at = "menu" /\ DOMAIN ui' = Fields /\ InChain(ui')
    BY <1>1, <2>3 DEF InChain
  <2> QED
    BY <2>4, <2>5, NoQuestion, Idles
<1>3. CASE item \notin Modes
  <2>1. PICK e : /\ ui' = [ui EXCEPT !.at = "dialog", !.dlg = item, !.edit = e, !.focus = 1]
                 /\ todo' = DrawDialog(item, e)
    BY <1>3, Zenon DEF ExecItem
  <2>2. /\ DOMAIN ui' = Fields /\ ui'.at = "dialog" /\ ui'.dlg = item /\ ui'.focus = 1
        /\ ui'.menus = ui.menus
    BY <1>1, <2>1 DEF Fields
  <2>3. Plain(todo')
    BY <2>1, PlainDialog
  <2>4. DialogInv'
    <3> SUFFICES ASSUME item \in Commands PROVE Asking(item)'
      BY <2>2 DEF DialogInv, Asking
    <3> QED
      BY <2>1, <2>2, Opened
  <2>5. InChain(ui')
    BY <1>1, <2>2 DEF InChain
  <2> QED
    BY <2>2, <2>3, <2>4, <2>5, Idles
<1> QED
  BY <1>2, <1>3

\* To a menu, by its chain of menus.
LEMMA ToMenu ==
  ASSUME IInv, NEW at \in {"menu", "dialog"}, Idle(at), NEW u, ui' = u,
         DOMAIN u = Fields, u.at = "menu", u.menus \in Seq(DOMAIN Menus), u.menus # << >>,
         inbox # << >> /\ inbox' = Tail(inbox),
         UNCHANGED <<cache, file, tmpfile, held, late>>,
         Plain(todo')
  PROVE  IInv'
BY NoQuestion, Idles DEF InChain

LEMMA LeaveMenuIInv ==
  ASSUME IInv, Idle("menu"), LeaveMenu, inbox' = inbox \/ (inbox # << >> /\ inbox' = Tail(inbox)),
         UNCHANGED <<cache, file, tmpfile, held, late>>
  PROVE  IInv'
<1>1. ui' = Status /\ todo' = Cursor \o Clear
  BY DEF LeaveMenu
<1>2. Plain(todo')
  BY <1>1, PlainParts, PlainJoined
<1> QED
  BY <1>1, <1>2, Screens, NoQuestion, Idles DEF InChain

LEMMA MenuPacketIInv == IInv /\ MenuPacket => IInv'
<1> SUFFICES ASSUME IInv, MenuPacket PROVE IInv'
  OBVIOUS
<1> DEFINE k == Head(inbox).kind
           item == Items(ui)[ui.row]
<1>1. /\ Idle("menu") /\ inbox # << >> /\ inbox' = Tail(inbox)
      /\ UNCHANGED <<cache, file, tmpfile, held, late>>
  BY DEF MenuPacket, ReadPacket, link
<1>2. ui.at = "menu" /\ todo = << >> /\ DOMAIN ui = Fields /\ ui.menus \in Seq(DOMAIN Menus) /\ ui.menus # << >>
  BY <1>1 DEF IInv, Shape, Idle, InChain
<1>3. CASE k \in {"enter", "right"} /\ item \in DOMAIN Menus /\ ui' = InMenu(Append(ui.menus, item), 1)
             /\ todo' = DrawMenu(ui')
  <2>1. PICK m : m = Append(ui.menus, item)
    OBVIOUS
  <2>2. m \in Seq(DOMAIN Menus) /\ m # << >>
    BY ONLY <1>2, <1>3, <2>1, Chains
  <2>3. PICK u : u = InMenu(m, 1)
    OBVIOUS
  <2>4. DOMAIN u = Fields /\ u.at = "menu" /\ u.menus = m
    BY ONLY <2>3, Screens
  <2>5. ui' = u /\ todo' = DrawMenu(u)
    BY <1>3, <2>1, <2>3
  <2> QED
    BY <1>1, <2>2, <2>4, <2>5, PlainMenu, ToMenu
<1>4. CASE k \in {"enter", "right"} /\ ExecItem(item)
  BY <1>1, <1>4, ExecItemIInv
<1>5. CASE /\ todo' = Cursor
           /\ \E r : ui' = [ui EXCEPT !.row = r]
  <2>1. PICK r : ui' = [ui EXCEPT !.row = r]
    BY <1>5
  <2>2. DOMAIN ui' = Fields /\ ui'.at = "menu" /\ ui'.menus = ui.menus
    BY <1>2, <2>1 DEF Fields
  <2> QED
    BY <1>1, <1>2, <1>5, <2>2, PlainParts, ToMenu
<1>6. CASE k = "left" /\ Len(ui.menus) > 1 /\ ui' = InMenu(Front(ui.menus), 1) /\ todo' = DrawMenu(ui')
  <2>1. PICK m : m = Front(ui.menus)
    OBVIOUS
  <2>2. m \in Seq(DOMAIN Menus) /\ m # << >>
    BY ONLY <1>2, <1>6, <2>1, Chains
  <2>3. PICK u : u = InMenu(m, 1)
    OBVIOUS
  <2>4. DOMAIN u = Fields /\ u.at = "menu" /\ u.menus = m
    BY ONLY <2>3, Screens
  <2>5. ui' = u /\ todo' = DrawMenu(u)
    BY <1>6, <2>1, <2>3
  <2> QED
    BY <1>1, <2>2, <2>4, <2>5, PlainMenu, ToMenu
<1>7. CASE LeaveMenu
  BY <1>1, <1>7, LeaveMenuIInv
<1>8. CASE Stay
  <2>1. ui' = ui /\ todo' = todo
    BY <1>8 DEF Stay
  <2> QED
    BY <1>1, <1>2, <2>1, PlainEmpty, ToMenu
<1>9. \/ k \in {"enter", "right"} /\ item \in DOMAIN Menus /\ ui' = InMenu(Append(ui.menus, item), 1)
            /\ todo' = DrawMenu(ui')
      \/ k \in {"enter", "right"} /\ ExecItem(item)
      \/ todo' = Cursor /\ \E r : ui' = [ui EXCEPT !.row = r]
      \/ k = "left" /\ Len(ui.menus) > 1 /\ ui' = InMenu(Front(ui.menus), 1) /\ todo' = DrawMenu(ui')
      \/ LeaveMenu
      \/ Stay
  BY Zenon DEF MenuPacket
<1> QED
  BY <1>3, <1>4, <1>5, <1>6, <1>7, <1>8, <1>9

LEMMA MenuTimeoutIInv == IInv /\ MenuTimeout => IInv'
BY LeaveMenuIInv DEF MenuTimeout, link

-----------------------------------------------------------------------------
(* The dialogs *)

LEMMA FinishIInv ==
  ASSUME IInv, Idle("dialog"), NEW ok \in BOOLEAN, NEW seen, Finish(ok, seen),
         inbox' = inbox \/ (inbox # << >> /\ inbox' = Tail(inbox)),
         UNCHANGED <<cache, file, tmpfile, held, late>>,
         ok /\ ui.dlg \in Commands /\ Few => seen \in Questions \cup {Unshown}
  PROVE  IInv'
<1>1. ui.menus \in Seq(DOMAIN Menus) /\ ui.menus # << >>
  BY DEF IInv, Shape, Idle, InChain
<1>2. PICK u : u = InMenu(ui.menus, ui.row)
  OBVIOUS
<1>3. ui' = u /\ DOMAIN u = Fields /\ u.at = "menu" /\ u.menus = ui.menus
  BY <1>2, Screens DEF Finish
<1>4. PICK a : /\ todo' = a \o DrawMenu(u)
               /\ \/ \E t : a = Update(t, ui.edit)
                  \/ a = Back(cfg.intensity)
                  \/ ui.dlg \in Commands /\ ok /\ a = Clear \o <<Op("system", 0, seen)>>
                  \/ a = << >>
  BY <1>2, Zenon DEF Finish
<1>5. CASE \E t : a = Update(t, ui.edit)
  <2>1. Pending(a, 0)
    BY <1>5, Updates, Zenon
  <2>2. Pending(a \o DrawMenu(u), 0)
    BY <1>1, <1>3, <2>1, PlainMenu, PendingJoined
  <2> QED
    BY <1>1, <1>3, <1>4, <2>2, NoQuestion, Idles DEF InChain
<1>6. CASE ~\E t : a = Update(t, ui.edit)
  <2>1. Plain(a)
    <3>1. CASE a = Back(cfg.intensity)
      BY <3>1, PlainParts
    <3>2. CASE ui.dlg \in Commands /\ ok /\ a = Clear \o <<Op("system", 0, seen)>>
      <4>1. PICK x : x = <<Op("system", 0, seen)>>
        OBVIOUS
      <4>2. IsSeq(x) /\ Len(x) = 1 /\ x[1] = Op("system", 0, seen)
        BY <4>1, Listed, Zenon
      <4>3. Plain(x)
        BY <3>2, <4>2 DEF Plain, PlainOp, Op
      <4> QED
        BY <3>2, <4>1, <4>3, PlainParts, PlainJoined
    <3> QED
      BY <1>4, <1>6, <3>1, <3>2, PlainEmpty
  <2>2. Plain(a \o DrawMenu(u))
    BY <1>1, <1>3, <2>1, PlainMenu, PlainJoined
  <2> QED
    BY <1>1, <1>3, <1>4, <2>2, NoQuestion, Idles DEF InChain
<1> QED
  BY <1>5, <1>6

\* The question is on the display: whatever ENTER is read now was given to it.
LEMMA Answering ==
  ASSUME IInv, Idle("dialog"), ui.dlg \in Commands
  PROVE  /\ Asking(ui.dlg) /\ cache.lines[0] = Question(ui.dlg) /\ ui.focus \in 1..2
         /\ Few /\ inbox # << >> /\ Head(inbox).kind = "enter" => Head(inbox).seen \in Questions \cup {Unshown}
<1>1. todo = << >> /\ Asking(ui.dlg)
  BY DEF IInv, DialogInv, Idle
<1>2. Len(todo) = 0
  BY <1>1, Empty, Zenon
<1>3. cache.lines[0] = Question(ui.dlg) /\ ui.focus \in 1..2
  BY <1>1, <1>2 DEF Asking
<1>4. ASSUME Few, inbox # << >>, Head(inbox).kind = "enter" PROVE Head(inbox).seen \in Questions \cup {Unshown}
  <2>1. Len(inbox) \in Nat \ {0} /\ Head(inbox) = inbox[1]
    BY <1>4, Parts DEF IInv, Shape
  <2>2. 1 \in 1..Len(inbox)
    BY <2>1
  <2>3. inbox[1].seen \in Questions \cup {NoText, Unshown}
    BY <2>2 DEF IInv, InboxInv
  <2>4. inbox[1].seen # NoText
    BY <1>1, <1>2, <1>4, <2>1, <2>2 DEF Asking
  <2> QED
    BY <2>1, <2>3, <2>4
<1> QED
  BY <1>1, <1>3, <1>4

\* The question stays, and the cursor may move between its answers.
LEMMA Stays ==
  ASSUME IInv, Idle("dialog"), NEW c \in Commands, c = ui.dlg, ui'.focus \in 1..2,
         todo' = << >> \/ todo' = Cursor, inbox # << >>, inbox' = Tail(inbox), UNCHANGED cache
  PROVE  Asking(c)'
<1>1. Asking(c) /\ cache.lines[0] = Question(c) /\ Len(todo) = 0
  <2>1. Len(todo) = 0
    BY Empty, Zenon DEF Idle
  <2> QED
    BY <2>1, Answering
<1>2. PICK n : n = Len(todo')
  OBVIOUS
<1>3. n \in 0..1 /\ \A i \in 1..n : todo'[i] = Screen(c)[6 - n + i]
  <2>1. CASE todo' = << >>
    <3>1. n = 0
      BY <1>2, <2>1, Empty, Zenon
    <3> QED
      BY <3>1
  <2>2. CASE todo' = Cursor
    <3>1. n = 1 /\ todo'[1] = Op("cursor", 0, NoText)
      BY <1>2, <2>2, Listed DEF Cursor
    <3>2. Screen(c)[6 - 1 + 1] = Op("cursor", 0, NoText)
      BY DEF Screen
    <3> QED
      BY <3>1, <3>2
  <2> QED
    BY <2>1, <2>2
<1>4. ASSUME Few, NEW i \in 1..Len(inbox'), inbox'[i].kind = "enter", inbox'[i].seen = NoText
      PROVE  FALSE
  <2>1. Len(inbox) \in Nat \ {0} /\ Len(inbox') = Len(inbox) - 1 /\ inbox'[i] = inbox[i + 1]
    BY Parts DEF IInv, Shape
  <2>2. i + 1 \in 1..Len(inbox)
    BY <2>1
  <2>3. i + 1 <= 0
    BY <1>1, <1>4, <2>1, <2>2 DEF Asking
  <2> QED
    BY <2>2, <2>3
<1>5. \A r \in 0..3 : ~(5 - n <= r)
  BY <1>3
<1> QED
  BY <1>1, <1>2, <1>3, <1>4, <1>5 DEF Asking, Screen

LEMMA Turned ==
  ASSUME DOMAIN ui = Fields, ui.dlg \in Commands, ui.focus \in 1..2, NEW d \in {1, -1},
         NEW k
  PROVE  Around(ui, d).focus \in 1..2 /\ ~Edits(ui, k)
<1>1. ui.dlg = "poweroff"
  BY DEF Commands
<1>2. Widgets("poweroff") = <<"Yes", "No">>
  BY Zenon DEF Widgets, Commands, Messages
<1>3. PICK f : f = ui.focus
  OBVIOUS
<1>4. Around(ui, d).focus = ((f - 1 + d + 2) % 2) + 1
  <2>1. Len(Widgets(ui.dlg)) = 2
    BY <1>1, <1>2
  <2>2. Around(ui, d).focus = ((f - 1 + d + Len(Widgets(ui.dlg))) % Len(Widgets(ui.dlg))) + 1
    BY <1>3 DEF Around, Fields
  <2> QED
    BY <2>1, <2>2
<1>5. Widget(ui) \in {"Yes", "No"}
  BY <1>1, <1>2 DEF Widget
<1> QED
  BY <1>3, <1>4, <1>5 DEF Edits

LEMMA DialogPacketIInv == IInv /\ DialogPacket => IInv'
<1> SUFFICES ASSUME IInv, DialogPacket PROVE IInv'
  OBVIOUS
<1> DEFINE k == Head(inbox).kind
<1>1. /\ Idle("dialog") /\ inbox # << >> /\ inbox' = Tail(inbox)
      /\ UNCHANGED <<cache, file, tmpfile, held, late>>
  BY DEF DialogPacket, ReadPacket, link
<1>2. /\ ui.at = "dialog" /\ todo = << >> /\ DOMAIN ui = Fields /\ InChain(ui)
  BY <1>1 DEF IInv, Shape, Idle
<1>3. CASE Finish(FALSE, NoText)
  BY <1>1, <1>3, FinishIInv
<1>4. CASE k \in {"enter", "up", "down", "left", "right"} /\ Accepts(ui, k) /\ Finish(TRUE, Head(inbox).seen)
  <2>1. ASSUME ui.dlg \in Commands, Few PROVE Head(inbox).seen \in Questions \cup {Unshown}
    <3>1. k = "enter"
      BY <1>4, <2>1 DEF Accepts, Commands, Messages
    <3> QED
      BY <1>1, <2>1, <3>1, Answering
  <2> QED
    BY <1>1, <1>4, <2>1, FinishIInv
<1>5. CASE ~Accepts(ui, k) /\ Edits(ui, k)
             /\ ui' = [ui EXCEPT !.edit = Edited(ui, k)]
             /\ todo' = (IF Widget(ui) = "slider" THEN Back(ui'.edit) ELSE << >>)
                            \o Rows(ui.dlg, ui'.edit) \o Cursor
  <2>1. PICK e : ui' = [ui EXCEPT !.edit = e]
    BY <1>5
  <2>2. DOMAIN ui' = Fields /\ ui'.at = "dialog" /\ ui'.menus = ui.menus /\ ui'.dlg = ui.dlg
    BY <1>2, <2>1 DEF Fields
  <2>3. ui.dlg \notin Commands
    <3>1. ASSUME ui.dlg \in Commands PROVE FALSE
      <4>1. ui.focus \in 1..2
        BY <1>1, <3>1, Answering
      <4> QED
        BY <1>2, <1>5, <3>1, <4>1, Turned
    <3> QED
      BY <3>1
  <2>4. PICK a, b : /\ a = IF Widget(ui) = "slider" THEN Back(ui'.edit) ELSE << >>
                    /\ b = Rows(ui.dlg, ui'.edit)
    BY Zenon
  <2>5. Plain(a) /\ Plain(b)
    BY <2>4, PlainParts, PlainEmpty, PlainRows
  <2>6. Plain((a \o b) \o Cursor)
    BY <2>5, PlainParts, PlainJoined
  <2>7. todo' = (a \o b) \o Cursor
    BY <1>5, <2>4
  <2>8. DialogInv' /\ InChain(ui')
    BY <1>2, <2>2, <2>3 DEF DialogInv, InChain
  <2> QED
    BY <1>1, <2>2, <2>6, <2>7, <2>8, Idles
<1>6. CASE \E d \in {1, -1} : ui' = Around(ui, d) /\ todo' = Cursor
  <2>1. PICK d \in {1, -1} : ui' = Around(ui, d) /\ todo' = Cursor
    BY <1>6
  <2>2. DOMAIN ui' = Fields /\ ui'.at = "dialog" /\ ui'.menus = ui.menus /\ ui'.dlg = ui.dlg
    BY <1>2, <2>1 DEF Around, Fields
  <2>3. DialogInv'
    <3> SUFFICES ASSUME NEW c \in Commands, c = ui.dlg PROVE Asking(c)'
      BY <2>2 DEF DialogInv, Asking
    <3>1. ui.focus \in 1..2
      BY <1>1, Answering
    <3>2. ui'.focus \in 1..2
      BY <1>2, <2>1, <3>1, Turned
    <3> QED
      BY <1>1, <2>1, <3>2, Stays
  <2>4. InChain(ui') /\ Plain(todo')
    BY <1>2, <2>1, <2>2, PlainParts DEF InChain
  <2> QED
    BY <1>1, <2>2, <2>3, <2>4, Idles
<1>7. CASE Stay
  <2>1. ui' = ui /\ todo' = << >>
    BY <1>2, <1>7 DEF Stay
  <2>2. DialogInv'
    <3> SUFFICES ASSUME NEW c \in Commands, c = ui.dlg PROVE Asking(c)'
      BY <2>1 DEF DialogInv, Asking
    <3>1. ui'.focus \in 1..2
      BY <1>1, <2>1, Answering
    <3> QED
      BY <1>1, <2>1, <3>1, Stays
  <2> QED
    BY <1>1, <1>2, <2>1, <2>2, PlainEmpty, Idles
<1>8. \/ Finish(FALSE, NoText)
      \/ k \in {"enter", "up", "down", "left", "right"} /\ Accepts(ui, k) /\ Finish(TRUE, Head(inbox).seen)
      \/ /\ ~Accepts(ui, k) /\ Edits(ui, k)
         /\ ui' = [ui EXCEPT !.edit = Edited(ui, k)]
         /\ todo' = (IF Widget(ui) = "slider" THEN Back(ui'.edit) ELSE << >>)
                        \o Rows(ui.dlg, ui'.edit) \o Cursor
      \/ \E d \in {1, -1} : ui' = Around(ui, d) /\ todo' = Cursor
      \/ Stay
  BY Zenon DEF DialogPacket
<1> QED
  BY <1>3, <1>4, <1>5, <1>6, <1>7, <1>8

LEMMA DialogTimeoutIInv == IInv /\ DialogTimeout => IInv'
BY FinishIInv DEF DialogTimeout, link

LEMMA AlarmIInv == IInv /\ Alarm => IInv'
<1> SUFFICES ASSUME IInv, Alarm PROVE IInv'
  OBVIOUS
<1>1. PICK at \in {"menu", "dialog"} : Idle(at)
  BY DEF Alarm
<1>2. UNCHANGED <<ui, todo, inbox, cache, file, tmpfile, held, late>>
  BY DEF Alarm, link
<1>3. DialogInv' /\ InChain(ui')
  BY <1>2 DEF IInv, Shape, DialogInv, Asking, InChain
<1>4. DOMAIN ui' = Fields /\ ui'.at \in {"status", "menu", "dialog"} /\ Plain(todo')
  BY <1>1, <1>2, PlainEmpty DEF IInv, Shape, Idle
<1> QED
  BY <1>1, <1>2, <1>3, <1>4, Idles

-----------------------------------------------------------------------------
(* Every step *)

LEMMA StepIInv == IInv /\ [Next]_vars => IInv'
<1> SUFFICES ASSUME IInv, [Next]_vars PROVE IInv'
  OBVIOUS
<1>1. CASE Program
  BY <1>1, SkipIInv, ExchangeIInv, UpdateConfigIInv, SystemIInv, ShowStatusIInv, StatusOtherIInv,
     StatusKeyIInv, MenuPacketIInv, MenuTimeoutIInv, DialogPacketIInv, DialogTimeoutIInv DEF Program
<1>2. CASE BacklightOff \/ Alarm \/ LateAnswer \/ Terminate \/ Restart \/ Press
  BY <1>2, BacklightOffIInv, AlarmIInv, LateAnswerIInv, TerminateIInv, RestartIInv, PressIInv
<1>3. CASE \E k \in KeyCodes : Release(k)
  BY <1>3, ReleaseIInv
<1>4. CASE UNCHANGED vars
  <2>1. UNCHANGED <<ui, todo, inbox, cache, file, tmpfile, held, late>>
    BY <1>4 DEF vars, link
  <2>2. TodoInv' /\ SomewhereSaved'
    BY <2>1, SameTodo DEF IInv, Running
  <2>3. InboxInv'
    BY <2>1, SameInbox DEF IInv
  <2> QED
    BY <2>1, <2>2, <2>3 DEF IInv, Shape, DialogInv, Asking, Running, InChain
<1> QED
  BY <1>1, <1>2, <1>3, <1>4 DEF Next

\* What lcdmonitor believes of its display, what it does next, and what came from the
\* display is kept true by every step of it, of the display and of the user.
THEOREM InductiveInvariant == Spec => []IInv
BY InitIInv, StepIInv, PTL DEF Spec

\* configfile_update() never leaves the settings in neither file, wherever it is
\* interrupted.
THEOREM SettingsSomewhere == Spec => []SomewhereSaved
<1>1. IInv => SomewhereSaved
  BY DEF IInv
<1> QED
  BY <1>1, InductiveInvariant, PTL

\* No command is run but for an ENTER given to its question on the display, when the
\* user types ahead so little, and so few answers are late, that no more than five packets
\* can wait; or else for one given when the packet with the question had been lost.
THEOREM CommandsConfirmed == ASSUME MaxInbox + MaxLate <= 4 PROVE Spec => []Confirmed
<1>1. IInv => Confirmed
  <2> SUFFICES ASSUME IInv, NEW i \in DOMAIN todo, todo[i].op = "system"
               PROVE  todo[i].text \in {Padded(Text(c, 0)) : c \in Commands} \cup {Unshown}
    BY DEF Confirmed
  <2>1. i \in 1..Len(todo) /\ Len(todo) \in Nat
    BY Lengths DEF IInv, Shape
  <2>2. PICK k \in 0..3 : /\ Pending(todo, k)
                          /\ k \in 1..2 => tmpfile # Missing
                          /\ Running /\ file = Missing => k = 2
    BY Zenon DEF IInv, TodoInv
  <2>3. i \notin 1..3 - k
    <3>1. ASSUME i \in 1..3 - k PROVE FALSE
      <4>1. i + k \in 1..3 /\ todo[i].op = <<"write", "unlink", "rename">>[i + k]
        BY <2>2, <3>1 DEF Pending
      <4> QED
        BY <4>1
    <3> QED
      BY <3>1
  <2>4. PlainOp(todo, i)
    BY <2>1, <2>2, <2>3 DEF Pending
  <2> QED
    BY <2>4 DEF PlainOp, Questions, Question, Few
<1> QED
  BY <1>1, InductiveInvariant, PTL

-----------------------------------------------------------------------------
(* Loops as recursive functions *)

\* The least of a set, from which the inductions below are made
LEMMA Least ==
  ASSUME NEW T \in SUBSET Nat, T # {}
  PROVE  \E n \in T : \A m \in T : n <= m
<1> DEFINE R == OpToRel(<, Nat)
<1>1. IsWellFoundedOn(R, Nat)
  BY NatLessThanWellFounded
<1>2. \A m, n \in Nat : m < n => <<m, n>> \in R
  BY DEF OpToRel
<1> HIDE DEF R
<1>3. PICK n \in T : \A m \in T : ~ (<<m, n>> \in R)
  BY <1>1, WFMin
<1>4. \A m \in T : ~ (m < n)
  BY <1>2, <1>3
<1> QED  BY <1>4

\* What is true of the first, and of the next of each it is true of, is true of them all.
LEMMA UpTo ==
  ASSUME NEW lo \in Int, NEW hi \in Int, NEW T, lo \in T,
         \A i \in lo + 1 .. hi : i - 1 \in T => i \in T
  PROVE  lo .. hi \subseteq T
<1> SUFFICES ASSUME NEW j \in lo .. hi, j \notin T PROVE FALSE
  OBVIOUS
<1> DEFINE Bad == {n \in Nat : lo + n <= hi /\ lo + n \notin T}
<1>1. j - lo \in Bad
  OBVIOUS
<1>2. PICK n \in Bad : \A m \in Bad : n <= m
  <2> HIDE DEF Bad
  <2>1. Bad \in SUBSET Nat
    BY DEF Bad
  <2> QED  BY <1>1, <2>1, Least
<1>3. n # 0
  BY <1>2
<1>4. n - 1 \notin Bad /\ n - 1 \in Nat
  BY <1>2, <1>3
<1>5. (lo + n) - 1 \in T /\ lo + n \in lo + 1 .. hi
  BY <1>2, <1>3, <1>4
<1> QED  BY <1>2, <1>5

\* A loop that goes from one state to the next, by the function of its counter
Runs(r, lo, hi, base, G) == r[lo] = base /\ \A i \in lo + 1 .. hi : r[i] = G[i][r[i - 1]]

\* A loop over numbers that is written as a recursive function has a run: each value comes from the one before
LEMMA LoopRuns ==
  ASSUME NEW lo \in Int, NEW hi \in Int, lo <= hi, NEW St, NEW base \in St,
         NEW G \in [lo + 1 .. hi -> [St -> St]]
  PROVE  \E r \in [lo .. hi -> St] : Runs(r, lo, hi, base, G)
<1> DEFINE Run(r, n) == Runs(r, lo, n, base, G)
           T == {n \in lo .. hi : \E r \in [lo .. n -> St] : Run(r, n)}
<1>1. lo \in T
  <2> DEFINE r == [i \in lo .. lo |-> base]
  <2>1. r \in [lo .. lo -> St] /\ Run(r, lo)
    BY DEF Runs
  <2> QED  BY <2>1
<1>2. ASSUME NEW n \in lo + 1 .. hi, n - 1 \in T PROVE n \in T
  <2>1. PICK r \in [lo .. n - 1 -> St] : Run(r, n - 1)
    BY <1>2
  <2> DEFINE q == [i \in lo .. n |-> IF i = n THEN G[n][r[n - 1]] ELSE r[i]]
  <2>2. G[n][r[n - 1]] \in St
    BY <2>1
  <2>3. q \in [lo .. n -> St]
    BY <2>2
  <2>4. q[lo] = base
    BY <2>1 DEF Runs
  <2>5. ASSUME NEW i \in lo + 1 .. n PROVE q[i] = G[i][q[i - 1]]
    <3>1. q[i - 1] = r[i - 1]
      OBVIOUS
    <3>2. CASE i = n
      <4>1. n \in lo .. n
        OBVIOUS
      <4>2. q[n] = G[n][r[n - 1]]
        BY <4>1
      <4> QED  BY <3>1, <3>2, <4>2
    <3>3. CASE i # n
      <4>1. i \in lo + 1 .. n - 1 /\ q[i] = r[i]
        BY <3>3
      <4> QED  BY <2>1, <3>1, <4>1 DEF Runs
    <3> QED  BY <3>2, <3>3
  <2>6. Run(q, n)
    <3> HIDE DEF q
    <3> QED  BY <2>4, <2>5 DEF Runs
  <2> HIDE DEF q, Run
  <2> QED  BY <2>3, <2>6
<1>3. lo .. hi \subseteq T
  <2> HIDE DEF T
  <2> QED  BY <1>1, <1>2, UpTo
<1> HIDE DEF Run
<1>4. hi \in T
  <2> HIDE DEF T
  <2> QED  BY <1>3
<1>5. \E r \in [lo .. hi -> St] : Run(r, hi)
  BY <1>4
<1> QED  BY <1>5 DEF Run

-----------------------------------------------------------------------------
(* configfile_parse_as_list() and configfile_update() *)

\* Where an entry is put in front of a list
LEMMA InFront ==
  ASSUME NEW S, NEW q \in Seq(S), NEW e \in S
  PROVE  /\ <<e>> \o q \in Seq(S)
         /\ DOMAIN (<<e>> \o q) = 1 .. Len(q) + 1
         /\ (<<e>> \o q)[1] = e
         /\ \A j \in 1 .. Len(q) : (<<e>> \o q)[j + 1] = q[j]
<1>1. PICK a : a = <<e>>
  OBVIOUS
<1>2. a \in Seq(S) /\ Len(a) = 1 /\ a[1] = e
  BY <1>1
<1> HIDE <1>1
<1>3. PICK p : p = a \o q
  OBVIOUS
<1>4. p \in Seq(S) /\ Len(p) = Len(a) + Len(q)
      /\ \A i \in 1 .. Len(a) + Len(q) : p[i] = IF i <= Len(a) THEN a[i] ELSE q[i - Len(a)]
  BY <1>2, <1>3, ConcatProperties
<1>5. Len(q) \in Nat /\ DOMAIN p = 1 .. Len(p)
  BY <1>4
<1>6. p[1] = e
  BY <1>2, <1>4, <1>5
<1>7. ASSUME NEW j \in 1 .. Len(q) PROVE p[j + 1] = q[j]
  BY <1>2, <1>4, <1>5
<1> QED  BY <1>1, <1>2, <1>3, <1>4, <1>5, <1>6, <1>7

NoName == ""

Entries(N, V) == [s : N \cup {""}, t : N, v : V]
ParseState(N, V) == [section : N \cup {""}, list : Seq(Entries(N, V))]

\* What a line does to the section and the list
LineAdded(N, V, m, line) ==
  /\ line.k \in {"section", "token", "other"}
  /\ line.k = "section" => line.n \in N /\ AddLine(m, line) = [section |-> line.n, list |-> m.list]
  /\ line.k = "token" => line.n \in N /\ line.v \in V
  /\ line.k = "other" => AddLine(m, line) = m

TokenAdded(m, line) ==
  line.k = "token" =>
    AddLine(m, line) =
      [section |-> m.section,
       list |-> <<[s |-> m.section, t |-> line.n, v |-> line.v]>> \o m.list]

LEMMA AddLineIs ==
  ASSUME NEW N, NEW V, NEW m \in ParseState(N, V), NEW line \in Lines(N, V)
  PROVE  LineAdded(N, V, m, line) /\ TokenAdded(m, line)
<1>1. line.k \in {"section", "token", "other"}
  BY DEF Lines
<1>2. ASSUME line.k = "section"
      PROVE  line.n \in N /\ AddLine(m, line) = [section |-> line.n, list |-> m.list]
  <2>1. line.n \in N
    BY <1>2 DEF Lines
  <2>2. AddLine(m, line) = [m EXCEPT !.section = line.n]
    BY <1>2, Zenon DEF AddLine
  <2> QED  BY <2>1, <2>2 DEF ParseState
<1>3. ASSUME line.k = "token"
      PROVE  /\ line.n \in N /\ line.v \in V
             /\ AddLine(m, line) =
                  [section |-> m.section,
                   list |-> <<[s |-> m.section, t |-> line.n, v |-> line.v]>> \o m.list]
  <2>1. line.n \in N /\ line.v \in V
    BY <1>3 DEF Lines
  <2>2. AddLine(m, line) = [m EXCEPT !.list = <<[s |-> m.section, t |-> line.n, v |-> line.v]>> \o @]
    <3>1. line.k # "section"
      BY <1>3
    <3> QED  BY <1>3, <3>1, Zenon DEF AddLine
  <2>3. PICK x : x = <<[s |-> m.section, t |-> line.n, v |-> line.v]>> \o m.list
    OBVIOUS
  <2>4. AddLine(m, line) = [m EXCEPT !.list = x]
    BY <2>2, <2>3, Zenon
  <2>5. AddLine(m, line) = [section |-> m.section, list |-> x]
    BY <2>4 DEF ParseState
  <2> QED  BY <2>1, <2>3, <2>5
<1>4. ASSUME line.k = "other" PROVE AddLine(m, line) = m
  <2>1. line.k # "section" /\ line.k # "token"
    BY <1>4
  <2> QED  BY <1>4, <2>1, Zenon DEF AddLine
<1> QED  BY <1>1, <1>2, <1>3, <1>4 DEF LineAdded, TokenAdded

LEMMA AddLineTyped ==
  ASSUME NEW N, NEW V, NEW m \in ParseState(N, V), NEW line \in Lines(N, V)
  PROVE  AddLine(m, line) \in ParseState(N, V)
<1>1. m.section \in N \cup {""} /\ m.list \in Seq(Entries(N, V))
  BY DEF ParseState
<1>2. /\ line.k \in {"section", "token", "other"}
      /\ line.k = "section" => line.n \in N /\ AddLine(m, line) = [section |-> line.n, list |-> m.list]
      /\ line.k = "token" =>
           /\ line.n \in N /\ line.v \in V
           /\ AddLine(m, line) =
                [section |-> m.section,
                 list |-> <<[s |-> m.section, t |-> line.n, v |-> line.v]>> \o m.list]
      /\ line.k = "other" => AddLine(m, line) = m
  BY AddLineIs DEF LineAdded, TokenAdded
<1>3. ASSUME NEW a \in N \cup {""}, NEW q \in Seq(Entries(N, V))
      PROVE  [section |-> a, list |-> q] \in ParseState(N, V)
  BY DEF ParseState
<1>4. CASE line.k = "token"
  <2>1. PICK e : e = [s |-> m.section, t |-> line.n, v |-> line.v]
    OBVIOUS
  <2>2. e \in Entries(N, V)
    BY <1>1, <1>2, <1>4, <2>1 DEF Entries
  <2>3. <<e>> \o m.list \in Seq(Entries(N, V))
    BY <1>1, <2>2, InFront
  <2>4. AddLine(m, line) = [section |-> m.section, list |-> <<e>> \o m.list]
    BY <1>2, <1>4, <2>1
  <2>5. [section |-> m.section, list |-> <<e>> \o m.list] \in ParseState(N, V)
    BY <1>1, <1>3, <2>3
  <2> QED  BY <2>4, <2>5
<1>5. CASE line.k = "section"
  <2>1. [section |-> line.n, list |-> m.list] \in ParseState(N, V)
    BY <1>1, <1>2, <1>3, <1>5
  <2> QED  BY <1>2, <1>5, <2>1
<1> QED  BY <1>2, <1>4, <1>5

\* configfile_parse_as_list() line by line
Parses(N, V, f, r) ==
  /\ r \in [0 .. Len(f) -> ParseState(N, V)]
  /\ r[0] = [section |-> "", list |-> << >>]
  /\ \A i \in 1 .. Len(f) : r[i] = AddLine(r[i - 1], f[i])
  /\ ParseAsList(f) = r[Len(f)].list

LEMMA ParseRun ==
  ASSUME NEW N, NEW V, NEW f \in Seq(Lines(N, V))
  PROVE  \E r : Parses(N, V, f, r)
<1> DEFINE z == Len(f)
           base == [section |-> "", list |-> << >>]
           G == [i \in 0 + 1 .. z |-> [m \in ParseState(N, V) |-> AddLine(m, f[i])]]
           Loop(q) == [i \in 0 .. z |-> IF i = 0 THEN base ELSE AddLine(q[i - 1], f[i])]
<1>1. z \in Nat /\ \A i \in 1 .. z : f[i] \in Lines(N, V)
  OBVIOUS
<1>2. base \in ParseState(N, V)
  <2>1. << >> \in Seq(Entries(N, V))
    OBVIOUS
  <2> QED  BY <2>1 DEF ParseState
<1> HIDE DEF z
<1>3. G \in [0 + 1 .. z -> [ParseState(N, V) -> ParseState(N, V)]]
  <2> SUFFICES ASSUME NEW i \in 0 + 1 .. z, NEW m \in ParseState(N, V) PROVE AddLine(m, f[i]) \in ParseState(N, V)
    OBVIOUS
  <2> QED  BY <1>1, AddLineTyped
<1> HIDE DEF base
<1>4. PICK r \in [0 .. z -> ParseState(N, V)] : Runs(r, 0, z, base, G)
  <2>1. 0 \in Int /\ z \in Int /\ 0 <= z
    BY <1>1
  <2> HIDE DEF G
  <2> QED  BY <1>2, <1>3, <2>1, LoopRuns
<1>5. r[0] = base /\ \A i \in 1 .. z : r[i] = AddLine(r[i - 1], f[i])
  <2>1. ASSUME NEW i \in 1 .. z PROVE r[i] = AddLine(r[i - 1], f[i])
    <3>1. r[i - 1] \in ParseState(N, V) /\ i \in 0 + 1 .. z
      BY <1>1
    <3>2. G[i][r[i - 1]] = AddLine(r[i - 1], f[i])
      BY <3>1
    <3> QED  BY <1>4, <3>1, <3>2 DEF Runs
  <2> QED  BY <1>4, <2>1 DEF Runs
<1>6. r = Loop(r)
  BY <1>1, <1>5
<1> DEFINE p == CHOOSE q : q = Loop(q)
<1>7. p = Loop(p)
  <2> HIDE DEF Loop
  <2> QED  BY <1>6
<1> HIDE DEF p
<1>8. p[0] = base /\ \A i \in 1 .. z : p[i] = AddLine(p[i - 1], f[i])
  <2>1. 0 \in 0 .. z /\ \A i \in 1 .. z : i \in 0 .. z /\ i # 0
    BY <1>1
  <2> QED  BY <1>7, <2>1
<1>9. p \in [0 .. z -> ParseState(N, V)]
  <2> DEFINE T == {i \in 0 .. z : p[i] \in ParseState(N, V)}
  <2>1. 0 \in T
    BY <1>1, <1>2, <1>8
  <2>2. ASSUME NEW i \in 0 + 1 .. z, i - 1 \in T PROVE i \in T
    <3>1. i \in 1 .. z /\ i \in 0 .. z /\ f[i] \in Lines(N, V) /\ p[i - 1] \in ParseState(N, V)
      BY <1>1, <2>2
    <3>2. AddLine(p[i - 1], f[i]) \in ParseState(N, V)
      BY <3>1, AddLineTyped
    <3> QED  BY <1>8, <3>1, <3>2
  <2>3. 0 .. z \subseteq T
    <3>1. 0 \in Int /\ z \in Int
      BY <1>1
    <3> HIDE DEF T
    <3> QED  BY <2>1, <2>2, <3>1, UpTo
  <2>4. p = [i \in 0 .. z |-> p[i]]
    BY <1>7
  <2> QED  BY <2>3, <2>4
<1>10. ParseAsList(f) = p[z].list
  BY DEF ParseAsList, p, z, base
<1> QED  BY <1>8, <1>9, <1>10 DEF Parses, z, base

LEMMA ParseTyped ==
  ASSUME NEW N, NEW V, NEW f \in Seq(Lines(N, V))
  PROVE  ParseAsList(f) \in Seq(Entries(N, V))
<1>0. PICK r : Parses(N, V, f, r)
  BY ParseRun
<1>1. r \in [0 .. Len(f) -> ParseState(N, V)] /\ ParseAsList(f) = r[Len(f)].list
  BY <1>0 DEF Parses
<1>2. Len(f) \in 0 .. Len(f)
  OBVIOUS
<1>3. r[Len(f)] \in ParseState(N, V)
  BY <1>1, <1>2
<1> QED  BY <1>1, <1>3 DEF ParseState


\* What it starts with
LEMMA ParseFirst ==
  ASSUME NEW N, NEW V, NEW f, NEW r, Parses(N, V, f, r)
  PROVE  r[0].section = NoName /\ r[0].list = << >>
<1>1. PICK e, a : e = << >> /\ a = r[0]
  OBVIOUS
<1>2. a = [section |-> "", list |-> e]
  BY <1>1 DEF Parses
<1>3. a.section = "" /\ a.list = e
  BY ONLY <1>2
<1>4. a.section = NoName
  BY ONLY <1>3 DEF NoName
<1> QED  BY <1>1, <1>3, <1>4

LEMMA ParseNext ==
  ASSUME NEW N, NEW V, NEW f \in Seq(Lines(N, V)), NEW r, Parses(N, V, f, r), NEW i \in 1 .. Len(f)
  PROVE  /\ Len(f) \in Nat /\ i - 1 \in 0 .. Len(f) /\ i \in Nat \ {0}
         /\ r[i - 1] \in ParseState(N, V) /\ f[i] \in Lines(N, V)
         /\ r[i] = AddLine(r[i - 1], f[i])
         /\ LineAdded(N, V, r[i - 1], f[i]) /\ TokenAdded(r[i - 1], f[i])
<1>1. PICK z : z = Len(f)
  OBVIOUS
<1>2. z \in Nat /\ i \in 1 .. z /\ f[i] \in Lines(N, V)
  BY <1>1
<1>3. i - 1 \in 0 .. z /\ i \in Nat \ {0}
  BY <1>2
<1>4. r \in [0 .. z -> ParseState(N, V)]
  BY <1>1 DEF Parses
<1>5. r[i - 1] \in ParseState(N, V)
  BY <1>3, <1>4
<1>6. r[i] = AddLine(r[i - 1], f[i])
  BY DEF Parses
<1>7. LineAdded(N, V, r[i - 1], f[i]) /\ TokenAdded(r[i - 1], f[i])
  BY <1>2, <1>5, AddLineIs
<1> QED  BY <1>1, <1>2, <1>3, <1>5, <1>6, <1>7
\* The section that a line is in, from the one before
LEMMA SectionNext ==
  ASSUME NEW f, NEW i \in Nat \ {0}
  PROVE  /\ f[i].k = "section" => SectionAt(f, i) = i
         /\ f[i].k # "section" => SectionAt(f, i) = SectionAt(f, i - 1)
<1> DEFINE H(n) == {j \in 1 .. n : f[j].k = "section"}
<1>1. ASSUME f[i].k = "section" PROVE SectionAt(f, i) = i
  <2>1. i \in H(i) /\ \A m \in H(i) : m \in Nat /\ m <= i
    BY <1>1
  <2>2. PICK S : S = H(i)
    OBVIOUS
  <2>3. SectionAt(f, i) = CHOOSE j \in S : \A m \in S : m <= j
    BY <2>1, <2>2 DEF SectionAt
  <2>4. i \in S /\ \A m \in S : m \in Nat /\ m <= i
    BY <2>1, <2>2
  <2>5. \A j \in S : (\A m \in S : m <= j) => j = i
    BY <2>4
  <2> QED  BY <2>3, <2>4, <2>5
<1>2. ASSUME f[i].k # "section" PROVE SectionAt(f, i) = SectionAt(f, i - 1)
  <2>1. PICK S : S = H(i)
    OBVIOUS
  <2>2. S = H(i - 1)
    BY <1>2, <2>1
  <2>3. SectionAt(f, i) = IF S = {} THEN 0 ELSE CHOOSE j \in S : \A m \in S : m <= j
    BY <2>1, SMT DEF SectionAt
  <2>4. SectionAt(f, i - 1) = IF S = {} THEN 0 ELSE CHOOSE j \in S : \A m \in S : m <= j
    BY <2>2, SMT DEF SectionAt
  <2> QED  BY <2>3, <2>4
<1> QED  BY <1>1, <1>2

LEMMA SectionIs ==
  ASSUME NEW f, NEW i \in Nat
  PROVE  /\ SectionAt(f, 0) = 0 /\ SectionAt(f, i) \in 0 .. i
         /\ SectionAt(f, i) # 0 => f[SectionAt(f, i)].k = "section"
<1> DEFINE T == {n \in 0 .. i : /\ SectionAt(f, n) \in 0 .. n
                                /\ SectionAt(f, n) # 0 => f[SectionAt(f, n)].k = "section"}
<1>1. SectionAt(f, 0) = 0
  BY DEF SectionAt
<1>2. 0 \in T
  BY <1>1
<1>3. ASSUME NEW n \in 0 + 1 .. i, n - 1 \in T PROVE n \in T
  <2>1. CASE f[n].k = "section"
    BY <2>1, SectionNext
  <2>2. CASE f[n].k # "section"
    <3>1. SectionAt(f, n) = SectionAt(f, n - 1)
      BY <2>2, SectionNext
    <3> QED  BY <1>3, <3>1
  <2> QED  BY <2>1, <2>2
<1>4. 0 .. i \subseteq T
  <2>1. 0 \in Int /\ i \in Int
    OBVIOUS
  <2> HIDE DEF T
  <2> QED  BY <1>2, <1>3, <2>1, UpTo
<1> QED  BY <1>1, <1>4

\* Whether configfile_update() takes a line to be in the section, line by line
LEMMA InsideRun ==
  ASSUME NEW f, Len(f) \in Nat, NEW s
  PROVE  /\ Inside(f, s) \in [0 .. Len(f) -> BOOLEAN]
         /\ ~ Inside(f, s)[0]
         /\ \A i \in 1 .. Len(f) :
              /\ f[i].k # "section" => Inside(f, s)[i] = Inside(f, s)[i - 1]
              /\ f[i].k = "section" => (Inside(f, s)[i] <=> ~ Inside(f, s)[i - 1] /\ f[i].n = s)
<1> DEFINE z == Len(f)
           Step(b, i) == IF f[i].k # "section" THEN b ELSE ~ b /\ f[i].n = s
           G == [i \in 0 + 1 .. z |-> [b \in BOOLEAN |-> Step(b, i)]]
           Loop(q) == [i \in 0 .. z |-> IF i = 0 THEN FALSE
                                        ELSE IF f[i].k # "section" THEN q[i - 1]
                                        ELSE ~ q[i - 1] /\ f[i].n = s]
           p == CHOOSE q : q = Loop(q)
<1>1. z \in Nat
  OBVIOUS
<1>2. Inside(f, s) = p
  BY DEF Inside
<1> HIDE DEF z
<1>3. G \in [0 + 1 .. z -> [BOOLEAN -> BOOLEAN]]
  OBVIOUS
<1>4. PICK r \in [0 .. z -> BOOLEAN] : Runs(r, 0, z, FALSE, G)
  <2>1. 0 \in Int /\ z \in Int /\ 0 <= z /\ FALSE \in BOOLEAN
    BY <1>1
  <2> HIDE DEF G
  <2> QED  BY <1>3, <2>1, LoopRuns
<1>5. r[0] = FALSE /\ \A i \in 1 .. z : r[i] = Step(r[i - 1], i)
  <2>1. ASSUME NEW i \in 1 .. z PROVE r[i] = Step(r[i - 1], i)
    <3>1. r[i - 1] \in BOOLEAN /\ i \in 0 + 1 .. z
      BY <1>1
    <3>2. G[i][r[i - 1]] = Step(r[i - 1], i)
      BY <3>1
    <3> QED  BY <1>4, <3>1, <3>2 DEF Runs
  <2> QED  BY <1>4, <2>1 DEF Runs
<1>6. r = Loop(r)
  BY <1>1, <1>5
<1>7. p = Loop(p)
  <2> HIDE DEF Loop
  <2> QED  BY <1>6
<1> HIDE DEF p
<1>8. /\ p[0] = FALSE
      /\ \A i \in 1 .. z : p[i] = IF f[i].k # "section" THEN p[i - 1] ELSE ~ p[i - 1] /\ f[i].n = s
  <2>1. 0 \in 0 .. z /\ \A i \in 1 .. z : i \in 0 .. z /\ i # 0
    BY <1>1
  <2> QED  BY <1>7, <2>1
<1>9. p \in [0 .. z -> BOOLEAN]
  <2> DEFINE T == {i \in 0 .. z : p[i] \in BOOLEAN}
  <2>1. 0 \in T
    <3>1. 0 \in 0 .. z
      BY <1>1
    <3>2. p[0] \in BOOLEAN
      BY <1>8, Zenon
    <3> QED  BY <3>1, <3>2
  <2>2. ASSUME NEW i \in 0 + 1 .. z, i - 1 \in T PROVE i \in T
    <3>1. i \in 1 .. z /\ i \in 0 .. z /\ p[i - 1] \in BOOLEAN
      BY <1>1, <2>2
    <3> QED  BY <1>8, <3>1
  <2>3. 0 .. z \subseteq T
    <3>1. 0 \in Int /\ z \in Int
      BY <1>1
    <3> HIDE DEF T
    <3> QED  BY <2>1, <2>2, <3>1, UpTo
  <2>4. p = [i \in 0 .. z |-> p[i]]
    BY <1>7
  <2> QED  BY <2>3, <2>4
<1> QED  BY <1>2, <1>8, <1>9 DEF z

LEMMA InsideSection ==
  ASSUME NEW f, Len(f) \in Nat, NEW s, NEW i \in 0 .. Len(f)
  PROVE  Inside(f, s)[i] = Inside(f, s)[SectionAt(f, i)]
<1> DEFINE z == Len(f)
           p == Inside(f, s)
           T == {n \in 0 .. z : p[n] = p[SectionAt(f, n)]}
<1>1. 0 \in T
  BY SectionIs
<1>2. ASSUME NEW n \in 0 + 1 .. z, n - 1 \in T PROVE n \in T
  <2>1. n \in Nat \ {0} /\ n \in 1 .. Len(f)
    OBVIOUS
  <2>2. CASE f[n].k = "section"
    <3>1. SectionAt(f, n) = n
      BY <2>1, <2>2, SectionNext
    <3> QED  BY <3>1
  <2>3. CASE f[n].k # "section"
    <3>1. SectionAt(f, n) = SectionAt(f, n - 1) /\ p[n] = p[n - 1]
      BY <2>1, <2>3, SectionNext, InsideRun
    <3> QED  BY <1>2, <3>1
  <2> QED  BY <2>2, <2>3
<1>3. 0 .. z \subseteq T
  <2>1. 0 \in Int /\ z \in Int
    OBVIOUS
  <2> HIDE DEF T, z
  <2> QED  BY <1>1, <1>2, <2>1, UpTo
<1> QED  BY <1>3

\* Where the token is in a section that is not right behind another of the same name,
\* configfile_update() finds it.
LEMMA InsideHolds ==
  ASSUME NEW f, Len(f) \in Nat, DOMAIN f = 1 .. Len(f), NEW s, NEW t, NEW i \in Holds(f, s, t), ~ Follows(f, i)
  PROVE  Inside(f, s)[i]
<1> DEFINE h == SectionAt(f, i)
           p == Inside(f, s)
<1>1. i \in 1 .. Len(f) /\ h # 0 /\ f[h].n = s
  BY DEF Holds
<1>2. h \in 1 .. Len(f) /\ h \in Nat \ {0} /\ f[h].k = "section"
  BY <1>1, SectionIs
<1>3. p[h] <=> ~ p[h - 1] /\ f[h].n = s
  BY <1>2, InsideRun
<1>4. ~ p[h - 1]
  <2> SUFFICES ASSUME p[h - 1] PROVE FALSE
    OBVIOUS
  <2> DEFINE b == SectionAt(f, h - 1)
  <2>1. h - 1 \in 0 .. Len(f) /\ h - 1 \in Nat
    BY <1>2
  <2>2. p[b] /\ b \in 0 .. h - 1
    BY <2>1, InsideSection, SectionIs
  <2>3. b # 0
    BY <2>2, InsideRun
  <2>4. b \in 1 .. Len(f) /\ f[b].k = "section"
    BY <1>2, <2>1, <2>2, <2>3, SectionIs
  <2>5. f[b].n = s
    BY <2>2, <2>4, InsideRun
  <2>6. h # 1
    BY <2>2, <2>3
  <2> QED  BY <1>1, <2>3, <2>5, <2>6 DEF Follows
<1>5. p[h]
  BY <1>1, <1>3, <1>4
<1> QED  BY <1>1, <1>5, InsideSection

\* g has the lines of f, with the same names, and but for the token t the same values.
Alike(f, g, t) ==
  /\ Len(g) = Len(f)
  /\ \A i \in 1 .. Len(f) :
       /\ g[i].k = f[i].k
       /\ f[i].k \in {"section", "token"} => g[i].n = f[i].n
       /\ f[i].k = "token" /\ f[i].n # t => g[i].v = f[i].v

\* Where configfile_update() finds the token, g has the value v.
Changed(f, g, s, t, v) ==
  \A i \in 1 .. Len(f) : Inside(f, s)[i] /\ f[i].k = "token" /\ f[i].n = t => g[i].v = v

LEMMA UpdatedLines ==
  ASSUME NEW N, NEW V, NEW f \in Seq(Lines(N, V)), NEW s, NEW t, NEW v
  PROVE  LET g == Updated(f, s, t, v)
         IN  /\ g \in Seq(Lines(N, V \cup {v}))
             /\ Alike(f, g, t)
             /\ Changed(f, g, s, t, v)
<1>1. Len(f) \in Nat /\ DOMAIN f = 1 .. Len(f) /\ \A i \in 1 .. Len(f) : f[i] \in Lines(N, V)
  OBVIOUS
<1>2. PICK c : c = [i \in 1 .. Len(f) |-> Inside(f, s)[i] /\ f[i].k = "token" /\ f[i].n = t]
  OBVIOUS
<1>3. PICK e : e = Token(t, v)
  OBVIOUS
<1>4. PICK g : g = [i \in 1 .. Len(f) |-> IF c[i] THEN e ELSE f[i]]
  OBVIOUS
<1>5. g = Updated(f, s, t, v)
  BY <1>1, <1>2, <1>3, <1>4 DEF Updated
<1>6. ASSUME NEW i \in 1 .. Len(f)
      PROVE  /\ g[i] \in Lines(N, V \cup {v})
             /\ g[i].k = f[i].k
             /\ f[i].k \in {"section", "token"} => g[i].n = f[i].n
             /\ f[i].k = "token" /\ f[i].n # t => g[i].v = f[i].v
             /\ c[i] => g[i].v = v
  <2>1. f[i] \in Lines(N, V) /\ f[i] \in Lines(N, V \cup {v})
    BY <1>1 DEF Lines
  <2>2. CASE c[i]
    <3>1. g[i] = e /\ f[i].k = "token" /\ f[i].n = t
      BY <1>2, <1>4, <2>2
    <3>2. e.k = "token" /\ e.n = t /\ e.v = v /\ e = [k |-> "token", n |-> t, v |-> v]
      BY <1>3 DEF Token
    <3>3. t \in N
      BY <2>1, <3>1 DEF Lines
    <3>4. e \in Lines(N, V \cup {v})
      BY <3>2, <3>3 DEF Lines
    <3> QED  BY <3>1, <3>2, <3>4
  <2>3. CASE ~ c[i]
    <3>1. g[i] = f[i]
      BY <1>4, <2>3
    <3> QED  BY <2>1, <2>3, <3>1
  <2> QED  BY <2>2, <2>3
<1>7. g \in Seq(Lines(N, V \cup {v})) /\ Len(g) = Len(f)
  <2>1. PICK n : n = Len(f)
    OBVIOUS
  <2>2. PICK L : L = Lines(N, V \cup {v})
    OBVIOUS
  <2>3. g \in [1 .. n -> L] /\ n \in Nat
    BY <1>1, <1>4, <1>6, <2>1, <2>2
  <2>4. g \in Seq(L) /\ Len(g) = n
    BY ONLY <2>3
  <2> QED  BY <2>1, <2>2, <2>4
<1>8. \A i \in 1 .. Len(f) : Inside(f, s)[i] /\ f[i].k = "token" /\ f[i].n = t => c[i]
  BY <1>2
<1>9. Changed(f, g, s, t, v)
  BY <1>6, <1>8 DEF Changed
<1> QED  BY <1>5, <1>6, <1>7, <1>9 DEF Alike

\* Hence the tokens are where they were.
LEMMA AlikeSections ==
  ASSUME NEW f, NEW g, NEW t, Alike(f, g, t), Len(f) \in Nat, NEW i \in 0 .. Len(f)
  PROVE  SectionAt(g, i) = SectionAt(f, i)
<1> DEFINE z == Len(f)
           T == {n \in 0 .. z : SectionAt(g, n) = SectionAt(f, n)}
<1>1. 0 \in T
  BY SectionIs
<1>2. ASSUME NEW n \in 0 + 1 .. z, n - 1 \in T PROVE n \in T
  <2>1. n \in Nat \ {0} /\ n \in 1 .. Len(f) /\ g[n].k = f[n].k
    BY DEF Alike
  <2> QED  BY <1>2, <2>1, SectionNext
<1>3. 0 .. z \subseteq T
  <2>1. 0 \in Int /\ z \in Int
    OBVIOUS
  <2> HIDE DEF T, z
  <2> QED  BY <1>1, <1>2, <2>1, UpTo
<1> QED  BY <1>3

LEMMA AlikeEditable ==
  ASSUME NEW f, NEW g, NEW t, Alike(f, g, t), Len(f) \in Nat, DOMAIN f = 1 .. Len(f), DOMAIN g = 1 .. Len(g),
         NEW s, NEW u
  PROVE  Editable(g, s, u) <=> Editable(f, s, u)
<1>1. \A i \in 0 .. Len(f) : SectionAt(g, i) = SectionAt(f, i)
  BY AlikeSections
<1>2. ASSUME NEW i \in 1 .. Len(f), SectionAt(f, i) # 0
      PROVE  LET h == SectionAt(f, i) IN h \in 1 .. i /\ f[h].k = "section" /\ g[h].n = f[h].n
  BY <1>2, SectionIs DEF Alike
<1>3. Holds(g, s, u) = Holds(f, s, u)
  <2>1. ASSUME NEW i \in 1 .. Len(f) PROVE i \in Holds(g, s, u) <=> i \in Holds(f, s, u)
    <3>1. g[i].k = f[i].k /\ (f[i].k = "token" => g[i].n = f[i].n)
      BY DEF Alike
    <3>2. SectionAt(g, i) = SectionAt(f, i)
      BY <1>1
    <3> QED  BY <1>2, <3>1, <3>2 DEF Holds, Alike
  <2> QED  BY <2>1 DEF Holds, Alike
<1>4. ASSUME NEW i \in Holds(f, s, u) PROVE Follows(g, i) <=> Follows(f, i)
  <2> DEFINE h == SectionAt(f, i)
             p == IF h = 1 THEN 0 ELSE SectionAt(f, h - 1)
  <2>1. i \in 1 .. Len(f) /\ h # 0
    BY DEF Holds
  <2>2. h \in 1 .. i /\ g[h].n = f[h].n /\ SectionAt(g, i) = h
    BY <1>1, <1>2, <2>1
  <2>3. p = IF h = 1 THEN 0 ELSE SectionAt(g, h - 1)
    <3>1. h - 1 \in 0 .. Len(f)
      BY <2>1, <2>2
    <3> QED  BY <1>1, <3>1
  <2>4. p # 0 => g[p].n = f[p].n
    <3> SUFFICES ASSUME p # 0 PROVE g[p].n = f[p].n
      OBVIOUS
    <3>1. h - 1 \in Nat /\ h - 1 \in 1 .. Len(f) /\ p = SectionAt(f, h - 1)
      BY <2>1, <2>2
    <3>2. p \in 1 .. Len(f) /\ f[p].k = "section"
      BY <3>1, SectionIs
    <3> QED  BY <3>2 DEF Alike
  <2> QED  BY <2>2, <2>3, <2>4 DEF Follows
<1> QED  BY <1>3, <1>4 DEF Editable

\* Two lists of entries with the same names, and but for the token t the same values
Matching(a, b, t) ==
  /\ DOMAIN b = DOMAIN a
  /\ \A j \in DOMAIN a : /\ b[j].s = a[j].s /\ b[j].t = a[j].t
                         /\ a[j].t # t => b[j].v = a[j].v

LEMMA MatchingMore ==
  ASSUME NEW S, NEW R, NEW a \in Seq(S), NEW b \in Seq(R), NEW t, Matching(a, b, t),
         NEW x \in S, NEW y \in R, y.s = x.s, y.t = x.t, x.t # t => y.v = x.v
  PROVE  Matching(<<x>> \o a, <<y>> \o b, t)
<1>1. PICK p, q : p = <<x>> \o a /\ q = <<y>> \o b
  OBVIOUS
<1>2. /\ DOMAIN p = 1 .. Len(a) + 1 /\ p[1] = x /\ \A j \in 1 .. Len(a) : p[j + 1] = a[j]
      /\ DOMAIN q = 1 .. Len(b) + 1 /\ q[1] = y /\ \A j \in 1 .. Len(b) : q[j + 1] = b[j]
  <2>1. DOMAIN p = 1 .. Len(a) + 1 /\ p[1] = x /\ \A j \in 1 .. Len(a) : p[j + 1] = a[j]
    BY <1>1, InFront
  <2>2. DOMAIN q = 1 .. Len(b) + 1 /\ q[1] = y /\ \A j \in 1 .. Len(b) : q[j + 1] = b[j]
    BY <1>1, InFront
  <2> QED
    BY <2>1, <2>2
<1>3. Len(a) \in Nat /\ DOMAIN a = 1 .. Len(a) /\ Len(b) \in Nat /\ DOMAIN b = 1 .. Len(b) /\ Len(b) = Len(a)
  BY LenProperties DEF Matching
<1>4. ASSUME NEW j \in 1 .. Len(a) + 1
      PROVE  q[j].s = p[j].s /\ q[j].t = p[j].t /\ (p[j].t # t => q[j].v = p[j].v)
  <2>1. CASE j = 1
    BY <1>2, <2>1
  <2>2. CASE j # 1
    <3>1. j - 1 \in 1 .. Len(a) /\ (j - 1) + 1 = j
      BY <1>3, <2>2
    <3>2. p[j] = a[j - 1] /\ q[j] = b[j - 1]
      BY <1>2, <1>3, <3>1
    <3> QED  BY <1>3, <3>1, <3>2 DEF Matching
  <2> QED  BY <2>1, <2>2
<1>5. DOMAIN p = 1 .. Len(a) + 1 /\ DOMAIN q = 1 .. Len(a) + 1
  BY <1>2, <1>3
<1>6. Matching(p, q, t)
  BY <1>4, <1>5 DEF Matching
<1> QED  BY <1>1, <1>6

\* What is found of two files that are alike
LEMMA AlikeParsed ==
  ASSUME NEW N, NEW V, NEW W, NEW f \in Seq(Lines(N, V)), NEW g \in Seq(Lines(N, W)), NEW t, Alike(f, g, t)
  PROVE  Matching(ParseAsList(f), ParseAsList(g), t)
<1> DEFINE z == Len(f)
<1>1. z \in Nat /\ Len(g) = z /\ \A i \in 1 .. z : f[i] \in Lines(N, V) /\ g[i] \in Lines(N, W)
  BY DEF Alike
<1>2. PICK r, q : Parses(N, V, f, r) /\ Parses(N, W, g, q)
  BY ParseRun
<1> DEFINE T == {i \in 0 .. z : q[i].section = r[i].section /\ Matching(r[i].list, q[i].list, t)}
<1>4. 0 \in T
  <2>1. 0 \in 0 .. z
    BY <1>1
  <2>2. r[0].section = NoName /\ q[0].section = NoName /\ r[0].list = << >> /\ q[0].list = << >>
    BY <1>2, ParseFirst
  <2>3. Matching(<< >>, << >>, t)
    BY DEF Matching
  <2> QED  BY <2>1, <2>2, <2>3
<1>5. ASSUME NEW i \in 0 + 1 .. z, i - 1 \in T PROVE i \in T
  <2>1. i \in 1 .. z /\ i - 1 \in 0 .. z
    BY <1>1
  <2>2. PICK m, o, x, y : m = r[i - 1] /\ o = q[i - 1] /\ x = f[i] /\ y = g[i]
    OBVIOUS
  <2>3. i \in 1 .. Len(f) /\ i \in 1 .. Len(g)
    BY <1>1, <2>1
  <2>4. y.k = x.k /\ (x.k \in {"section", "token"} => y.n = x.n) /\ (x.k = "token" /\ x.n # t => y.v = x.v)
    BY <2>1, <2>2 DEF Alike
  <2>5. o.section = m.section /\ Matching(m.list, o.list, t)
    BY <1>5, <2>2
  <2>6. /\ r[i] = AddLine(m, x) /\ m \in ParseState(N, V) /\ LineAdded(N, V, m, x) /\ TokenAdded(m, x)
        /\ q[i] = AddLine(o, y) /\ o \in ParseState(N, W) /\ LineAdded(N, W, o, y) /\ TokenAdded(o, y)
    BY <1>2, <2>2, <2>3, ParseNext
  <2>7. AddLine(o, y).section = AddLine(m, x).section /\ Matching(AddLine(m, x).list, AddLine(o, y).list, t)
    <3>1. CASE x.k = "section"
      <4>1. AddLine(m, x) = [section |-> x.n, list |-> m.list] /\ AddLine(o, y) = [section |-> y.n, list |-> o.list]
        BY <2>4, <2>6, <3>1 DEF LineAdded
      <4> QED  BY <2>4, <2>5, <3>1, <4>1
    <3>2. CASE x.k = "token"
      <4>1. PICK d, e : /\ d = [s |-> m.section, t |-> x.n, v |-> x.v]
                        /\ e = [s |-> o.section, t |-> y.n, v |-> y.v]
        OBVIOUS
      <4>2. /\ AddLine(m, x) = [section |-> m.section, list |-> <<d>> \o m.list]
            /\ AddLine(o, y) = [section |-> o.section, list |-> <<e>> \o o.list]
        BY <2>4, <2>6, <3>2, <4>1 DEF TokenAdded
      <4>6. x.n \in N /\ x.v \in V /\ y.n \in N /\ y.v \in W
        BY <2>4, <2>6, <3>2 DEF LineAdded
      <4>3. d \in Entries(N, V) /\ m.list \in Seq(Entries(N, V)) /\ e \in Entries(N, W) /\ o.list \in Seq(Entries(N, W))
        BY <2>6, <4>1, <4>6 DEF Entries, ParseState
      <4>4. e.s = d.s /\ e.t = d.t /\ (d.t # t => e.v = d.v)
        BY <2>4, <2>5, <3>2, <4>1
      <4>5. Matching(<<d>> \o m.list, <<e>> \o o.list, t)
        BY <2>5, <4>3, <4>4, MatchingMore
      <4>7. PICK a, b : a = <<d>> \o m.list /\ b = <<e>> \o o.list
        OBVIOUS
      <4>8. AddLine(m, x) = [section |-> m.section, list |-> a] /\ AddLine(o, y) = [section |-> o.section, list |-> b]
            /\ Matching(a, b, t)
        BY <4>2, <4>5, <4>7
      <4> QED  BY <2>5, <4>8
    <3>3. CASE x.k = "other"
      <4>1. AddLine(m, x) = m /\ AddLine(o, y) = o
        BY <2>4, <2>6, <3>3 DEF LineAdded
      <4> QED  BY <2>5, <4>1
    <3> QED  BY <2>6, <3>1, <3>2, <3>3 DEF LineAdded
  <2> QED  BY <2>1, <2>6, <2>7
<1>6. 0 .. z \subseteq T
  <2>1. 0 \in Int /\ z \in Int
    BY <1>1
  <2> HIDE DEF T, z
  <2> QED  BY <1>4, <1>5, <2>1, UpTo
<1>7. z \in T
  <2> HIDE DEF T, z
  <2> QED  BY <1>1, <1>6
<1> QED  BY <1>1, <1>2, <1>7 DEF Parses

\* The setting u is in f what it is in g.
SettingKept(f, g, s, u, d) ==
  /\ GetValue(ParseAsList(g), s, u, d) = GetValue(ParseAsList(f), s, u, d)
  /\ Editable(g, s, u) <=> Editable(f, s, u)

\* The settings of other tokens stay.
LEMMA OtherSettings ==
  ASSUME NEW N, NEW V, NEW f \in Seq(Lines(N, V)), NEW s, NEW t, NEW v, NEW u, u # t, NEW d
  PROVE  SettingKept(f, Updated(f, s, t, v), s, u, d)
<1>1. PICK g : g = Updated(f, s, t, v)
  OBVIOUS
<1>2. g \in Seq(Lines(N, V \cup {v})) /\ Alike(f, g, t)
  BY <1>1, UpdatedLines
<1>3. PICK a, b : a = ParseAsList(f) /\ b = ParseAsList(g)
  OBVIOUS
<1>4. Matching(a, b, t)
  BY <1>2, <1>3, AlikeParsed
<1>5. PICK I : I = Found(a, s, u)
  OBVIOUS
<1>6. Found(b, s, u) = I /\ \A i \in I : b[i].v = a[i].v
  BY <1>4, <1>5 DEF Found, Matching
<1>7. GetValue(b, s, u, d) = GetValue(a, s, u, d)
  <2>1. CASE I = {}
    BY <1>5, <1>6, <2>1 DEF GetValue
  <2>2. CASE I # {}
    <3> DEFINE first == CHOOSE i \in I : \A j \in I : i <= j
    <3>1. GetValue(b, s, u, d) = b[first].v /\ GetValue(a, s, u, d) = a[first].v
      BY <1>5, <1>6, <2>2 DEF GetValue
    <3>2. first \in I
      <4>1. I \in SUBSET Nat
        <5>1. a \in Seq(Entries(N, V))
          BY <1>3, ParseTyped
        <5> QED  BY <1>5, <5>1 DEF Found
      <4> QED  BY <2>2, <4>1, Least
    <3> QED  BY <1>6, <3>1, <3>2
  <2> QED  BY <2>1, <2>2
<1>8. Editable(g, s, u) <=> Editable(f, s, u)
  <2>1. Len(f) \in Nat /\ DOMAIN f = 1 .. Len(f) /\ DOMAIN g = 1 .. Len(g)
    BY <1>2
  <2> QED  BY <1>2, <2>1, AlikeEditable
<1>9. SettingKept(f, g, s, u, d)
  BY <1>3, <1>7, <1>8 DEF SettingKept
<1> QED  BY <1>1, <1>9


\* The section of the entries
LEMMA SectionParsed ==
  ASSUME NEW N, NEW V, NEW g \in Seq(Lines(N, V)), NEW q, Parses(N, V, g, q), NEW n \in 0 .. Len(g)
  PROVE  LET h == SectionAt(g, n) IN q[n].section = IF h = 0 THEN NoName ELSE g[h].n
<1> DEFINE z == Len(g)
           H(i) == SectionAt(g, i)
           T == {i \in 0 .. z : q[i].section = IF H(i) = 0 THEN NoName ELSE g[H(i)].n}
<1>1. z \in Nat
  OBVIOUS
<1>2. 0 \in T
  <2>1. SectionAt(g, 0) = 0 /\ q[0].section = NoName
    BY SectionIs, ParseFirst
  <2>2. 0 \in 0 .. z
    BY <1>1
  <2>3. q[0].section = IF H(0) = 0 THEN NoName ELSE g[H(0)].n
    BY <2>1
  <2> HIDE DEF z, H
  <2> QED  BY <2>2, <2>3
<1>3. ASSUME NEW i \in 0 + 1 .. z, i - 1 \in T PROVE i \in T
  <2>1. i \in 1 .. Len(g) /\ i \in 1 .. z
    OBVIOUS
  <2>2. PICK m, x : m = q[i - 1] /\ x = g[i]
    OBVIOUS
  <2>3. q[i] = AddLine(m, x) /\ m \in ParseState(N, V) /\ LineAdded(N, V, m, x) /\ TokenAdded(m, x)
        /\ i - 1 \in 0 .. z /\ i \in Nat \ {0} /\ i \in 0 .. z
    BY <2>1, <2>2, ParseNext
  <2>5. CASE x.k = "section"
    <3>1. H(i) = i
      BY <2>3, <2>2, <2>5, SectionNext
    <3>2. q[i].section = x.n
      BY <2>3, <2>5 DEF LineAdded
    <3> QED  BY <2>2, <2>3, <3>1, <3>2
  <2>6. CASE x.k # "section"
    <3>1. H(i) = H(i - 1)
      BY <2>3, <2>2, <2>6, SectionNext
    <3>2. AddLine(m, x).section = m.section
      <4>1. CASE x.k = "token"
        <5>1. PICK e : e = <<[s |-> m.section, t |-> x.n, v |-> x.v]>> \o m.list
          OBVIOUS
        <5>2. AddLine(m, x) = [section |-> m.section, list |-> e]
          BY <2>3, <4>1, <5>1 DEF TokenAdded
        <5> QED  BY <5>2
      <4>2. CASE x.k = "other"
        BY <2>3, <4>2 DEF LineAdded
      <4> QED  BY <2>3, <2>6, <4>1, <4>2 DEF LineAdded
    <3>3. q[i].section = q[i - 1].section
      BY <2>2, <2>3, <3>2
    <3> HIDE DEF H
    <3> QED  BY <1>3, <2>3, <3>1, <3>3
  <2> QED  BY <2>5, <2>6
<1>4. 0 .. z \subseteq T
  <2>1. 0 \in Int /\ z \in Int
    BY <1>1
  <2> HIDE DEF T, z
  <2> QED  BY <1>2, <1>3, <2>1, UpTo
<1> QED  BY <1>4

\* The entries that a line brings: the others, and its own in front of them
LEMMA EntriesMore ==
  ASSUME NEW N, NEW V, NEW m \in ParseState(N, V), NEW x \in Lines(N, V), NEW e \in Entries(N, V)
  PROVE  (\E j \in DOMAIN AddLine(m, x).list : AddLine(m, x).list[j] = e) <=>
            \/ \E j \in DOMAIN m.list : m.list[j] = e
            \/ x.k = "token" /\ e = [s |-> m.section, t |-> x.n, v |-> x.v]
<1>1. LineAdded(N, V, m, x) /\ TokenAdded(m, x)
  BY AddLineIs
<1>4. m.list \in Seq(Entries(N, V)) /\ m.section \in N \cup {""}
  BY DEF ParseState
<1>2. CASE x.k = "token"
  <2>1. PICK b : b = [s |-> m.section, t |-> x.n, v |-> x.v]
    OBVIOUS
  <2>2. PICK q : q = m.list
    OBVIOUS
  <2>8. PICK o : o = <<b>> \o q
    OBVIOUS
  <2>3. b \in Entries(N, V)
    BY <1>1, <1>2, <1>4, <2>1 DEF LineAdded, Entries
  <2>9. q \in Seq(Entries(N, V))
    BY <1>4, <2>2
  <2>4. DOMAIN o = 1 .. Len(q) + 1 /\ o[1] = b /\ \A j \in 1 .. Len(q) : o[j + 1] = q[j]
    BY <2>3, <2>8, <2>9, InFront
  <2>5. Len(q) \in Nat /\ DOMAIN q = 1 .. Len(q)
    BY <2>9
  <2>6. AddLine(m, x).list = o
    <3>1. AddLine(m, x) = [section |-> m.section, list |-> o]
      BY <1>1, <1>2, <2>1, <2>2, <2>8 DEF TokenAdded
    <3> QED  BY <3>1
  <2>7. (\E j \in DOMAIN o : o[j] = e) <=> (\E j \in DOMAIN q : q[j] = e) \/ e = b
    <3>1. ASSUME NEW j \in DOMAIN o, o[j] = e PROVE (\E i \in DOMAIN q : q[i] = e) \/ e = b
      <4>1. j \in 1 .. Len(q) + 1
        BY <2>4
      <4>2. CASE j = 1
        BY <2>4, <3>1, <4>2
      <4>3. CASE j # 1
        <5>1. j - 1 \in 1 .. Len(q) /\ (j - 1) + 1 = j
          BY <2>5, <4>1, <4>3
        <5>2. q[j - 1] = e
          BY <2>4, <3>1, <5>1
        <5> QED  BY <2>5, <5>1, <5>2
      <4> QED  BY <4>2, <4>3
    <3>2. ASSUME NEW j \in DOMAIN q, q[j] = e PROVE \E i \in DOMAIN o : o[i] = e
      <4>1. j \in 1 .. Len(q) /\ j + 1 \in DOMAIN o
        BY <2>4, <2>5
      <4> QED  BY <2>4, <3>2, <4>1
    <3>3. 1 \in DOMAIN o
      BY <2>4, <2>5
    <3> QED  BY <2>4, <3>1, <3>2, <3>3
  <2> QED  BY <1>2, <2>1, <2>2, <2>6, <2>7
<1>3. CASE x.k # "token"
  <2>1. AddLine(m, x).list = m.list
    BY <1>1, <1>3 DEF LineAdded
  <2> QED  BY <1>3, <2>1
<1> QED  BY <1>2, <1>3

Has(list, e) == \E j \in DOMAIN list : list[j] = e

\* What configfile_update() writes is what the next start reads.
LEMMA Written ==
  ASSUME NEW N, NEW V, NEW f \in Seq(Lines(N, V)), NEW s, s # NoName, NEW t, NEW v, Editable(f, s, t), NEW d
  PROVE  GetValue(ParseAsList(Updated(f, s, t, v)), s, t, d) = v
<1>1. PICK g, W : g = Updated(f, s, t, v) /\ W = V \cup {v}
  OBVIOUS
<1>2. g \in Seq(Lines(N, W)) /\ Alike(f, g, t) /\ Changed(f, g, s, t, v)
  BY <1>1, UpdatedLines
<1>3. PICK z : z = Len(f)
  OBVIOUS
<1>4. z \in Nat /\ Len(g) = z /\ DOMAIN f = 1 .. z
  BY <1>2, <1>3 DEF Alike
<1>5. PICK q : Parses(N, W, g, q)
  BY <1>2, ParseRun
<1>6. ASSUME NEW i \in 1 .. z
      PROVE  /\ q[i - 1] \in ParseState(N, W) /\ g[i] \in Lines(N, W)
             /\ q[i] = AddLine(q[i - 1], g[i])
  BY <1>2, <1>4, <1>5, ParseNext
<1>7. ASSUME NEW i \in 1 .. z, g[i].k = "token", g[i].n = t
      PROVE  i \in Holds(f, s, t) <=> q[i - 1].section = s
  <2>1. f[i].k = "token" /\ f[i].n = t
    BY <1>2, <1>3, <1>7 DEF Alike
  <2>2. i \in Nat \ {0} /\ i - 1 \in 0 .. z /\ i - 1 \in 0 .. Len(f) /\ i - 1 \in 0 .. Len(g) /\ i \in 0 .. Len(f) /\ i - 1 \in Nat
    BY <1>3, <1>4
  <2>3. SectionAt(f, i) = SectionAt(f, i - 1)
    <3>1. f[i].k # "section"
      BY <2>1
    <3> QED  BY <2>2, <3>1, SectionNext
  <2>4. PICK h : h = SectionAt(f, i - 1)
    OBVIOUS
  <2>5. SectionAt(g, i - 1) = h
    BY <1>2, <1>3, <1>4, <2>2, <2>4, AlikeSections
  <2>6. q[i - 1].section = IF h = 0 THEN NoName ELSE g[h].n
    BY <1>2, <1>5, <2>2, <2>5, SectionParsed
  <2>7. h # 0 => g[h].n = f[h].n
    <3> SUFFICES ASSUME h # 0 PROVE g[h].n = f[h].n
      OBVIOUS
    <3>1. h \in 0 .. i - 1 /\ f[h].k = "section"
      BY <2>2, <2>4, SectionIs
    <3>2. h \in 1 .. Len(f)
      BY <1>3, <1>4, <3>1
    <3> QED  BY <1>2, <3>1, <3>2 DEF Alike
  <2>8. i \in DOMAIN f
    BY <1>4
  <2> QED  BY <2>1, <2>3, <2>4, <2>6, <2>7, <2>8 DEF Holds
<1>8. ASSUME NEW i \in Holds(f, s, t) PROVE g[i].v = v /\ i \in 1 .. z /\ g[i].k = "token" /\ g[i].n = t
  <2>1. ~ Follows(f, i)
    BY DEF Editable
  <2>2. Inside(f, s)[i]
    BY <1>3, <1>4, <2>1, InsideHolds
  <2>3. i \in 1 .. Len(f) /\ f[i].k = "token" /\ f[i].n = t
    BY <1>3, <1>4 DEF Holds
  <2> QED  BY <1>2, <1>3, <2>2, <2>3 DEF Alike, Changed
<1>9. ASSUME NEW e \in Entries(N, W), e.s = s, e.t = t, Has(q[z].list, e) PROVE e.v = v
  <2> DEFINE T == {i \in 0 .. z : Has(q[i].list, e) => e.v = v}
  <2>1. 0 \in T
    <3>1. ~ Has(q[0].list, e)
      BY <1>5, ParseFirst DEF Has
    <3> QED  BY <1>4, <3>1
  <2>2. ASSUME NEW i \in 0 + 1 .. z, i - 1 \in T PROVE i \in T
    <3> SUFFICES ASSUME Has(q[i].list, e) PROVE e.v = v
      BY <1>4
    <3>1. i \in 1 .. z
      OBVIOUS
    <3>2. PICK m, x : m = q[i - 1] /\ x = g[i]
      OBVIOUS
    <3>3. m \in ParseState(N, W) /\ x \in Lines(N, W) /\ q[i] = AddLine(m, x)
      BY <1>6, <3>1, <3>2
    <3>4. \/ Has(m.list, e)
          \/ x.k = "token" /\ e = [s |-> m.section, t |-> x.n, v |-> x.v]
      BY <3>3, EntriesMore DEF Has
    <3>5. CASE Has(m.list, e)
      BY <2>2, <3>2, <3>5
    <3>6. CASE x.k = "token" /\ e = [s |-> m.section, t |-> x.n, v |-> x.v]
      <4>1. m.section = s /\ x.n = t /\ e.v = x.v
        BY <1>9, <3>6
      <4>2. i \in Holds(f, s, t)
        BY <1>7, <3>1, <3>2, <3>6, <4>1
      <4> QED  BY <1>8, <3>2, <4>1, <4>2
    <3> QED  BY <3>4, <3>5, <3>6
  <2>3. 0 .. z \subseteq T
    <3>1. 0 \in Int /\ z \in Int
      BY <1>4
    <3> HIDE DEF T
    <3> QED  BY <2>1, <2>2, <3>1, UpTo
  <2> QED  BY <1>4, <1>9, <2>3
<1>10. \E e \in Entries(N, W) : e.s = s /\ e.t = t /\ Has(q[z].list, e)
  <2>1. PICK i \in Holds(f, s, t) : TRUE
    BY DEF Editable
  <2>2. PICK m, x : m = q[i - 1] /\ x = g[i]
    OBVIOUS
  <2>3. i \in 1 .. z /\ x.k = "token" /\ x.n = t
    BY <1>8, <2>2
  <2>4. m.section = s
    BY <1>7, <2>2, <2>3
  <2>5. m \in ParseState(N, W) /\ x \in Lines(N, W) /\ q[i] = AddLine(m, x)
    BY <1>6, <2>2, <2>3
  <2>6. PICK e : e = [s |-> m.section, t |-> x.n, v |-> x.v]
    OBVIOUS
  <2>7. e \in Entries(N, W)
    <3>1. x.n \in N /\ x.v \in W
      BY <2>3, <2>5, AddLineIs DEF LineAdded
    <3>2. m.section \in N \cup {""}
      BY <2>5 DEF ParseState
    <3> QED  BY <2>6, <3>1, <3>2 DEF Entries
  <2>8. e.s = s /\ e.t = t
    BY <2>3, <2>4, <2>6
  <2> DEFINE T == {n \in i .. z : Has(q[n].list, e)}
  <2>9. i \in T
    <3>1. Has(q[i].list, e)
      BY <2>3, <2>5, <2>6, <2>7, EntriesMore DEF Has
    <3> QED  BY <1>4, <2>3, <3>1
  <2>10. ASSUME NEW n \in i + 1 .. z, n - 1 \in T PROVE n \in T
    <3>1. n \in 1 .. z /\ n \in i .. z
      BY <1>4, <2>3
    <3>2. PICK o, y : o = q[n - 1] /\ y = g[n]
      OBVIOUS
    <3>3. o \in ParseState(N, W) /\ y \in Lines(N, W) /\ q[n] = AddLine(o, y)
      BY <1>6, <3>1, <3>2
    <3>4. Has(o.list, e)
      BY <2>10, <3>2
    <3>5. Has(q[n].list, e)
      BY <2>7, <3>3, <3>4, EntriesMore DEF Has
    <3> QED  BY <3>1, <3>5
  <2>11. i .. z \subseteq T
    <3>1. i \in Int /\ z \in Int
      BY <1>4, <2>3
    <3> HIDE DEF T
    <3> QED  BY <2>9, <2>10, <3>1, UpTo
  <2>12. Has(q[z].list, e)
    BY <1>4, <2>3, <2>11
  <2> QED  BY <2>7, <2>8, <2>12
<1>11. PICK b : b = q[z].list
  OBVIOUS
<1>12. b = ParseAsList(g) /\ b \in Seq(Entries(N, W))
  <2>1. b = ParseAsList(g)
    BY <1>2, <1>4, <1>5, <1>11 DEF Parses
  <2> QED
    BY <1>2, <2>1, ParseTyped
<1>13. PICK I : I = Found(b, s, t)
  OBVIOUS
<1>14. I \in SUBSET Nat /\ I # {} /\ \A j \in I : b[j].v = v
  <2>1. I \in SUBSET Nat /\ \A j \in DOMAIN b : b[j] \in Entries(N, W)
    BY <1>12, <1>13 DEF Found
  <2>2. I # {}
    BY <1>10, <1>11, <1>13 DEF Found, Has
  <2>3. ASSUME NEW j \in I PROVE b[j].v = v
    <3>1. j \in DOMAIN b /\ b[j].s = s /\ b[j].t = t
      BY <1>13 DEF Found
    <3>2. Has(b, b[j]) /\ b[j] \in Entries(N, W)
      BY <2>1, <3>1 DEF Has
    <3> QED  BY <1>9, <1>11, <3>1, <3>2
  <2> QED  BY <2>1, <2>2, <2>3
<1>15. GetValue(b, s, t, d) = v
  <2> DEFINE first == CHOOSE j \in I : \A k \in I : j <= k
  <2>1. GetValue(b, s, t, d) = b[first].v
    BY <1>13, <1>14 DEF GetValue
  <2>2. first \in I
    BY <1>14, Least
  <2> QED  BY <1>14, <2>1, <2>2
<1> QED  BY <1>1, <1>12, <1>15

-----------------------------------------------------------------------------
(* The settings *)

Tokens == {"display mode", "lcd intensity", "lcd timeout"}

Setting(c, token) ==
  IF token = "display mode" THEN c.mode ELSE IF token = "lcd intensity" THEN c.intensity ELSE c.timeout

\* What the next start would read from a file are the settings c.
Agrees(c, f, token) == Setting(Configured(f), token) = Setting(c, token) \/ ~Editable(f, "ui", token)
AllAgree(c, f) == \A token \in Tokens : Agrees(c, f, token)

FileOps == {"write", "unlink", "rename"}
Quiet(q) == q = << >> \/ Head(q).op \notin FileOps

\* A setting has been changed and is the next thing to be written; the others agree with the file.
Writing(op) ==
  \E token \in Tokens : /\ op.text[1] = token /\ op.n = Setting(cfg, token)
                        /\ \A other \in Tokens \ {token} : Agrees(cfg, file, other)

\* When it has been written the settings agree with the temporary file, until that is the file.
AgreeInv ==
  Running =>
    /\ Quiet(todo) => AllAgree(cfg, file)
    /\ ~Quiet(todo) /\ Head(todo).op = "write" => Writing(Head(todo))
    /\ ~Quiet(todo) /\ Head(todo).op # "write" => AllAgree(cfg, tmpfile)

IsFile(f) == \E N, V : f \in Seq(Lines(N, V))

SettingsInv ==
  /\ file = Missing \/ IsFile(file)
  /\ tmpfile = Missing \/ IsFile(tmpfile)
  /\ DOMAIN cfg = {"mode", "intensity", "timeout"}
  /\ AgreeInv

Default(token) ==
  IF token = "display mode" THEN Mode["GPS"] ELSE IF token = "lcd intensity" THEN MaxLevel ELSE 0

LEMMA SettingRead ==
  ASSUME NEW f, NEW token \in Tokens
  PROVE  Setting(Configured(f), token) = GetValue(ParseAsList(f), "ui", token, Default(token))
<1>1. PICK a, b, c : /\ a = GetValue(ParseAsList(f), "ui", "display mode", Mode["GPS"])
                     /\ b = GetValue(ParseAsList(f), "ui", "lcd intensity", MaxLevel)
                     /\ c = GetValue(ParseAsList(f), "ui", "lcd timeout", 0)
  OBVIOUS
<1>2. Configured(f) = [mode |-> a, intensity |-> b, timeout |-> c]
  BY <1>1, Zenon DEF Configured
<1>3. Configured(f).mode = a /\ Configured(f).intensity = b /\ Configured(f).timeout = c
  BY <1>2
<1>4. CASE token = "display mode"
  <2>1. Setting(Configured(f), token) = a /\ Default(token) = Mode["GPS"]
    BY <1>3, <1>4 DEF Setting, Default
  <2> QED
    BY <1>1, <1>4, <2>1
<1>5. CASE token = "lcd intensity"
  <2>1. Setting(Configured(f), token) = b /\ Default(token) = MaxLevel
    BY <1>3, <1>5 DEF Setting, Default
  <2> QED
    BY <1>1, <1>5, <2>1
<1>6. CASE token = "lcd timeout"
  <2>1. Setting(Configured(f), token) = c /\ Default(token) = 0
    BY <1>3, <1>6 DEF Setting, Default
  <2> QED
    BY <1>1, <1>6, <2>1
<1> QED
  BY <1>4, <1>5, <1>6 DEF Tokens

\* configfile_update() writes a file that agrees, when all the others did.
LEMMA UpdatedAgrees ==
  ASSUME NEW f, IsFile(f), NEW c, NEW t \in Tokens, NEW v, v = Setting(c, t),
         \A other \in Tokens \ {t} : Agrees(c, f, other)
  PROVE  IsFile(Updated(f, "ui", t, v)) /\ AllAgree(c, Updated(f, "ui", t, v))
<1>1. PICK s : s = "ui"
  OBVIOUS
<1>2. s # NoName
  BY <1>1, Zenon DEF NoName
<1>3. PICK N, V : f \in Seq(Lines(N, V))
  BY DEF IsFile
<1>4. PICK g : g = Updated(f, s, t, v)
  OBVIOUS
<1>5. g \in Seq(Lines(N, V \cup {v})) /\ Alike(f, g, t)
  BY <1>3, <1>4, UpdatedLines
<1>6. IsFile(g)
  BY <1>5 DEF IsFile
<1>7. ASSUME NEW other \in Tokens, other # t PROVE Agrees(c, g, other)
  <2>1. PICK d : d = Default(other)
    OBVIOUS
  <2>2. /\ GetValue(ParseAsList(g), s, other, d) = GetValue(ParseAsList(f), s, other, d)
        /\ Editable(g, s, other) <=> Editable(f, s, other)
    <3>1. SettingKept(f, g, s, other, d)
      BY <1>3, <1>4, <1>7, OtherSettings
    <3> QED
      BY <3>1 DEF SettingKept
  <2>3. Setting(Configured(g), other) = Setting(Configured(f), other)
    BY <1>1, <2>1, <2>2, SettingRead
  <2>4. Agrees(c, f, other)
    BY <1>7
  <2> QED
    BY <1>1, <2>2, <2>3, <2>4 DEF Agrees
<1>8. Agrees(c, g, t)
  <2> SUFFICES ASSUME Editable(g, s, t) PROVE Setting(Configured(g), t) = v
    BY <1>1 DEF Agrees
  <2>1. Editable(f, s, t)
    <3>1. Len(f) \in Nat /\ DOMAIN f = 1 .. Len(f) /\ DOMAIN g = 1 .. Len(g)
      BY <1>3, <1>5
    <3> QED
      BY <1>5, <3>1, AlikeEditable
  <2>2. PICK d : d = Default(t)
    OBVIOUS
  <2>3. GetValue(ParseAsList(g), s, t, d) = v
    BY <1>2, <1>3, <1>4, <2>1, Written
  <2> QED
    BY <1>1, <2>2, <2>3, SettingRead
<1>9. AllAgree(c, g)
  BY <1>7, <1>8 DEF AllAgree
<1> QED
  BY <1>1, <1>4, <1>6, <1>9

-----------------------------------------------------------------------------
(* What is to be done about the file *)

LEMMA QuietPlain == ASSUME NEW q, Plain(q) PROVE Quiet(q)
<1> SUFFICES ASSUME q # << >> PROVE Head(q).op \notin FileOps
  BY DEF Quiet
<1>1. Len(q) \in Nat \ {0} /\ Head(q) = q[1]
  BY Parts DEF Plain
<1>2. 1 \in 1..Len(q)
  BY <1>1
<1> QED
  BY <1>1, <1>2 DEF Plain, PlainOp, FileOps

LEMMA QuietNot ==
  ASSUME NEW q, NEW k \in 0..2, Pending(q, k)
  PROVE  ~Quiet(q) /\ Head(q).op = <<"write", "unlink", "rename">>[1 + k]
<1>1. q # << >> /\ Head(q).op = <<"write", "unlink", "rename">>[1 + k]
  BY PendingTail
<1>2. Head(q).op \in FileOps
  <2>1. CASE k = 0
    BY <1>1, <2>1 DEF FileOps
  <2>2. CASE k = 1
    BY <1>1, <2>2 DEF FileOps
  <2>3. CASE k = 2
    BY <1>1, <2>3 DEF FileOps
  <2> QED
    BY <2>1, <2>2, <2>3
<1> QED
  BY <1>1, <1>2 DEF Quiet

LEMMA FirstOf ==
  ASSUME NEW a, NEW b, IsSeq(a), IsSeq(b), a # << >>
  PROVE  a \o b # << >> /\ Head(a \o b) = Head(a) /\ IsSeq(a \o b)
<1>1. PICK h : h = a \o b
  OBVIOUS
<1>2. /\ IsSeq(h) /\ Len(h) = Len(a) + Len(b)
      /\ \A i \in 1..Len(a) : h[i] = a[i]
  BY <1>1, Joined
<1>3. Len(a) \in Nat \ {0} /\ Head(a) = a[1] /\ Len(b) \in Nat
  BY Parts, Lengths
<1>4. Len(h) # 0 /\ 1 \in 1..Len(a)
  BY <1>2, <1>3
<1>5. h # << >>
  BY <1>4, Empty, Zenon
<1>6. Head(h) = h[1]
  BY <1>2, <1>5, Parts
<1> QED
  BY <1>1, <1>2, <1>3, <1>4, <1>5, <1>6

\* The settings are as they were.
SameSettings ==
  /\ DOMAIN cfg' = {"mode", "intensity", "timeout"}
  /\ \A token \in Tokens : Setting(cfg', token) = Setting(cfg, token)

LEMMA SettingsKept ==
  ASSUME SettingsInv, SameSettings, UNCHANGED <<file, tmpfile>>, Running' => Running,
         todo' = todo \/ (Quiet(todo) /\ Quiet(todo'))
  PROVE  SettingsInv'
<1>1. ASSUME NEW f, NEW token \in Tokens PROVE Agrees(cfg', f, token) <=> Agrees(cfg, f, token)
  BY DEF Agrees, SameSettings
<1>2. ASSUME NEW f PROVE AllAgree(cfg', f) <=> AllAgree(cfg, f)
  BY <1>1 DEF AllAgree
<1>3. ASSUME NEW op, Writing(op) PROVE Writing(op)'
  BY <1>1, <1>3 DEF Writing, SameSettings
<1>4. Quiet(todo)' <=> Quiet(todo')
  BY DEF Quiet
<1>5. AllAgree(cfg, file)' <=> AllAgree(cfg', file)
  BY DEF AllAgree, Agrees
<1>6. AllAgree(cfg, tmpfile)' <=> AllAgree(cfg', tmpfile)
  BY DEF AllAgree, Agrees
<1>7. AgreeInv'
  <2> SUFFICES ASSUME Running'
               PROVE  /\ Quiet(todo') => AllAgree(cfg', file)
                      /\ ~Quiet(todo') /\ Head(todo').op = "write" => Writing(Head(todo))'
                      /\ ~Quiet(todo') /\ Head(todo').op # "write" => AllAgree(cfg', tmpfile)
    BY <1>4, <1>5, <1>6 DEF AgreeInv
  <2>1. CASE Quiet(todo) /\ Quiet(todo')
    BY <1>2, <2>1 DEF SettingsInv, AgreeInv
  <2>2. CASE todo' = todo
    <3>1. Writing(Head(todo)) => Writing(Head(todo))'
      <4>1. PICK op : op = Head(todo)
        OBVIOUS
      <4>2. Writing(op) => Writing(op)'
        BY <1>3
      <4> QED
        BY <2>2, <4>1, <4>2 DEF Writing
    <3> QED
      BY <1>2, <2>2, <3>1 DEF SettingsInv, AgreeInv
  <2> QED
    BY <2>1, <2>2
<1> QED
  BY <1>7 DEF SettingsInv, SameSettings, IsFile

\* One is changed, and is to be written.
LEMMA SettingsChanged ==
  ASSUME SettingsInv, UNCHANGED <<file, tmpfile>>, Running, todo = << >>,
         DOMAIN cfg' = {"mode", "intensity", "timeout"}, NEW t \in Tokens,
         \A other \in Tokens \ {t} : Setting(cfg', other) = Setting(cfg, other),
         todo' # << >>, Head(todo') = Op("write", Setting(cfg', t), Text(t, 0))
  PROVE  SettingsInv'
<1>1. PICK op : op = Op("write", Setting(cfg', t), Text(t, 0))
  OBVIOUS
<1>2. op.op = "write" /\ op.n = Setting(cfg', t) /\ op.text[1] = t
  BY <1>1 DEF Op, Text
<1>3. AllAgree(cfg, file)
  BY DEF SettingsInv, AgreeInv, Quiet
<1>4. \A other \in Tokens \ {t} : Agrees(cfg', file, other)
  BY <1>3 DEF AllAgree, Agrees
<1>5. \A other \in Tokens \ {t} : Agrees(cfg, file, other)'
  BY <1>4 DEF Agrees
<1>6. Writing(op)'
  BY <1>2, <1>5 DEF Writing
<1>7. Head(todo)' = op
  BY <1>1
<1>8. ~Quiet(todo)'
  BY <1>2, <1>7 DEF Quiet, FileOps
<1>9. Writing(Head(todo))'
  BY <1>6, <1>7 DEF Writing
<1>10. AgreeInv'
  BY <1>2, <1>7, <1>8, <1>9 DEF AgreeInv
<1> QED
  BY <1>10 DEF SettingsInv, IsFile


LEMMA QuietJoined ==
  ASSUME NEW a, NEW b, IsSeq(a), Quiet(a), Plain(b)
  PROVE  Quiet(a \o b)
<1>1. IsSeq(b)
  BY DEF Plain
<1>2. CASE a = << >>
  <2>1. Plain(a)
    BY <1>2, PlainEmpty
  <2> QED
    BY <2>1, PlainJoined, QuietPlain
<1>3. CASE a # << >>
  BY <1>1, <1>3, FirstOf DEF Quiet
<1> QED
  BY <1>2, <1>3

\* The settings are used as they are.
LEMMA SameCfg == SettingsInv /\ cfg' = cfg => SameSettings
BY DEF SettingsInv, SameSettings

\* While there is nothing to be done, a step that begins with something else than the file
LEMMA IdleKept ==
  ASSUME IInv, SettingsInv, todo = << >>, Running, UNCHANGED <<cfg, file, tmpfile>>, Quiet(todo')
  PROVE  SettingsInv'
BY SameCfg, SettingsKept DEF Quiet

\* A step that is not about the settings
LEMMA NoneKept ==
  ASSUME SettingsInv, UNCHANGED <<todo, cfg, file, tmpfile>>, Running' => Running
  PROVE  SettingsInv'
BY SameCfg, SettingsKept

LEMMA UpdateConfigSettings == IInv /\ SettingsInv /\ UpdateConfig => SettingsInv'
<1> SUFFICES ASSUME IInv, SettingsInv, UpdateConfig PROVE SettingsInv'
  OBVIOUS
<1>1. /\ todo # << >> /\ todo' = Tail(todo) /\ ui' = ui /\ cfg' = cfg
      /\ Head(todo).op \in FileOps
  BY DEF UpdateConfig, FileOps
<1>2. Running
  BY <1>1 DEF IInv, Shape
<1>3. PICK k \in 0..3 : /\ Pending(todo, k)
                        /\ k \in 1..2 => tmpfile # Missing
                        /\ Running /\ file = Missing => k = 2
  BY Zenon DEF IInv, TodoInv
<1>4. k \in 0..2
  <2>1. ASSUME k = 3 PROVE FALSE
    <3>1. Plain(todo)
      BY <1>3, <2>1, PlainPending
    <3>2. Quiet(todo)
      BY <3>1, QuietPlain
    <3> QED
      BY <1>1, <3>2 DEF Quiet
  <2> QED
    BY <2>1
<1>5. /\ Pending(todo', k + 1) /\ ~Quiet(todo)
      /\ Head(todo).op = <<"write", "unlink", "rename">>[1 + k]
  BY <1>1, <1>3, <1>4, PendingTail, QuietNot
<1>6. ASSUME Quiet(todo'), file' = Missing \/ IsFile(file'), tmpfile' = Missing \/ IsFile(tmpfile'), AllAgree(cfg, file')
      PROVE  SettingsInv'
  <2>1. AllAgree(cfg, file)'
    BY <1>1, <1>6 DEF AllAgree, Agrees
  <2>2. Quiet(todo)'
    BY <1>6 DEF Quiet
  <2> QED
    BY <1>1, <1>6, <2>1, <2>2 DEF SettingsInv, AgreeInv, IsFile
<1>7. ASSUME ~Quiet(todo'), Head(todo').op # "write", file' = Missing \/ IsFile(file'), tmpfile' = Missing \/ IsFile(tmpfile'),
             AllAgree(cfg, tmpfile')
      PROVE  SettingsInv'
  <2>1. AllAgree(cfg, tmpfile)'
    BY <1>1, <1>7 DEF AllAgree, Agrees
  <2>2. ~Quiet(todo)'
    BY <1>7 DEF Quiet
  <2> QED
    BY <1>1, <1>7, <2>1, <2>2 DEF SettingsInv, AgreeInv, IsFile
<1>8. CASE k = 0
  <2>1. PICK op : op = Head(todo)
    OBVIOUS
  <2>2. op.op = "write" /\ file # Missing
    BY <1>2, <1>3, <1>5, <1>8, <2>1
  <2>3. tmpfile' = Updated(file, "ui", op.text[1], op.n) /\ file' = file
    BY <2>1, <2>2, Zenon DEF UpdateConfig
  <2>4. Writing(op)
    BY <1>2, <1>5, <2>1, <2>2 DEF SettingsInv, AgreeInv
  <2>5. PICK t \in Tokens : /\ op.text[1] = t /\ op.n = Setting(cfg, t)
                            /\ \A other \in Tokens \ {t} : Agrees(cfg, file, other)
    BY <2>4 DEF Writing
  <2>6. IsFile(file)
    BY <2>2 DEF SettingsInv
  <2>7. PICK f, c, v : f = file /\ c = cfg /\ v = op.n
    OBVIOUS
  <2>8. IsFile(Updated(f, "ui", t, v)) /\ AllAgree(c, Updated(f, "ui", t, v))
    BY <2>5, <2>6, <2>7, UpdatedAgrees
  <2>9. IsFile(tmpfile') /\ AllAgree(cfg, tmpfile')
    BY <2>3, <2>5, <2>7, <2>8
  <2>10. ~Quiet(todo') /\ Head(todo').op # "write"
    <3>1. Pending(todo', 1)
      BY <1>5, <1>8
    <3>2. ~Quiet(todo') /\ Head(todo').op = <<"write", "unlink", "rename">>[1 + 1]
      BY <3>1, QuietNot
    <3> QED
      BY <3>2
  <2> QED
    BY <1>7, <2>3, <2>6, <2>9, <2>10
<1>9. CASE k = 1
  <2>1. Head(todo).op = "unlink"
    BY <1>5, <1>9
  <2>2. file' = Missing /\ tmpfile' = tmpfile
    BY <2>1, Zenon DEF UpdateConfig
  <2>3. AllAgree(cfg, tmpfile)
    BY <1>2, <1>5, <2>1 DEF SettingsInv, AgreeInv
  <2>4. ~Quiet(todo') /\ Head(todo').op # "write"
    <3>1. Pending(todo', 2)
      BY <1>5, <1>9
    <3>2. ~Quiet(todo') /\ Head(todo').op = <<"write", "unlink", "rename">>[1 + 2]
      BY <3>1, QuietNot
    <3> QED
      BY <3>2
  <2> QED
    BY <1>7, <2>2, <2>3, <2>4 DEF SettingsInv
<1>10. CASE k = 2
  <2>1. Head(todo).op = "rename"
    BY <1>5, <1>10
  <2>2. file' = tmpfile /\ tmpfile' = Missing
    BY <2>1, Zenon DEF UpdateConfig
  <2>3. AllAgree(cfg, tmpfile)
    BY <1>2, <1>5, <2>1 DEF SettingsInv, AgreeInv
  <2>4. Quiet(todo')
    <3>1. Pending(todo', 3)
      BY <1>5, <1>10
    <3> QED
      BY <3>1, PlainPending, QuietPlain
  <2> QED
    BY <1>6, <2>2, <2>3, <2>4 DEF SettingsInv
<1> QED
  BY <1>4, <1>8, <1>9, <1>10

\* Packets, the answers to them, and commands
LEMMA DoneSettings == IInv /\ SettingsInv /\ (Skip \/ Exchange \/ System) => SettingsInv'
<1> SUFFICES ASSUME IInv, SettingsInv, Skip \/ Exchange \/ System PROVE SettingsInv'
  OBVIOUS
<1>1. UNCHANGED <<ui, cfg, file, tmpfile>>
  BY DEF Skip, Exchange, System
<1>2. CASE Skip
  BY <1>1, <1>2, SkipPlain, QuietPlain, SameCfg, SettingsKept DEF Running
<1>3. CASE Exchange
  <2>1. Plain(todo) /\ Plain(todo')
    <3>1. todo # << >> /\ Head(todo).op \in Packets /\ todo' = Tail(todo)
      BY <1>3 DEF Exchange
    <3>2. Plain(todo)
      BY <3>1, PlainLeft DEF IInv, Packets
    <3> QED
      BY <3>1, <3>2, PlainTail
  <2> QED
    BY <1>1, <2>1, QuietPlain, SameCfg, SettingsKept DEF Running
<1>4. CASE System
  <2>1. todo # << >> /\ Head(todo).op = "system"
    BY <1>4 DEF System
  <2>2. Plain(todo)
    BY <2>1, PlainLeft DEF IInv
  <2>3. Plain(todo')
    BY <1>4, <2>1, <2>2, PlainTail, PlainParts, PlainJoined DEF System
  <2> QED
    BY <1>1, <2>2, <2>3, QuietPlain, SameCfg, SettingsKept DEF Running
<1> QED
  BY <1>2, <1>3, <1>4

LEMMA StatusSettings ==
  ASSUME IInv, SettingsInv, ShowStatus \/ BacklightOff \/ StatusOther \/ StatusKey
  PROVE  SettingsInv'
<1>1. todo = << >> /\ Running /\ UNCHANGED <<cfg, file, tmpfile>>
  BY DEF ShowStatus, BacklightOff, StatusOther, StatusKey, Idle, Running
<1>2. CASE ShowStatus
  BY <1>1, <1>2, ShowStatusPlain, QuietPlain, IdleKept
<1>3. CASE BacklightOff
  <2>1. Plain(todo')
    BY <1>3, PlainParts DEF BacklightOff
  <2> QED
    BY <1>1, <2>1, QuietPlain, IdleKept
<1>4. CASE StatusOther
  BY <1>1, <1>4, IdleKept DEF StatusOther, Quiet
<1>5. CASE StatusKey
  BY <1>1, <1>5, StatusKeyPlain, QuietPlain, IdleKept
<1> QED
  BY <1>2, <1>3, <1>4, <1>5

LEMMA LeaveSettings ==
  ASSUME IInv, SettingsInv, Idle("menu"), LeaveMenu, UNCHANGED <<cfg, file, tmpfile>>
  PROVE  SettingsInv'
<1>1. Plain(todo')
  BY PlainParts, PlainJoined DEF LeaveMenu
<1>2. todo = << >> /\ Running
  BY DEF Idle, Running
<1> QED
  BY <1>1, <1>2, QuietPlain, IdleKept

LEMMA UpdateFirst ==
  ASSUME NEW t, NEW v, NEW b, IsSeq(b)
  PROVE  LET q == Update(t, v) \o b
         IN  q # << >> /\ Head(q) = Op("write", v, Text(t, 0)) /\ IsSeq(q)
<1>1. PICK a : a = Update(t, v)
  OBVIOUS
<1>2. IsSeq(a) /\ Len(a) = 3 /\ a[1] = Op("write", v, Text(t, 0))
  BY <1>1, Listed DEF Update
<1>3. Len(a) # 0
  BY <1>2
<1>4. a # << >>
  BY <1>3, Empty, Zenon
<1>5. Head(a) = a[1]
  BY <1>2, <1>4, Parts
<1>6. a \o b # << >> /\ Head(a \o b) = a[1] /\ IsSeq(a \o b)
  BY <1>2, <1>4, <1>5, FirstOf
<1> QED
  BY <1>1, <1>2, <1>6

LEMMA ExecItemSettings ==
  ASSUME IInv, SettingsInv, Idle("menu"), NEW item, ExecItem(item), UNCHANGED <<file, tmpfile>>
  PROVE  SettingsInv'
<1>1. todo = << >> /\ Running /\ ui.menus \in Seq(DOMAIN Menus) /\ ui.menus # << >>
  BY DEF IInv, Shape, Idle, InChain, Running
<1>2. DOMAIN cfg = {"mode", "intensity", "timeout"}
  BY DEF SettingsInv
<1>3. CASE item \in Modes
  <2>1. PICK m : m = Mode[item]
    OBVIOUS
  <2>2. /\ cfg' = [cfg EXCEPT !.mode = m]
        /\ todo' = (IF cfg.mode = m THEN << >> ELSE Update("display mode", m) \o Clear) \o DrawMenu(ui)
    BY <1>3, <2>1 DEF ExecItem
  <2>3. DOMAIN cfg' = DOMAIN cfg /\ cfg'.mode = m /\ cfg'.intensity = cfg.intensity /\ cfg'.timeout = cfg.timeout
    BY <1>2, <2>2
  <2>4. Plain(DrawMenu(ui)) /\ IsSeq(DrawMenu(ui))
    BY <1>1, PlainMenu DEF Plain
  <2>5. CASE cfg.mode = m
    <3>1. SameSettings
      BY <1>2, <2>3, <2>5 DEF SameSettings, Setting
    <3>2. Quiet(todo')
      <4>1. todo' = << >> \o DrawMenu(ui)
        BY <2>2, <2>5
      <4> QED
        BY <2>4, <4>1, PlainEmpty, PlainJoined, QuietPlain
    <3> QED
      BY <1>1, <3>1, <3>2, SettingsKept DEF Quiet
  <2>6. CASE cfg.mode # m
    <3>1. PICK t : t = "display mode"
      OBVIOUS
    <3>2. t \in Tokens /\ Setting(cfg', t) = m /\ \A other \in Tokens \ {t} : Setting(cfg', other) = Setting(cfg, other)
      BY <2>3, <3>1 DEF Tokens, Setting
    <3>3. PICK q : q = Update(t, m) \o Clear
      OBVIOUS
    <3>4. q # << >> /\ Head(q) = Op("write", m, Text(t, 0)) /\ IsSeq(q)
      BY <3>3, UpdateFirst, PlainParts DEF Plain
    <3>5. todo' = q \o DrawMenu(ui)
      BY <2>2, <2>6, <3>1, <3>3
    <3>6. todo' # << >> /\ Head(todo') = Op("write", m, Text(t, 0))
      BY <2>4, <3>4, <3>5, FirstOf
    <3> QED
      BY <1>1, <1>2, <2>3, <3>2, <3>6, SettingsChanged
  <2> QED
    BY <2>5, <2>6
<1>4. CASE item \notin Modes
  <2>1. PICK e : todo' = DrawDialog(item, e) /\ cfg' = cfg
    BY <1>4, Zenon DEF ExecItem
  <2> QED
    BY <1>1, <2>1, PlainDialog, QuietPlain, IdleKept
<1> QED
  BY <1>3, <1>4

\* A menu that has been gone to is there to be drawn.
LEMMA MenuDrawn ==
  ASSUME IInv', NEW m, NEW r, ui' = InMenu(m, r)
  PROVE  Plain(DrawMenu(ui'))
<1>1. ui'.at = "menu"
  BY Screens
<1>2. ui'.menus \in Seq(DOMAIN Menus) /\ ui'.menus # << >>
  BY <1>1 DEF IInv, Shape, InChain
<1> QED
  BY <1>2, PlainMenu

LEMMA MenuPacketSettings == IInv /\ IInv' /\ SettingsInv /\ MenuPacket => SettingsInv'
<1> SUFFICES ASSUME IInv, IInv', SettingsInv, MenuPacket PROVE SettingsInv'
  OBVIOUS
<1>1. Idle("menu") /\ UNCHANGED <<file, tmpfile>>
  BY DEF MenuPacket, ReadPacket
<1>2. todo = << >> /\ Running
  BY <1>1 DEF Idle, Running
<1>3. \/ \E item : ExecItem(item)
      \/ LeaveMenu /\ cfg' = cfg
      \/ cfg' = cfg /\ \E m, r : ui' = InMenu(m, r) /\ todo' = DrawMenu(ui')
      \/ cfg' = cfg /\ todo' = Cursor
      \/ cfg' = cfg /\ todo' = todo
  BY Zenon DEF MenuPacket, Stay
<1>4. CASE \E item : ExecItem(item)
  BY <1>1, <1>4, ExecItemSettings
<1>5. CASE LeaveMenu /\ cfg' = cfg
  BY <1>1, <1>5, LeaveSettings
<1>6. CASE cfg' = cfg /\ \E m, r : ui' = InMenu(m, r) /\ todo' = DrawMenu(ui')
  BY <1>1, <1>2, <1>6, MenuDrawn, QuietPlain, IdleKept
<1>7. CASE cfg' = cfg /\ todo' = Cursor
  BY <1>1, <1>2, <1>7, PlainParts, QuietPlain, IdleKept
<1>8. CASE cfg' = cfg /\ todo' = todo
  BY <1>1, <1>2, <1>8, IdleKept DEF Quiet
<1> QED
  BY <1>3, <1>4, <1>5, <1>6, <1>7, <1>8

LEMMA FinishSettings ==
  ASSUME IInv, IInv', SettingsInv, Idle("dialog"), NEW ok \in BOOLEAN, NEW seen, Finish(ok, seen),
         UNCHANGED <<file, tmpfile>>
  PROVE  SettingsInv'
<1>1. todo = << >> /\ Running /\ DOMAIN cfg = {"mode", "intensity", "timeout"}
  BY DEF Idle, Running, SettingsInv
<1>2. PICK u : u = InMenu(ui.menus, ui.row)
  OBVIOUS
<1>3. ui' = u
  BY <1>2 DEF Finish
<1>4. Plain(DrawMenu(u)) /\ IsSeq(DrawMenu(u))
  <2>1. Plain(DrawMenu(ui'))
    BY <1>2, <1>3, MenuDrawn
  <2> QED
    BY <1>3, <2>1 DEF Plain
<1>5. \/ cfg' = [cfg EXCEPT !.intensity = ui.edit] /\ todo' = Update("lcd intensity", ui.edit) \o DrawMenu(u)
      \/ cfg' = [cfg EXCEPT !.timeout = ui.edit] /\ todo' = Update("lcd timeout", ui.edit) \o DrawMenu(u)
      \/ cfg' = cfg /\ \E a : /\ todo' = a \o DrawMenu(u)
                              /\ \/ a = Back(cfg.intensity)
                                 \/ a = Clear \o <<Op("system", 0, seen)>>
                                 \/ a = << >>
  BY <1>2, Zenon DEF Finish
<1>6. CASE cfg' = [cfg EXCEPT !.intensity = ui.edit] /\ todo' = Update("lcd intensity", ui.edit) \o DrawMenu(u)
  <2>1. PICK t, v : t = "lcd intensity" /\ v = ui.edit
    OBVIOUS
  <2>2. /\ DOMAIN cfg' = DOMAIN cfg /\ cfg'.intensity = v
        /\ cfg'.mode = cfg.mode /\ cfg'.timeout = cfg.timeout
    BY <1>1, <1>6, <2>1
  <2>3. t \in Tokens /\ Setting(cfg', t) = v /\ \A other \in Tokens \ {t} : Setting(cfg', other) = Setting(cfg, other)
    BY <2>1, <2>2 DEF Tokens, Setting
  <2>4. todo' # << >> /\ Head(todo') = Op("write", v, Text(t, 0))
    BY <1>4, <1>6, <2>1, UpdateFirst
  <2> QED
    BY <1>1, <2>2, <2>3, <2>4, SettingsChanged
<1>7. CASE cfg' = [cfg EXCEPT !.timeout = ui.edit] /\ todo' = Update("lcd timeout", ui.edit) \o DrawMenu(u)
  <2>1. PICK t, v : t = "lcd timeout" /\ v = ui.edit
    OBVIOUS
  <2>2. /\ DOMAIN cfg' = DOMAIN cfg /\ cfg'.timeout = v
        /\ cfg'.mode = cfg.mode /\ cfg'.intensity = cfg.intensity
    BY <1>1, <1>7, <2>1
  <2>3. t \in Tokens /\ Setting(cfg', t) = v /\ \A other \in Tokens \ {t} : Setting(cfg', other) = Setting(cfg, other)
    BY <2>1, <2>2 DEF Tokens, Setting
  <2>4. todo' # << >> /\ Head(todo') = Op("write", v, Text(t, 0))
    BY <1>4, <1>7, <2>1, UpdateFirst
  <2> QED
    BY <1>1, <2>2, <2>3, <2>4, SettingsChanged
<1>8. CASE cfg' = cfg /\ \E a : /\ todo' = a \o DrawMenu(u)
                                /\ \/ a = Back(cfg.intensity)
                                   \/ a = Clear \o <<Op("system", 0, seen)>>
                                   \/ a = << >>
  <2>1. PICK a : /\ todo' = a \o DrawMenu(u)
                 /\ \/ a = Back(cfg.intensity)
                    \/ a = Clear \o <<Op("system", 0, seen)>>
                    \/ a = << >>
    BY <1>8
  <2>2. IsSeq(a) /\ Quiet(a)
    <3>1. CASE a = Back(cfg.intensity)
      BY <3>1, PlainParts, QuietPlain DEF Plain
    <3>2. CASE a = Clear \o <<Op("system", 0, seen)>>
      <4>1. PICK b, x : b = Clear /\ x = <<Op("system", 0, seen)>>
        OBVIOUS
      <4>2. IsSeq(b) /\ IsSeq(x) /\ Len(b) = 1 /\ b[1].op = "clear"
        BY <4>1, Listed DEF Clear, Op
      <4>3. Len(b) # 0
        BY <4>2
      <4>4. b # << >>
        BY <4>3, Empty, Zenon
      <4>5. Head(b).op = "clear"
        BY <4>2, <4>4, Parts
      <4>6. IsSeq(b \o x) /\ Head(b \o x).op = "clear"
        BY <4>2, <4>4, <4>5, FirstOf
      <4> QED
        BY <3>2, <4>1, <4>6 DEF Quiet, FileOps
    <3>3. CASE a = << >>
      BY <3>3, PlainEmpty, QuietPlain DEF Plain
    <3> QED
      BY <2>1, <3>1, <3>2, <3>3
  <2>3. Quiet(todo')
    BY <1>4, <2>1, <2>2, QuietJoined
  <2> QED
    BY <1>1, <1>8, <2>3, IdleKept
<1> QED
  BY <1>5, <1>6, <1>7, <1>8

LEMMA DialogPacketSettings == IInv /\ IInv' /\ SettingsInv /\ DialogPacket => SettingsInv'
<1> SUFFICES ASSUME IInv, IInv', SettingsInv, DialogPacket PROVE SettingsInv'
  OBVIOUS
<1>1. Idle("dialog") /\ UNCHANGED <<file, tmpfile>>
  BY DEF DialogPacket, ReadPacket
<1>2. todo = << >> /\ Running
  BY <1>1 DEF Idle, Running
<1>3. \/ \E ok \in BOOLEAN : \E seen : Finish(ok, seen)
      \/ cfg' = cfg /\ todo' = (IF Widget(ui) = "slider" THEN Back(ui'.edit) ELSE << >>)
                                    \o Rows(ui.dlg, ui'.edit) \o Cursor
      \/ cfg' = cfg /\ todo' = Cursor
      \/ cfg' = cfg /\ todo' = todo
  <2>1. \/ Finish(FALSE, NoText)
        \/ Finish(TRUE, Head(inbox).seen)
        \/ cfg' = cfg /\ todo' = (IF Widget(ui) = "slider" THEN Back(ui'.edit) ELSE << >>)
                                      \o Rows(ui.dlg, ui'.edit) \o Cursor
        \/ cfg' = cfg /\ todo' = Cursor
        \/ cfg' = cfg /\ todo' = todo
    BY Zenon DEF DialogPacket, Stay
  <2> QED
    BY <2>1, Zenon
<1>4. CASE \E ok \in BOOLEAN : \E seen : Finish(ok, seen)
  BY <1>1, <1>4, FinishSettings
<1>5. CASE cfg' = cfg /\ todo' = (IF Widget(ui) = "slider" THEN Back(ui'.edit) ELSE << >>)
                                      \o Rows(ui.dlg, ui'.edit) \o Cursor
  <2>1. PICK a, b : /\ a = IF Widget(ui) = "slider" THEN Back(ui'.edit) ELSE << >>
                    /\ b = Rows(ui.dlg, ui'.edit)
    BY Zenon
  <2>2. Plain(a) /\ Plain(b)
    BY <2>1, PlainParts, PlainEmpty, PlainRows
  <2>3. Plain((a \o b) \o Cursor)
    BY <2>2, PlainParts, PlainJoined
  <2>4. todo' = (a \o b) \o Cursor
    BY <1>5, <2>1
  <2> QED
    BY <1>1, <1>2, <1>5, <2>3, <2>4, QuietPlain, IdleKept
<1>6. CASE cfg' = cfg /\ todo' = Cursor
  BY <1>1, <1>2, <1>6, PlainParts, QuietPlain, IdleKept
<1>7. CASE cfg' = cfg /\ todo' = todo
  BY <1>1, <1>2, <1>7, IdleKept DEF Quiet
<1> QED
  BY <1>3, <1>4, <1>5, <1>6, <1>7

LEMMA Configuring ==
  ASSUME NEW f
  PROVE  DOMAIN Configured(f) = {"mode", "intensity", "timeout"} /\ AllAgree(Configured(f), f)
<1>1. DOMAIN Configured(f) = {"mode", "intensity", "timeout"}
  <2>1. PICK a, b, c : /\ a = GetValue(ParseAsList(f), "ui", "display mode", Mode["GPS"])
                       /\ b = GetValue(ParseAsList(f), "ui", "lcd intensity", MaxLevel)
                       /\ c = GetValue(ParseAsList(f), "ui", "lcd timeout", 0)
    OBVIOUS
  <2>2. Configured(f) = [mode |-> a, intensity |-> b, timeout |-> c]
    BY <2>1, Zenon DEF Configured
  <2> QED
    BY <2>2
<1> QED
  BY <1>1 DEF AllAgree, Agrees

LEMMA RestartSettings == IInv /\ SettingsInv /\ Restart => SettingsInv'
<1> SUFFICES ASSUME IInv, SettingsInv, Restart PROVE SettingsInv'
  OBVIOUS
<1>1. UNCHANGED <<file, tmpfile>>
  BY DEF Restart
<1>2. CASE file = Missing
  <2>1. ~Running' /\ cfg' = cfg
    BY <1>2 DEF Restart, Status, Running
  <2> QED
    BY <1>1, <2>1 DEF SettingsInv, AgreeInv, IsFile
<1>3. CASE file # Missing
  <2>1. cfg' = Configured(file) /\ todo' = Startup(cfg')
    BY <1>3 DEF Restart
  <2>2. Quiet(todo')
    BY <2>1, PlainStartup, QuietPlain
  <2>3. Quiet(todo)'
    BY <2>2 DEF Quiet
  <2>4. DOMAIN cfg' = {"mode", "intensity", "timeout"} /\ AllAgree(cfg', file')
    BY <1>1, <2>1, Configuring
  <2>5. AllAgree(cfg, file)'
    BY <2>4 DEF AllAgree, Agrees
  <2> QED
    BY <1>1, <2>3, <2>4, <2>5 DEF SettingsInv, AgreeInv, IsFile
<1> QED
  BY <1>2, <1>3

LEMMA TerminateSettings == IInv /\ SettingsInv /\ Terminate => SettingsInv'
<1> SUFFICES ASSUME IInv, SettingsInv, Terminate PROVE SettingsInv'
  OBVIOUS
<1>1. ~Running' /\ UNCHANGED <<cfg, file, tmpfile>>
  BY DEF Terminate, Running, Status
<1> QED
  BY <1>1 DEF SettingsInv, AgreeInv, IsFile

LEMMA InitSettings == Init => SettingsInv
<1> SUFFICES ASSUME Init PROVE SettingsInv
  OBVIOUS
<1>1. file \in Seq(Lines(STRING, Int))
  BY LCDAssumption DEF Init
<1>2. tmpfile = Missing /\ cfg = Configured(file) /\ Quiet(todo)
  BY PlainStartup, QuietPlain DEF Init
<1>3. DOMAIN cfg = {"mode", "intensity", "timeout"} /\ AllAgree(cfg, file)
  BY <1>2, Configuring
<1> QED
  BY <1>1, <1>2, <1>3 DEF SettingsInv, AgreeInv, IsFile

LEMMA StepSettings == IInv /\ IInv' /\ SettingsInv /\ [Next]_vars => SettingsInv'
<1> SUFFICES ASSUME IInv, IInv', SettingsInv, [Next]_vars PROVE SettingsInv'
  OBVIOUS
<1>1. CASE UNCHANGED <<todo, cfg, file, tmpfile, ui>>
  BY <1>1, NoneKept DEF Running
<1>2. CASE Skip \/ Exchange \/ System
  BY <1>2, DoneSettings
<1>3. CASE UpdateConfig
  BY <1>3, UpdateConfigSettings
<1>4. CASE ShowStatus \/ BacklightOff \/ StatusOther \/ StatusKey
  BY <1>4, StatusSettings
<1>5. CASE MenuPacket
  BY <1>5, MenuPacketSettings
<1>6. CASE MenuTimeout
  BY <1>6, LeaveSettings DEF MenuTimeout
<1>7. CASE DialogPacket
  BY <1>7, DialogPacketSettings
<1>8. CASE DialogTimeout
  <2>1. Idle("dialog") /\ Finish(FALSE, NoText) /\ UNCHANGED <<file, tmpfile>>
    BY <1>8 DEF DialogTimeout
  <2> QED
    BY <2>1, FinishSettings
<1>9. CASE Terminate \/ Restart
  BY <1>9, TerminateSettings, RestartSettings
<1>10. CASE Alarm \/ LateAnswer \/ Press \/ \E k \in KeyCodes : Release(k)
  <2>1. UNCHANGED <<todo, cfg, file, tmpfile, ui>>
    BY <1>10 DEF Alarm, LateAnswer, Press, Release, Send
  <2> QED
    BY <1>1, <2>1
<1>11. CASE UNCHANGED vars
  BY <1>1, <1>11 DEF vars
<1> QED
  BY <1>2, <1>3, <1>4, <1>5, <1>6, <1>7, <1>8, <1>9, <1>10, <1>11 DEF Next, Program

\* The settings in use are those that the next start reads: what configfile_update() writes,
\* line by line, is what configfile_parse_as_list() finds, of all files whose
\* sections it can tell apart.
THEOREM SettingsSaved == Spec => []Saved
<1>1. Spec => []SettingsInv
  BY InductiveInvariant, InitSettings, StepSettings, PTL DEF Spec
<1>2. IInv /\ SettingsInv => Saved
  <2> SUFFICES ASSUME IInv, SettingsInv, Running,
                      ~\E i \in DOMAIN todo : todo[i].op \in {"write", "unlink", "rename"}
               PROVE  AllAgree(cfg, file)
    BY DEF IInv, Saved, AllAgree, Agrees, Tokens, Setting
  <2>1. Quiet(todo)
    <3> SUFFICES ASSUME todo # << >> PROVE Head(todo).op \notin FileOps
      BY DEF Quiet
    <3>1. Len(todo) \in Nat \ {0} /\ Head(todo) = todo[1] /\ DOMAIN todo = 1..Len(todo)
      BY Parts DEF IInv, Shape
    <3>2. 1 \in DOMAIN todo
      BY <3>1
    <3> QED
      BY <3>1, <3>2 DEF FileOps
  <2> QED
    BY <2>1 DEF SettingsInv, AgreeInv
<1> QED
  BY <1>1, <1>2, InductiveInvariant, PTL

-----------------------------------------------------------------------------
(* The level of the backlight *)

Dialogs == {"settings", "backlight", "poweroff", "sysinfo"}

HasBack(q) == \E i \in 1..Len(q) : q[i].op = "back"
Unlit(q) == IsSeq(q) /\ ~HasBack(q)
Lit(q, w) == IsSeq(q) /\ \A i \in 1..Len(q) : q[i].op = "back" => q[i].n = w

\* The row and the widget that the cursor is on are there, and the backlight is lit
\* in the menus and dialogs.
PanelInv ==
  /\ ui.at # "status" => ~dark
  /\ ui.at \in {"menu", "dialog"} => ui.row \in 1..Len(Items(ui))
  /\ ui.at = "dialog" => ui.dlg \in Dialogs /\ ui.focus \in 1..Len(Widgets(ui.dlg))

\* What is to be sent sets the backlight to the level it should have, and if nothing
\* does, it has it, but for a packet that was lost.
LightInv ==
  Running => Lit(todo, Want) /\ (HasBack(todo) \/ lost \/ disp.back = Want)

LEMMA UnlitLit == ASSUME NEW q, Unlit(q), NEW w PROVE Lit(q, w)
BY DEF Unlit, HasBack, Lit

LEMMA UnlitEmpty == Unlit(<< >>)
BY Empty DEF Unlit, HasBack

LEMMA UnlitParts ==
  /\ Unlit(Clear) /\ Unlit(Cursor)
  /\ \A r, t : Unlit(Line(r, t))
  /\ \A w : Unlit(LED(w))
  /\ \A t, v : Unlit(Update(t, v))
  /\ \A t : Unlit(<<Op("system", 0, t)>>)
BY Listed DEF Unlit, HasBack, Clear, Cursor, Line, LED, Update, Op

LEMMA BackLit == \A n : Lit(Back(n), n) /\ HasBack(Back(n))
BY Listed DEF Lit, HasBack, Back, Op

LEMMA LitJoined ==
  ASSUME NEW a, NEW b, NEW w, Lit(a, w), Lit(b, w)
  PROVE  Lit(a \o b, w) /\ (HasBack(a) \/ HasBack(b) => HasBack(a \o b))
<1>1. PICK h : h = a \o b
  OBVIOUS
<1>2. IsSeq(a) /\ IsSeq(b)
  BY DEF Lit
<1>3. /\ IsSeq(h) /\ Len(h) = Len(a) + Len(b)
      /\ \A i \in 1..Len(a) : h[i] = a[i]
      /\ \A i \in 1..Len(b) : h[Len(a) + i] = b[i]
  BY ONLY <1>1, <1>2, Joined
<1>4. Len(a) \in Nat /\ Len(b) \in Nat
  BY <1>2, Lengths
<1>5. ASSUME NEW i \in 1..Len(h), h[i].op = "back" PROVE h[i].n = w
  <2>1. CASE i <= Len(a)
    BY <1>3, <1>4, <1>5, <2>1 DEF Lit
  <2>2. CASE i > Len(a)
    <3>1. i - Len(a) \in 1..Len(b) /\ i = Len(a) + (i - Len(a))
      BY <1>3, <1>4, <2>2
    <3>2. h[Len(a) + (i - Len(a))] = b[i - Len(a)]
      BY <1>3, <3>1
    <3>3. h[i] = b[i - Len(a)]
      BY <3>1, <3>2
    <3> QED
      BY <1>5, <3>1, <3>3 DEF Lit
  <2> QED
    BY <1>3, <1>4, <2>1, <2>2
<1>6. ASSUME HasBack(a) PROVE HasBack(h)
  <2>1. PICK i \in 1..Len(a) : a[i].op = "back"
    BY <1>6 DEF HasBack
  <2>2. i \in 1..Len(h) /\ h[i].op = "back"
    BY <1>3, <1>4, <2>1
  <2> QED
    BY <2>2 DEF HasBack
<1>7. ASSUME HasBack(b) PROVE HasBack(h)
  <2>1. PICK i \in 1..Len(b) : b[i].op = "back"
    BY <1>7 DEF HasBack
  <2>2. Len(a) + i \in 1..Len(h) /\ h[Len(a) + i].op = "back"
    BY <1>3, <1>4, <2>1
  <2> QED
    BY <2>2 DEF HasBack
<1> QED
  BY <1>1, <1>3, <1>5, <1>6, <1>7 DEF Lit

LEMMA UnlitJoined ==
  ASSUME NEW a, NEW b, Unlit(a), Unlit(b)
  PROVE  Unlit(a \o b)
<1>1. PICK h : h = a \o b
  OBVIOUS
<1>2. IsSeq(a) /\ IsSeq(b)
  BY DEF Unlit
<1>3. /\ IsSeq(h) /\ Len(h) = Len(a) + Len(b)
      /\ \A i \in 1..Len(a) : h[i] = a[i]
      /\ \A i \in 1..Len(b) : h[Len(a) + i] = b[i]
  BY ONLY <1>1, <1>2, Joined
<1>4. Len(a) \in Nat /\ Len(b) \in Nat
  BY <1>2, Lengths
<1>5. ASSUME NEW i \in 1..Len(h) PROVE h[i].op # "back"
  <2>1. CASE i <= Len(a)
    BY <1>3, <1>4, <2>1 DEF Unlit, HasBack
  <2>2. CASE i > Len(a)
    <3>1. i - Len(a) \in 1..Len(b) /\ i = Len(a) + (i - Len(a))
      BY <1>3, <1>4, <2>2
    <3>2. h[Len(a) + (i - Len(a))] = b[i - Len(a)]
      BY <1>3, <3>1
    <3>3. h[i] = b[i - Len(a)]
      BY <3>1, <3>2
    <3> QED
      BY <3>1, <3>3 DEF Unlit, HasBack
  <2> QED
    BY <1>3, <1>4, <2>1, <2>2
<1> QED
  BY <1>1, <1>3, <1>5 DEF Unlit, HasBack

LEMMA LitTail ==
  ASSUME NEW q, NEW w, Lit(q, w), q # << >>
  PROVE  /\ Lit(Tail(q), w)
         /\ Head(q).op = "back" => Head(q).n = w
         /\ HasBack(q) /\ Head(q).op # "back" => HasBack(Tail(q))
<1>1. /\ Len(q) \in Nat \ {0} /\ Head(q) = q[1] /\ IsSeq(Tail(q)) /\ Len(Tail(q)) = Len(q) - 1
      /\ \A i \in 1..Len(q) - 1 : Tail(q)[i] = q[i + 1]
  BY Parts DEF Lit
<1>2. ASSUME NEW i \in 1..Len(q) - 1, Tail(q)[i].op = "back" PROVE Tail(q)[i].n = w
  BY <1>1, <1>2 DEF Lit
<1>3. 1 \in 1..Len(q)
  BY <1>1
<1>4. ASSUME HasBack(q), Head(q).op # "back" PROVE HasBack(Tail(q))
  <2>1. PICK i \in 1..Len(q) : q[i].op = "back"
    BY <1>4 DEF HasBack
  <2>2. i # 1
    BY <1>1, <1>4, <2>1
  <2>3. i - 1 \in 1..Len(q) - 1 /\ (i - 1) + 1 = i
    BY <1>1, <2>1, <2>2
  <2>4. Tail(q)[i - 1] = q[(i - 1) + 1]
    BY <1>1, <2>3
  <2>5. Tail(q)[i - 1].op = "back"
    BY <2>1, <2>3, <2>4
  <2> QED
    BY <1>1, <2>3, <2>5 DEF HasBack
<1> QED
  BY <1>1, <1>2, <1>3, <1>4 DEF Lit

LEMMA UnlitMenu ==
  ASSUME NEW u, u.menus \in Seq(DOMAIN Menus), u.menus # << >>
  PROVE  Unlit(DrawMenu(u))
<1> DEFINE n == Len(Items(u))
           f == [i \in 1 .. n |-> Op("line", i - 1, Text(Items(u)[i], 0))]
<1>1. Last(u.menus) \in DOMAIN Menus
  BY DEF Last
<1>2. n \in Nat
  BY <1>1, MenuLengths DEF Items
<1>3. IsSeq(f) /\ Len(f) = n
  <2>1. PICK k \in Nat : k = n
    BY <1>2
  <2>2. PICK g : g = f
    OBVIOUS
  <2>3. DOMAIN g = 1..k /\ g = [i \in 1..k |-> g[i]]
    BY <2>1, <2>2
  <2> QED
    BY <2>1, <2>2, <2>3, Rowed
<1>4. Unlit(f)
  BY <1>2, <1>3 DEF Unlit, HasBack, Op
<1>5. Unlit(Clear \o f)
  BY <1>4, UnlitParts, UnlitJoined
<1> QED
  BY <1>5, UnlitParts, UnlitJoined DEF DrawMenu

LEMMA UnlitRows == ASSUME NEW d, NEW e PROVE Unlit(Rows(d, e))
<1>1. PICK g : g = Rows(d, e)
  OBVIOUS
<1>2. DOMAIN g = 1..4 /\ g = [i \in 1..4 |-> g[i]] /\ \A i \in 1..4 : g[i].op = "line"
  BY <1>1 DEF Rows, Op
<1>3. IsSeq(g) /\ Len(g) = 4
  BY <1>2, Rowed
<1> QED
  BY <1>1, <1>2, <1>3 DEF Unlit, HasBack

LEMMA UnlitDialog == ASSUME NEW d, NEW e PROVE Unlit(DrawDialog(d, e))
<1>1. Unlit(Clear \o Rows(d, e))
  BY UnlitRows, UnlitParts, UnlitJoined
<1> QED
  BY <1>1, UnlitParts, UnlitJoined DEF DrawDialog

\* What the menus lead to, and the widgets of the dialogs.
LEMMA MenuItems ==
  \A m \in DOMAIN Menus :
    /\ Len(Menus[m]) \in Nat \ {0}
    /\ \A i \in 1..Len(Menus[m]) : Menus[m][i] \in DOMAIN Menus \cup Modes \cup Dialogs
<1>1. DOMAIN Menus = {"main", "setup", "lcdSetup", "displayMode", "restart"} /\ Modes = {"GPS", "NTP"}
  BY DEF Menus, Modes, Mode
<1>2. /\ Menus["main"] = <<"setup", "sysinfo", "restart">>
      /\ Menus["setup"] = <<"lcdSetup", "displayMode">>
      /\ Menus["lcdSetup"] = <<"settings", "backlight">>
      /\ Menus["displayMode"] = <<"GPS", "NTP">>
      /\ Menus["restart"] = <<"poweroff">>
  BY DEF Menus
<1> DEFINE G(m) == /\ Len(Menus[m]) \in Nat \ {0}
                   /\ \A i \in 1..Len(Menus[m]) : Menus[m][i] \in DOMAIN Menus \cup Modes \cup Dialogs
<1>3. G("main")
  <2>1. PICK q : q = Menus["main"]
    OBVIOUS
  <2>2. Len(q) = 3 /\ q[1] = "setup" /\ q[2] = "sysinfo" /\ q[3] = "restart"
    BY <1>2, <2>1, Listed
  <2>3. \A i \in 1..3 : q[i] \in DOMAIN Menus \cup Modes \cup Dialogs
    BY <1>1, <2>2 DEF Dialogs
  <2> QED
    BY <2>1, <2>2, <2>3
<1>4. G("setup")
  <2>1. PICK q : q = Menus["setup"]
    OBVIOUS
  <2>2. Len(q) = 2 /\ q[1] = "lcdSetup" /\ q[2] = "displayMode"
    BY <1>2, <2>1, Listed
  <2>3. \A i \in 1..2 : q[i] \in DOMAIN Menus \cup Modes \cup Dialogs
    BY <1>1, <2>2 DEF Dialogs
  <2> QED
    BY <2>1, <2>2, <2>3
<1>5. G("lcdSetup")
  <2>1. PICK q : q = Menus["lcdSetup"]
    OBVIOUS
  <2>2. Len(q) = 2 /\ q[1] = "settings" /\ q[2] = "backlight"
    BY <1>2, <2>1, Listed
  <2>3. \A i \in 1..2 : q[i] \in DOMAIN Menus \cup Modes \cup Dialogs
    BY <1>1, <2>2 DEF Dialogs
  <2> QED
    BY <2>1, <2>2, <2>3
<1>6. G("displayMode")
  <2>1. PICK q : q = Menus["displayMode"]
    OBVIOUS
  <2>2. Len(q) = 2 /\ q[1] = "GPS" /\ q[2] = "NTP"
    BY <1>2, <2>1, Listed
  <2>3. \A i \in 1..2 : q[i] \in DOMAIN Menus \cup Modes \cup Dialogs
    BY <1>1, <2>2 DEF Dialogs
  <2> QED
    BY <2>1, <2>2, <2>3
<1>7. G("restart")
  <2>1. PICK q : q = Menus["restart"]
    OBVIOUS
  <2>2. Len(q) = 1 /\ q[1] = "poweroff"
    BY <1>2, <2>1, Listed
  <2>3. \A i \in 1..1 : q[i] \in DOMAIN Menus \cup Modes \cup Dialogs
    BY <1>1, <2>2 DEF Dialogs
  <2> QED
    BY <2>1, <2>2, <2>3
<1> HIDE DEF G
<1>8. \A m \in DOMAIN Menus : G(m)
  BY <1>1, <1>3, <1>4, <1>5, <1>6, <1>7
<1> QED
  BY <1>8 DEF G

LEMMA DialogWidgets ==
  /\ Widgets("settings") = <<"slider", "OK", "Cancel">>
  /\ Widgets("backlight") = <<"number", "OK", "Cancel">>
  /\ Widgets("poweroff") = <<"Yes", "No">>
  /\ Widgets("sysinfo") = <<"text">>
<1>1. Widgets("settings") = <<"slider", "OK", "Cancel">>
  BY Zenon DEF Widgets, Commands, Messages
<1>2. Widgets("backlight") = <<"number", "OK", "Cancel">>
  BY Zenon DEF Widgets, Commands, Messages
<1>3. Widgets("poweroff") = <<"Yes", "No">>
  BY Zenon DEF Widgets, Commands, Messages
<1>4. Widgets("sysinfo") = <<"text">>
  BY Zenon DEF Widgets, Commands, Messages
<1> QED
  BY <1>1, <1>2, <1>3, <1>4

LEMMA WidgetOf ==
  ASSUME NEW u, u.dlg \in Dialogs, u.focus \in 1..Len(Widgets(u.dlg))
  PROVE  /\ Widget(u) = "slider" => u.dlg = "settings"
         /\ Widget(u) = "number" => u.dlg # "settings"
         /\ Len(Widgets(u.dlg)) \in 1..3
<1>1. CASE u.dlg = "settings"
  <2>1. Widgets(u.dlg) = <<"slider", "OK", "Cancel">>
    BY <1>1, DialogWidgets
  <2>2. Widget(u) # "number" /\ Len(Widgets(u.dlg)) \in 1..3
    BY <2>1 DEF Widget
  <2> QED
    BY <1>1, <2>2
<1>2. CASE u.dlg # "settings"
  <2>1. Widgets(u.dlg) \in {<<"number", "OK", "Cancel">>, <<"Yes", "No">>, <<"text">>}
    BY <1>2, DialogWidgets DEF Dialogs
  <2>2. Widget(u) # "slider" /\ Len(Widgets(u.dlg)) \in 1..3
    BY <2>1 DEF Widget
  <2> QED
    BY <1>2, <2>2
<1> QED
  BY <1>1, <1>2

\* A step that leaves something to send, about the backlight too if its level changes
LEMMA LightNext ==
  ASSUME NEW q, todo' = q, NEW w, w = Want', Lit(q, w),
         \/ HasBack(q)
         \/ Running /\ LightInv /\ todo = << >> /\ w = Want /\ disp' = disp /\ lost' = lost
  PROVE  LightInv'
<1>1. ASSUME ~HasBack(q) PROVE lost' \/ disp'.back = w
  <2>1. ~HasBack(todo)
    BY <1>1, UnlitEmpty DEF Unlit
  <2> QED
    BY <1>1, <2>1 DEF LightInv
<1>2. Lit(q, w) /\ (HasBack(q) \/ lost' \/ disp'.back = w)
  BY <1>1
<1>3. Lit(todo, Want)' <=> Lit(q, w)
  BY DEF Lit
<1>4. HasBack(todo)' <=> HasBack(q)
  BY DEF HasBack
<1> QED
  BY <1>2, <1>3, <1>4 DEF LightInv

LEMMA LightQuiet ==
  ASSUME Running, LightInv, todo = << >>, Unlit(todo'), Want' = Want, UNCHANGED <<disp, link>>
  PROVE  LightInv'
<1>1. PICK q, w : q = todo' /\ w = Want'
  OBVIOUS
<1>2. Lit(q, w) /\ disp' = disp /\ lost' = lost
  BY <1>1, UnlitLit DEF link
<1> QED
  BY <1>1, <1>2, LightNext

LEMMA SkipLight == IInv /\ LightInv /\ Skip => LightInv'
<1> SUFFICES ASSUME IInv, LightInv, Skip PROVE LightInv'
  OBVIOUS
<1>1. /\ todo # << >> /\ Head(todo).op \in {"line", "led"}
      /\ Head(todo).op = "led" => Head(todo).n = 1
      /\ UNCHANGED <<ui, disp, lost, cfg, dark>>
  BY DEF Skip, Cached, link
<1>2. Running /\ Running' /\ Plain(todo)
  BY <1>1, SkipPlain DEF IInv, Shape, Running
<1>3. PICK w : w = Want
  OBVIOUS
<1>4. Want' = w
  BY <1>1, <1>3 DEF Want
<1>5. Lit(todo, w) /\ (HasBack(todo) \/ lost \/ disp.back = w)
  BY <1>2, <1>3 DEF LightInv
<1>6. Lit(Tail(todo), w) /\ (HasBack(todo) => HasBack(Tail(todo)))
  BY <1>1, <1>5, LitTail
<1>7. Lit(todo', w) /\ (HasBack(todo) => HasBack(todo'))
  <2>1. CASE Head(todo).op = "led"
    <3>1. todo' = Tail(Tail(todo)) /\ Head(todo).n = 1
      BY <1>1, <2>1 DEF Skip
    <3>2. /\ Len(todo) \in Nat \ {0} /\ Head(todo) = todo[1]
          /\ IsSeq(Tail(todo)) /\ Len(Tail(todo)) = Len(todo) - 1
          /\ \A i \in 1..Len(todo) - 1 : Tail(todo)[i] = todo[i + 1]
      BY <1>1, <1>2, Parts DEF Plain
    <3>3. 1 < Len(todo) /\ todo[2].op = "led"
      <4>1. PlainOp(todo, 1)
        BY <1>2, <3>2 DEF Plain
      <4> QED
        BY <2>1, <3>1, <3>2, <4>1 DEF PlainOp
    <3>4. Len(Tail(todo)) # 0 /\ Tail(todo)[1] = todo[2]
      BY <3>2, <3>3
    <3>5. Tail(todo) # << >>
      BY <3>4, Empty, Zenon
    <3>6. Head(Tail(todo)).op = "led"
      BY <3>2, <3>3, <3>4, <3>5, Parts
    <3>7. PICK q : q = Tail(todo)
      OBVIOUS
    <3>8. Lit(Tail(q), w) /\ (HasBack(q) => HasBack(Tail(q)))
      BY <1>6, <3>5, <3>6, <3>7, LitTail
    <3> QED
      BY <1>6, <3>1, <3>7, <3>8
  <2>2. CASE Head(todo).op # "led"
    BY <1>6, <2>2 DEF Skip
  <2> QED
    BY <2>1, <2>2
<1>8. HasBack(todo') \/ lost' \/ disp'.back = w
  BY <1>1, <1>5, <1>7
<1>9. Lit(todo, Want)' <=> Lit(todo', w)
  BY <1>4 DEF Lit
<1>10. HasBack(todo)' <=> HasBack(todo')
  BY DEF HasBack
<1> QED
  BY <1>4, <1>7, <1>8, <1>9, <1>10 DEF LightInv

LEMMA ExchangeLight == IInv /\ LightInv /\ Exchange => LightInv'
<1> SUFFICES ASSUME IInv, LightInv, Exchange PROVE LightInv'
  OBVIOUS
<1>1. todo # << >> /\ todo' = Tail(todo) /\ UNCHANGED <<ui, cfg, dark>>
  BY DEF Exchange
<1>2. Running
  BY <1>1 DEF IInv, Shape
<1>3. PICK w : w = Want
  OBVIOUS
<1>4. Want' = w
  BY <1>1, <1>3 DEF Want
<1>5. Lit(todo, w) /\ (HasBack(todo) \/ lost \/ disp.back = w)
  BY <1>2, <1>3 DEF LightInv
<1>6. /\ Lit(Tail(todo), w)
      /\ Head(todo).op = "back" => Head(todo).n = w
      /\ HasBack(todo) /\ Head(todo).op # "back" => HasBack(Tail(todo))
  BY <1>1, <1>5, LitTail
<1>7. PICK c : c = Head(todo)
  OBVIOUS
<1>8. PICK arrives \in BOOLEAN, back \in BOOLEAN :
        /\ back <=> c.op = "back"
        /\ arrives => disp' = Shown(c) /\ (lost' <=> lost /\ ~back)
        /\ ~arrives => disp' = disp /\ (lost' <=> lost \/ back)
  <2>1. \/ disp' = Shown(c) /\ lost' = (lost /\ c.op # "back")
        \/ disp' = disp /\ lost' = (lost \/ c.op = "back")
    BY <1>7 DEF Exchange
  <2>2. PICK back \in BOOLEAN : back <=> c.op = "back"
    OBVIOUS
  <2> QED
    BY Zenon, <2>1, <2>2
<1>9. HasBack(Tail(todo)) \/ lost' \/ disp'.back = w
  <2>1. Shown(c).back = IF c.op = "back" THEN c.n ELSE disp.back
    BY DEF Shown
  <2>2. CASE arrives /\ back
    <3>1. disp'.back = w
      BY <1>6, <1>7, <1>8, <2>1, <2>2
    <3> QED
      BY <3>1
  <2>3. CASE ~arrives /\ back
    BY Zenon, <1>8, <2>3
  <2>4. CASE ~back
    <3>1. disp'.back = disp.back
      BY <1>8, <2>1, <2>4
    <3>2. lost => lost'
      BY Zenon, <1>8, <2>4
    <3>3. HasBack(todo) => HasBack(Tail(todo))
      BY <1>6, <1>7, <1>8, <2>4
    <3> QED
      BY Zenon, <1>5, <3>1, <3>2, <3>3
  <2> QED
    BY <1>8, <2>2, <2>3, <2>4
<1>10. Lit(todo, Want)' <=> Lit(todo', w)
  BY <1>4 DEF Lit
<1>11. HasBack(todo)' <=> HasBack(todo')
  BY DEF HasBack
<1> QED
  BY <1>1, <1>4, <1>6, <1>9, <1>10, <1>11 DEF LightInv

LEMMA UpdateConfigLight == IInv /\ LightInv /\ UpdateConfig => LightInv'
<1> SUFFICES ASSUME IInv, LightInv, UpdateConfig PROVE LightInv'
  OBVIOUS
<1>1. /\ todo # << >> /\ todo' = Tail(todo) /\ UNCHANGED <<ui, cfg, dark, disp, lost>>
      /\ Head(todo).op # "back"
  BY DEF UpdateConfig, link
<1>2. Running
  BY <1>1 DEF IInv, Shape
<1>3. PICK w : w = Want
  OBVIOUS
<1>4. Want' = w
  BY <1>1, <1>3 DEF Want
<1>5. Lit(todo, w) /\ (HasBack(todo) \/ lost \/ disp.back = w)
  BY <1>2, <1>3 DEF LightInv
<1>6. Lit(todo', w) /\ (HasBack(todo) => HasBack(todo'))
  BY <1>1, <1>5, LitTail
<1>7. Lit(todo, Want)' <=> Lit(todo', w)
  BY <1>4 DEF Lit
<1>8. HasBack(todo)' <=> HasBack(todo')
  BY DEF HasBack
<1> QED
  BY <1>1, <1>4, <1>5, <1>6, <1>7, <1>8 DEF LightInv

LEMMA SystemLight == IInv /\ LightInv /\ System => LightInv'
<1> SUFFICES ASSUME IInv, LightInv, System PROVE LightInv'
  OBVIOUS
<1>1. /\ todo # << >> /\ UNCHANGED <<ui, cfg, dark, disp, lost>>
      /\ Head(todo).op # "back"
  BY DEF System, link
<1>2. PICK text : todo' = Line(2, Text(text, 0)) \o Tail(todo)
  BY DEF System
<1>3. Running
  BY <1>1 DEF IInv, Shape
<1>4. PICK w : w = Want
  OBVIOUS
<1>5. Want' = w
  BY <1>1, <1>4 DEF Want
<1>6. Lit(todo, w) /\ (HasBack(todo) \/ lost \/ disp.back = w)
  BY <1>3, <1>4 DEF LightInv
<1>7. Lit(Tail(todo), w) /\ (HasBack(todo) => HasBack(Tail(todo)))
  BY <1>1, <1>6, LitTail
<1>8. PICK a, b : a = Line(2, Text(text, 0)) /\ b = Tail(todo)
  OBVIOUS
<1>9. Lit(a, w) /\ Lit(b, w)
  BY <1>7, <1>8, UnlitParts, UnlitLit
<1>10. Lit(a \o b, w) /\ (HasBack(b) => HasBack(a \o b))
  BY <1>9, LitJoined
<1>11. Lit(todo', w) /\ (HasBack(todo) => HasBack(todo'))
  BY <1>2, <1>7, <1>8, <1>10
<1>12. Lit(todo, Want)' <=> Lit(todo', w)
  BY <1>5 DEF Lit
<1>13. HasBack(todo)' <=> HasBack(todo')
  BY DEF HasBack
<1> QED
  BY <1>1, <1>5, <1>6, <1>11, <1>12, <1>13 DEF LightInv

-----------------------------------------------------------------------------
(* The light on the screens *)

\* The level while the program is not in a dialog
LEMMA WantPlain ==
  /\ ui.at # "dialog" => Want = IF dark THEN 0 ELSE cfg.intensity
  /\ ui'.at # "dialog" => Want' = IF dark' THEN 0 ELSE cfg'.intensity
BY DEF Want

LEMMA ShowStatusLight == LightInv /\ ShowStatus => LightInv'
<1> SUFFICES ASSUME LightInv, ShowStatus PROVE LightInv'
  OBVIOUS
<1>1. PICK check \in {lazy, TRUE}, alarms \in BOOLEAN :
        todo' = Line(0, Text("clock", 0)) \o
                (IF check THEN Line(1, Text("mode", cfg.mode)) \o Line(3, Text(IF alarms THEN "ALARM" ELSE "OK", 0))
                                  \o LED(IF alarms THEN "red" ELSE "green")
                          ELSE << >>)
  BY Zenon DEF ShowStatus
<1>2. Unlit(todo')
  <2>1. PICK a, b, c : /\ a = Line(1, Text("mode", cfg.mode))
                       /\ b = Line(3, Text(IF alarms THEN "ALARM" ELSE "OK", 0))
                       /\ c = LED(IF alarms THEN "red" ELSE "green")
    BY Zenon
  <2>2. Unlit(a) /\ Unlit(b) /\ Unlit(c)
    BY <2>1, UnlitParts
  <2>3. Unlit(a \o b)
    BY <2>2, UnlitJoined
  <2>4. Unlit((a \o b) \o c)
    BY <2>2, <2>3, UnlitJoined
  <2>5. PICK d : d = IF check THEN (a \o b) \o c ELSE << >>
    OBVIOUS
  <2>6. Unlit(d)
    BY <2>4, <2>5, UnlitEmpty
  <2>7. todo' = Line(0, Text("clock", 0)) \o d
    BY <1>1, <2>1, <2>5, Zenon
  <2> QED
    BY <2>6, <2>7, UnlitParts, UnlitJoined
<1>3. todo = << >> /\ Running /\ Want' = Want /\ UNCHANGED <<disp, link>>
  BY DEF ShowStatus, Idle, Running, Want
<1> QED
  BY <1>2, <1>3, LightQuiet

LEMMA BacklightOffLight == LightInv /\ BacklightOff => LightInv'
<1> SUFFICES ASSUME LightInv, BacklightOff PROVE LightInv'
  OBVIOUS
<1>1. PICK q, w : q = todo' /\ w = Want'
  OBVIOUS
<1>2. q = Back(0) /\ w = 0
  BY <1>1 DEF BacklightOff, Want
<1>3. Lit(q, w) /\ HasBack(q)
  BY <1>2, BackLit
<1> QED
  BY <1>1, <1>3, LightNext

LEMMA StatusOtherLight == LightInv /\ StatusOther => LightInv'
<1> SUFFICES ASSUME LightInv, StatusOther PROVE LightInv'
  OBVIOUS
<1>1. todo = << >> /\ Running /\ Want' = Want /\ UNCHANGED <<disp, link>> /\ todo' = << >>
  BY DEF StatusOther, Idle, Running, Want
<1> QED
  BY <1>1, UnlitEmpty, LightQuiet

\* To a menu, by its chain of menus
LEMMA PanelMenu ==
  ASSUME NEW m \in Seq(DOMAIN Menus), m # << >>, NEW r, r \in 1..Len(Menus[Last(m)]),
         ui' = InMenu(m, r), ~dark'
  PROVE  PanelInv'
<1>1. ui'.at = "menu" /\ ui'.menus = m /\ ui'.row = r
  BY DEF InMenu, Status
<1>2. Items(ui)' = Menus[Last(m)]
  BY <1>1 DEF Items
<1> QED
  BY <1>1, <1>2 DEF PanelInv

LEMMA FirstRow ==
  ASSUME NEW m \in Seq(DOMAIN Menus), m # << >>
  PROVE  1 \in 1..Len(Menus[Last(m)])
<1>1. Last(m) \in DOMAIN Menus
  BY DEF Last
<1>2. Len(Menus[Last(m)]) \in Nat \ {0}
  BY <1>1, MenuItems
<1> QED
  BY <1>2

\* A menu that has been gone to is drawn, without a word of the backlight.
LEMMA UnlitDrawn ==
  ASSUME IInv', NEW m, NEW r, ui' = InMenu(m, r)
  PROVE  Unlit(DrawMenu(ui'))
<1>1. ui'.at = "menu"
  BY Screens
<1>2. ui'.menus \in Seq(DOMAIN Menus) /\ ui'.menus # << >>
  BY <1>1 DEF IInv, Shape, InChain
<1> QED
  BY <1>2, UnlitMenu

LEMMA StatusKeyLight == IInv' /\ LightInv /\ StatusKey => LightInv' /\ PanelInv'
<1> SUFFICES ASSUME IInv', LightInv, StatusKey PROVE LightInv' /\ PanelInv'
  OBVIOUS
<1>1. ui' = InMenu(<<"main">>, 1) /\ ~dark' /\ ui'.at = "menu"
  BY Screens DEF StatusKey
<1>2. PanelInv'
  BY <1>1, Chains, FirstRow, PanelMenu
<1>3. PICK a, b : a = (IF dark THEN Back(cfg.intensity) ELSE << >>) /\ b = DrawMenu(ui')
  OBVIOUS
<1>4. todo' = (((a \o Clear) \o LED("off")) \o Cursor) \o b
  BY <1>3, Zenon DEF StatusKey
<1>5. Unlit(b)
  BY <1>1, <1>3, UnlitDrawn
<1>6. PICK w : w = cfg.intensity
  OBVIOUS
<1>7. Want' = w /\ (~dark => Want = w)
  <2>1. cfg' = cfg /\ ui.at = "status"
    BY DEF StatusKey, Idle
  <2> QED
    BY <1>1, <1>6, <2>1, WantPlain
<1>8. Lit(a, w) /\ (dark => HasBack(a))
  BY <1>3, <1>6, BackLit, UnlitEmpty, UnlitLit
<1>9. PICK q : q = (((a \o Clear) \o LED("off")) \o Cursor) \o b
  OBVIOUS
<1>10. Lit(q, w) /\ (dark => HasBack(q))
  <2>1. Lit(Clear, w) /\ Lit(LED("off"), w) /\ Lit(Cursor, w) /\ Lit(b, w)
    BY <1>5, UnlitParts, UnlitLit
  <2>2. Lit(a \o Clear, w) /\ (dark => HasBack(a \o Clear))
    BY <1>8, <2>1, LitJoined
  <2>3. Lit((a \o Clear) \o LED("off"), w) /\ (dark => HasBack((a \o Clear) \o LED("off")))
    BY <2>1, <2>2, LitJoined
  <2>4. Lit(((a \o Clear) \o LED("off")) \o Cursor, w) /\ (dark => HasBack(((a \o Clear) \o LED("off")) \o Cursor))
    BY <2>1, <2>3, LitJoined
  <2> QED
    BY <1>9, <2>1, <2>4, LitJoined
<1>11. Running /\ todo = << >> /\ disp' = disp /\ lost' = lost
  BY DEF StatusKey, Idle, Running, link
<1> QED
  BY <1>2, <1>4, <1>7, <1>9, <1>10, <1>11, LightNext

LEMMA LeaveMenuLight ==
  ASSUME PanelInv, LightInv, Idle("menu"), LeaveMenu, UNCHANGED <<cfg, dark, disp, link>>
  PROVE  LightInv' /\ PanelInv'
<1>1. ui' = Status /\ ui'.at = "status" /\ todo' = Cursor \o Clear
  BY Screens DEF LeaveMenu
<1>2. PanelInv'
  BY <1>1 DEF PanelInv
<1>3. Unlit(todo')
  BY <1>1, UnlitParts, UnlitJoined
<1>4. ui.at = "menu" /\ todo = << >> /\ Running
  BY DEF Idle, Running
<1>5. Want' = Want
  BY <1>1, <1>4, WantPlain
<1> QED
  BY <1>2, <1>3, <1>4, <1>5, LightQuiet

LEMMA ExecItemLight ==
  ASSUME IInv, SettingsInv, PanelInv, LightInv, Idle("menu"), NEW item, item = Items(ui)[ui.row],
         item \notin DOMAIN Menus, ExecItem(item), UNCHANGED <<dark, disp, link>>
  PROVE  LightInv' /\ PanelInv'
<1>1. /\ ui.at = "menu" /\ todo = << >> /\ Running /\ DOMAIN ui = Fields
      /\ ui.menus \in Seq(DOMAIN Menus) /\ ui.menus # << >>
      /\ DOMAIN cfg = {"mode", "intensity", "timeout"} /\ ~dark
  BY DEF IInv, Shape, Idle, InChain, Running, SettingsInv, PanelInv
<1>2. disp' = disp /\ lost' = lost /\ ~dark'
  BY <1>1 DEF link
<1>3. Want = cfg.intensity
  BY <1>1, WantPlain
<1>4. CASE item \in Modes
  <2>1. PICK m : m = Mode[item]
    OBVIOUS
  <2>2. /\ cfg' = [cfg EXCEPT !.mode = m] /\ ui' = ui
        /\ todo' = (IF cfg.mode = m THEN << >> ELSE Update("display mode", m) \o Clear) \o DrawMenu(ui)
    BY <1>4, <2>1 DEF ExecItem
  <2>3. Want' = Want
    BY <1>1, <1>2, <1>3, <2>2, WantPlain
  <2>4. PICK a : a = IF cfg.mode = m THEN << >> ELSE Update("display mode", m) \o Clear
    OBVIOUS
  <2>5. Unlit(a)
    <3>1. PICK b : b = Update("display mode", m)
      OBVIOUS
    <3>2. Unlit(b)
      BY <3>1, UnlitParts, Zenon
    <3>3. Unlit(b \o Clear)
      BY <3>2, UnlitParts, UnlitJoined
    <3> QED
      BY <2>4, <3>1, <3>3, UnlitEmpty
  <2>6. Unlit(todo')
    BY <1>1, <2>2, <2>4, <2>5, UnlitMenu, UnlitJoined
  <2>7. PanelInv'
    BY <1>1, <1>2, <2>2 DEF PanelInv, Items
  <2> QED
    BY <1>1, <1>2, <2>3, <2>6, <2>7, LightQuiet
<1>5. CASE item \notin Modes
  <2>1. PICK e : /\ e = IF item = "settings" THEN cfg.intensity
                        ELSE IF item = "backlight" THEN cfg.timeout ELSE 0
                 /\ ui' = [ui EXCEPT !.at = "dialog", !.dlg = item, !.edit = e, !.focus = 1]
                 /\ todo' = DrawDialog(item, e) /\ cfg' = cfg
    BY <1>5, Zenon DEF ExecItem
  <2>2. /\ ui'.at = "dialog" /\ ui'.dlg = item /\ ui'.focus = 1 /\ ui'.edit = e
        /\ ui'.menus = ui.menus /\ ui'.row = ui.row
    BY <1>1, <2>1 DEF Fields
  <2>3. item \in Dialogs /\ ui.row \in 1..Len(Items(ui))
    <3>1. ui.row \in 1..Len(Items(ui))
      BY <1>1 DEF PanelInv
    <3>2. Last(ui.menus) \in DOMAIN Menus
      BY <1>1 DEF Last
    <3> QED
      BY <1>5, <3>1, <3>2, MenuItems DEF Items
  <2>4. PanelInv'
    <3>1. Items(ui)' = Items(ui)
      BY <2>2 DEF Items
    <3>2. 1 \in 1..Len(Widgets(item))
      <4>1. Len(Widgets(item)) \in Nat \ {0}
        <5>1. CASE item = "settings"
          BY <5>1, DialogWidgets
        <5>2. CASE item = "backlight"
          BY <5>2, DialogWidgets
        <5>3. CASE item = "poweroff"
          BY <5>3, DialogWidgets
        <5>4. CASE item = "sysinfo"
          BY <5>4, DialogWidgets
        <5> QED
          BY <2>3, <5>1, <5>2, <5>3, <5>4 DEF Dialogs
      <4> QED
        BY <4>1
    <3> QED
      BY <1>2, <2>2, <2>3, <3>1, <3>2 DEF PanelInv
  <2>5. Want' = Want
    <3>1. CASE item = "settings"
      BY <1>2, <1>3, <2>1, <2>2, <3>1 DEF Want
    <3>2. CASE item # "settings"
      BY <1>2, <1>3, <2>1, <2>2, <3>2 DEF Want
    <3> QED
      BY <3>1, <3>2
  <2> QED
    BY <1>1, <2>1, <2>4, <2>5, UnlitDialog, LightQuiet
<1> QED
  BY <1>4, <1>5

\* To a menu, or in it: the backlight stays.
LEMMA InMenus ==
  ASSUME PanelInv, LightInv, Idle("menu"), ui'.at = "menu", Unlit(todo'), UNCHANGED <<cfg, dark, disp, link>>
  PROVE  LightInv'
<1>1. ui.at = "menu" /\ todo = << >> /\ Running
  BY DEF Idle, Running
<1>2. Want' = Want
  BY <1>1, WantPlain
<1> QED
  BY <1>1, <1>2, LightQuiet

LEMMA MenuPacketLight ==
  IInv /\ IInv' /\ SettingsInv /\ PanelInv /\ LightInv /\ MenuPacket => LightInv' /\ PanelInv'
<1> SUFFICES ASSUME IInv, IInv', SettingsInv, PanelInv, LightInv, MenuPacket PROVE LightInv' /\ PanelInv'
  OBVIOUS
<1> DEFINE k == Head(inbox).kind
           item == Items(ui)[ui.row]
<1>1. Idle("menu") /\ UNCHANGED <<dark, disp, link>>
  BY DEF MenuPacket, ReadPacket
<1>2. /\ ui.at = "menu" /\ todo = << >> /\ DOMAIN ui = Fields /\ ~dark'
      /\ ui.menus \in Seq(DOMAIN Menus) /\ ui.menus # << >>
      /\ ui.row \in 1..Len(Items(ui)) /\ Len(Items(ui)) \in Nat
  <2>1. ui.menus \in Seq(DOMAIN Menus) /\ ui.menus # << >>
    BY <1>1 DEF IInv, Shape, Idle, InChain
  <2>2. Last(ui.menus) \in DOMAIN Menus
    BY <2>1 DEF Last
  <2>3. Len(Items(ui)) \in Nat
    BY <2>2, MenuLengths DEF Items
  <2> QED
    BY <1>1, <2>1, <2>3 DEF IInv, Shape, Idle, InChain, PanelInv
<1>3. \/ item \in DOMAIN Menus /\ ui' = InMenu(Append(ui.menus, item), 1) /\ todo' = DrawMenu(ui') /\ cfg' = cfg
      \/ item \notin DOMAIN Menus /\ ExecItem(item)
      \/ /\ todo' = Cursor /\ cfg' = cfg
         /\ ui' = [ui EXCEPT !.row = IF k = "up" THEN (IF @ > 1 THEN @ - 1 ELSE @)
                                     ELSE IF @ < Len(Items(ui)) THEN @ + 1 ELSE @]
      \/ Len(ui.menus) > 1 /\ ui' = InMenu(Front(ui.menus), 1) /\ todo' = DrawMenu(ui') /\ cfg' = cfg
      \/ LeaveMenu /\ cfg' = cfg
      \/ Stay /\ cfg' = cfg
  BY Zenon DEF MenuPacket
<1>4. CASE item \in DOMAIN Menus /\ ui' = InMenu(Append(ui.menus, item), 1) /\ todo' = DrawMenu(ui') /\ cfg' = cfg
  <2>1. PICK m : m = Append(ui.menus, item)
    OBVIOUS
  <2>2. m \in Seq(DOMAIN Menus) /\ m # << >>
    BY ONLY <1>2, <1>4, <2>1, Chains
  <2>3. ui' = InMenu(m, 1) /\ ui'.at = "menu"
    BY <1>4, <2>1, Screens
  <2>4. PanelInv'
    BY <1>2, <2>2, <2>3, FirstRow, PanelMenu
  <2>5. Unlit(todo')
    BY <1>4, <2>3, UnlitDrawn
  <2> QED
    BY <1>1, <1>4, <2>3, <2>4, <2>5, InMenus
<1>5. CASE item \notin DOMAIN Menus /\ ExecItem(item)
  BY <1>1, <1>5, ExecItemLight
<1>6. CASE /\ todo' = Cursor /\ cfg' = cfg
           /\ ui' = [ui EXCEPT !.row = IF k = "up" THEN (IF @ > 1 THEN @ - 1 ELSE @)
                                       ELSE IF @ < Len(Items(ui)) THEN @ + 1 ELSE @]
  <2>1. PICK r : r = IF k = "up" THEN (IF ui.row > 1 THEN ui.row - 1 ELSE ui.row)
                     ELSE IF ui.row < Len(Items(ui)) THEN ui.row + 1 ELSE ui.row
    OBVIOUS
  <2>2. ui' = [ui EXCEPT !.row = r]
    BY <1>6, <2>1
  <2>3. r \in 1..Len(Items(ui))
    BY <1>2, <2>1
  <2>4. ui'.at = "menu" /\ ui'.menus = ui.menus /\ ui'.row = r
    BY <1>2, <2>2 DEF Fields
  <2>5. Items(ui)' = Items(ui)
    BY <2>4 DEF Items
  <2>6. PanelInv'
    BY <1>2, <2>3, <2>4, <2>5 DEF PanelInv
  <2> QED
    BY <1>1, <1>6, <2>4, <2>6, UnlitParts, InMenus
<1>7. CASE Len(ui.menus) > 1 /\ ui' = InMenu(Front(ui.menus), 1) /\ todo' = DrawMenu(ui') /\ cfg' = cfg
  <2>1. PICK m : m = Front(ui.menus)
    OBVIOUS
  <2>2. m \in Seq(DOMAIN Menus) /\ m # << >>
    BY ONLY <1>2, <1>7, <2>1, Chains
  <2>3. ui' = InMenu(m, 1) /\ ui'.at = "menu"
    BY <1>7, <2>1, Screens
  <2>4. PanelInv'
    BY <1>2, <2>2, <2>3, FirstRow, PanelMenu
  <2>5. Unlit(todo')
    BY <1>7, <2>3, UnlitDrawn
  <2> QED
    BY <1>1, <1>7, <2>3, <2>4, <2>5, InMenus
<1>8. CASE LeaveMenu /\ cfg' = cfg
  BY <1>1, <1>8, LeaveMenuLight
<1>9. CASE Stay /\ cfg' = cfg
  <2>1. ui' = ui /\ todo' = << >>
    BY <1>2, <1>9 DEF Stay
  <2>2. PanelInv'
    BY <1>1, <2>1 DEF PanelInv, Items
  <2> QED
    BY <1>1, <1>2, <1>9, <2>1, <2>2, UnlitEmpty, InMenus
<1> QED
  BY <1>3, <1>4, <1>5, <1>6, <1>7, <1>8, <1>9

\* A slider that is given up is undone; one that is kept is the setting.
LEMMA FinishLight ==
  ASSUME IInv, IInv', SettingsInv, PanelInv, LightInv, Idle("dialog"), NEW ok \in BOOLEAN, NEW seen,
         Finish(ok, seen), UNCHANGED <<dark, disp, link>>
  PROVE  LightInv' /\ PanelInv'
<1>1. /\ ui.at = "dialog" /\ todo = << >> /\ Running /\ DOMAIN cfg = {"mode", "intensity", "timeout"}
      /\ ~dark /\ ~dark' /\ ui.row \in 1..Len(Items(ui))
      /\ ui.menus \in Seq(DOMAIN Menus) /\ ui.menus # << >>
  BY DEF IInv, Shape, InChain, Idle, Running, SettingsInv, PanelInv
<1>2. PICK m, r : m = ui.menus /\ r = ui.row
  OBVIOUS
<1>3. ui' = InMenu(m, r) /\ ui'.at = "menu"
  <2>1. ui' = InMenu(ui.menus, ui.row)
    BY Zenon DEF Finish
  <2> QED
    BY <1>2, <2>1, Screens
<1>4. PanelInv'
  <2>1. m \in Seq(DOMAIN Menus) /\ m # << >> /\ r \in 1..Len(Menus[Last(m)])
    BY <1>1, <1>2 DEF Items
  <2> QED
    BY <1>1, <1>3, <2>1, PanelMenu
<1>5. PICK b : b = DrawMenu(ui')
  OBVIOUS
<1>6. Unlit(b)
  BY <1>3, <1>5, UnlitDrawn
<1>7. Want' = cfg'.intensity /\ Want = IF ui.dlg = "settings" THEN ui.edit ELSE cfg.intensity
  <2>1. Want = IF ui.dlg = "settings" THEN ui.edit ELSE cfg.intensity
    BY <1>1 DEF Want
  <2> QED
    BY <1>1, <1>3, <2>1, WantPlain
<1>8. disp' = disp /\ lost' = lost
  BY DEF link
<1>9. PICK settings \in BOOLEAN, changed \in BOOLEAN :
        /\ settings <=> ui.dlg = "settings"
        /\ changed <=> ok /\ ((ui.dlg = "settings" /\ ui.edit # cfg.intensity)
                                \/ (ui.dlg = "backlight" /\ ui.edit # cfg.timeout))
  OBVIOUS
<1>10. \/ /\ changed /\ settings /\ cfg' = [cfg EXCEPT !.intensity = ui.edit]
          /\ \E t : todo' = Update(t, ui.edit) \o b
       \/ /\ changed /\ ~settings /\ cfg' = [cfg EXCEPT !.timeout = ui.edit]
          /\ \E t : todo' = Update(t, ui.edit) \o b
       \/ settings /\ ~ok /\ cfg' = cfg /\ todo' = Back(cfg.intensity) \o b
       \/ ~settings /\ cfg' = cfg /\ todo' = (Clear \o <<Op("system", 0, seen)>>) \o b
       \/ ~changed /\ (settings => ok) /\ cfg' = cfg /\ todo' = << >> \o b
  <2>1. \/ /\ changed /\ settings /\ cfg' = [cfg EXCEPT !.intensity = ui.edit]
           /\ todo' = Update("lcd intensity", ui.edit) \o b
        \/ /\ changed /\ ~settings /\ cfg' = [cfg EXCEPT !.timeout = ui.edit]
           /\ todo' = Update("lcd timeout", ui.edit) \o b
        \/ settings /\ ~ok /\ cfg' = cfg /\ todo' = Back(cfg.intensity) \o b
        \/ ui.dlg \in Commands /\ cfg' = cfg /\ todo' = (Clear \o <<Op("system", 0, seen)>>) \o b
        \/ ~changed /\ (settings => ok) /\ cfg' = cfg /\ todo' = << >> \o b
    BY Zenon, <1>5, <1>9 DEF Finish
  <2>2. ui.dlg \in Commands => ~settings
    BY <1>9 DEF Commands
  <2> QED
    BY Zenon, <2>1, <2>2
<1>11. CASE /\ changed /\ settings /\ cfg' = [cfg EXCEPT !.intensity = ui.edit]
            /\ \E t : todo' = Update(t, ui.edit) \o b
  <2>1. Want' = Want
    BY <1>1, <1>7, <1>9, <1>11
  <2>2. Unlit(todo')
    BY <1>6, <1>11, UnlitParts, UnlitJoined
  <2> QED
    BY <1>1, <1>4, <2>1, <2>2, LightQuiet
<1>12. CASE /\ changed /\ ~settings /\ cfg' = [cfg EXCEPT !.timeout = ui.edit]
            /\ \E t : todo' = Update(t, ui.edit) \o b
  <2>1. Want' = Want
    BY <1>1, <1>7, <1>9, <1>12
  <2>2. Unlit(todo')
    BY <1>6, <1>12, UnlitParts, UnlitJoined
  <2> QED
    BY <1>1, <1>4, <2>1, <2>2, LightQuiet
<1>13. CASE settings /\ ~ok /\ cfg' = cfg /\ todo' = Back(cfg.intensity) \o b
  <2>1. PICK q, w, a : q = todo' /\ w = Want' /\ a = Back(cfg.intensity)
    OBVIOUS
  <2>2. Lit(a, w) /\ HasBack(a) /\ Lit(b, w)
    BY <1>6, <1>7, <1>13, <2>1, BackLit, UnlitLit
  <2>3. Lit(q, w) /\ HasBack(q)
    BY <1>13, <2>1, <2>2, LitJoined
  <2> QED
    BY <1>4, <2>1, <2>3, LightNext
<1>14. CASE ~settings /\ cfg' = cfg /\ todo' = (Clear \o <<Op("system", 0, seen)>>) \o b
  <2>1. Want' = Want
    BY <1>7, <1>9, <1>14
  <2>2. PICK c : c = <<Op("system", 0, seen)>>
    OBVIOUS
  <2>3. Unlit(c)
    BY <2>2, UnlitParts, Zenon
  <2>4. Unlit(Clear \o c)
    BY <2>3, UnlitParts, UnlitJoined
  <2>5. Unlit(todo')
    BY <1>6, <1>14, <2>2, <2>4, UnlitJoined
  <2> QED
    BY <1>1, <1>4, <2>1, <2>5, LightQuiet
<1>15. CASE ~changed /\ (settings => ok) /\ cfg' = cfg /\ todo' = << >> \o b
  <2>1. Want' = Want
    BY <1>7, <1>9, <1>15
  <2>2. Unlit(todo')
    BY <1>6, <1>15, UnlitEmpty, UnlitJoined
  <2> QED
    BY <1>1, <1>4, <2>1, <2>2, LightQuiet
<1> QED
  BY <1>10, <1>11, <1>12, <1>13, <1>14, <1>15

LEMMA Circle == \A n \in 1..3 : \A f \in 1..n, d \in {1, -1} : ((f - 1 + d + n) % n) + 1 \in 1..n
<1>1. \A f \in 1..1, d \in {1, -1} : ((f - 1 + d + 1) % 1) + 1 \in 1..1
  OBVIOUS
<1>2. \A f \in 1..2, d \in {1, -1} : ((f - 1 + d + 2) % 2) + 1 \in 1..2
  OBVIOUS
<1>3. \A f \in 1..3, d \in {1, -1} : ((f - 1 + d + 3) % 3) + 1 \in 1..3
  OBVIOUS
<1>4. \A n \in 1..3 : n = 1 \/ n = 2 \/ n = 3
  OBVIOUS
<1> QED
  BY <1>1, <1>2, <1>3, <1>4

LEMMA DialogPacketLight ==
  IInv /\ IInv' /\ SettingsInv /\ PanelInv /\ LightInv /\ DialogPacket => LightInv' /\ PanelInv'
<1> SUFFICES ASSUME IInv, IInv', SettingsInv, PanelInv, LightInv, DialogPacket PROVE LightInv' /\ PanelInv'
  OBVIOUS
<1> DEFINE k == Head(inbox).kind
<1>1. Idle("dialog") /\ UNCHANGED <<dark, disp, link>>
  BY DEF DialogPacket, ReadPacket
<1>2. /\ ui.at = "dialog" /\ todo = << >> /\ Running /\ DOMAIN ui = Fields /\ ~dark'
      /\ ui.dlg \in Dialogs /\ ui.focus \in 1..Len(Widgets(ui.dlg)) /\ ui.row \in 1..Len(Items(ui))
      /\ disp' = disp /\ lost' = lost
  BY <1>1 DEF IInv, Shape, Idle, Running, PanelInv, link
<1>3. /\ Widget(ui) = "slider" => ui.dlg = "settings"
      /\ Widget(ui) = "number" => ui.dlg # "settings"
      /\ Len(Widgets(ui.dlg)) \in 1..3
  BY <1>2, WidgetOf
<1>4. \/ \E ok \in BOOLEAN : \E seen : Finish(ok, seen)
      \/ /\ Edits(ui, k) /\ cfg' = cfg
         /\ ui' = [ui EXCEPT !.edit = Edited(ui, k)]
         /\ todo' = (IF Widget(ui) = "slider" THEN Back(ui'.edit) ELSE << >>)
                        \o Rows(ui.dlg, ui'.edit) \o Cursor
      \/ (\E d \in {1, -1} : ui' = Around(ui, d)) /\ todo' = Cursor /\ cfg' = cfg
      \/ Stay /\ cfg' = cfg
  <2>1. \/ Finish(FALSE, NoText)
        \/ Finish(TRUE, Head(inbox).seen)
        \/ /\ Edits(ui, k) /\ cfg' = cfg
           /\ ui' = [ui EXCEPT !.edit = Edited(ui, k)]
           /\ todo' = (IF Widget(ui) = "slider" THEN Back(ui'.edit) ELSE << >>)
                          \o Rows(ui.dlg, ui'.edit) \o Cursor
        \/ (\E d \in {1, -1} : ui' = Around(ui, d)) /\ todo' = Cursor /\ cfg' = cfg
        \/ Stay /\ cfg' = cfg
    BY Zenon DEF DialogPacket
  <2> QED
    BY <2>1, Zenon
<1>5. CASE \E ok \in BOOLEAN : \E seen : Finish(ok, seen)
  BY <1>1, <1>5, FinishLight
<1>6. CASE /\ Edits(ui, k) /\ cfg' = cfg
           /\ ui' = [ui EXCEPT !.edit = Edited(ui, k)]
           /\ todo' = (IF Widget(ui) = "slider" THEN Back(ui'.edit) ELSE << >>)
                          \o Rows(ui.dlg, ui'.edit) \o Cursor
  <2>1. PICK e : ui' = [ui EXCEPT !.edit = e]
    BY <1>6
  <2>2. /\ ui'.at = "dialog" /\ ui'.menus = ui.menus /\ ui'.dlg = ui.dlg /\ ui'.row = ui.row
        /\ ui'.focus = ui.focus /\ ui'.edit = e
    BY <1>2, <2>1 DEF Fields
  <2>3. PanelInv'
    <3>1. Items(ui)' = Items(ui)
      BY <2>2 DEF Items
    <3> QED
      BY <1>2, <2>2, <3>1 DEF PanelInv
  <2>4. PICK a, b, q : /\ a = IF Widget(ui) = "slider" THEN Back(ui'.edit) ELSE << >>
                       /\ b = Rows(ui.dlg, ui'.edit)
                       /\ q = (a \o b) \o Cursor
    BY Zenon
  <2>5. todo' = q
    BY <1>6, <2>4
  <2>6. PICK w : w = Want'
    OBVIOUS
  <2>7. w = (IF ui.dlg = "settings" THEN e ELSE cfg.intensity)
    BY <1>2, <1>6, <2>2, <2>6 DEF Want
  <2>8. Lit(b, w) /\ Lit(Cursor, w)
    BY <2>4, UnlitRows, UnlitParts, UnlitLit
  <2>9. CASE Widget(ui) = "slider"
    <3>1. Lit(a, w) /\ HasBack(a)
      BY <1>3, <2>2, <2>4, <2>7, <2>9, BackLit
    <3>2. Lit(a \o b, w) /\ HasBack(a \o b)
      BY <2>8, <3>1, LitJoined
    <3>3. Lit(q, w) /\ HasBack(q)
      BY <2>4, <2>8, <3>2, LitJoined
    <3> QED
      BY <2>3, <2>5, <2>6, <3>3, LightNext
  <2>10. CASE Widget(ui) # "slider"
    <3>1. ui.dlg # "settings"
      BY <1>3, <1>6, <2>10 DEF Edits
    <3>2. w = Want
      BY <1>1, <1>2, <2>7, <3>1 DEF Want
    <3>3. Lit(a, w)
      BY <2>4, <2>10, UnlitEmpty, UnlitLit
    <3>4. Lit(a \o b, w)
      BY <2>8, <3>3, LitJoined
    <3>5. Lit(q, w)
      BY <2>4, <2>8, <3>4, LitJoined
    <3> QED
      BY <1>2, <2>3, <2>5, <2>6, <3>2, <3>5, LightNext
  <2> QED
    BY <2>9, <2>10
<1>7. CASE (\E d \in {1, -1} : ui' = Around(ui, d)) /\ todo' = Cursor /\ cfg' = cfg
  <2>1. PICK d \in {1, -1} : ui' = Around(ui, d)
    BY <1>7
  <2>2. PICK n, f : n = Len(Widgets(ui.dlg)) /\ f = ui.focus
    OBVIOUS
  <2>3. ui' = [ui EXCEPT !.focus = ((f - 1 + d + n) % n) + 1]
    BY <2>1, <2>2 DEF Around
  <2>4. ((f - 1 + d + n) % n) + 1 \in 1..n
    BY <1>2, <1>3, <2>2, Circle
  <2>5. /\ ui'.at = "dialog" /\ ui'.menus = ui.menus /\ ui'.dlg = ui.dlg /\ ui'.row = ui.row
        /\ ui'.edit = ui.edit /\ ui'.focus \in 1..n
    BY <1>2, <2>3, <2>4 DEF Fields
  <2>6. PanelInv'
    <3>1. Items(ui)' = Items(ui)
      BY <2>5 DEF Items
    <3> QED
      BY <1>2, <2>2, <2>5, <3>1 DEF PanelInv
  <2>7. Want' = Want
    BY <1>1, <1>2, <1>7, <2>5 DEF Want
  <2> QED
    BY <1>1, <1>2, <1>7, <2>6, <2>7, UnlitParts, LightQuiet
<1>8. CASE Stay /\ cfg' = cfg
  <2>1. ui' = ui /\ todo' = << >>
    BY <1>2, <1>8 DEF Stay
  <2>2. PanelInv' /\ Want' = Want
    BY <1>1, <1>8, <2>1 DEF PanelInv, Items, Want
  <2> QED
    BY <1>1, <1>2, <2>1, <2>2, UnlitEmpty, LightQuiet
<1> QED
  BY <1>4, <1>5, <1>6, <1>7, <1>8

LEMMA StartupLight ==
  ASSUME NEW c
  PROVE  Lit(Startup(c), c.intensity) /\ HasBack(Startup(c))
<1>1. PICK a, b, w : a = LED("off") /\ b = Back(c.intensity) /\ w = c.intensity
  BY Zenon
<1>2. Lit(a, w) /\ Lit(b, w) /\ HasBack(b) /\ Lit(Clear, w)
  BY <1>1, BackLit, UnlitParts, UnlitLit
<1>3. Lit(a \o b, w) /\ HasBack(a \o b)
  BY <1>2, LitJoined
<1>4. Lit((a \o b) \o Clear, w) /\ HasBack((a \o b) \o Clear)
  BY <1>2, <1>3, LitJoined
<1>5. Startup(c) = (a \o b) \o Clear
  BY <1>1, Zenon DEF Startup
<1> QED
  BY <1>1, <1>4, <1>5

LEMMA InitLight == Init => LightInv /\ PanelInv
<1> SUFFICES ASSUME Init PROVE LightInv /\ PanelInv
  OBVIOUS
<1>1. ui.at = "status" /\ ~dark /\ todo = Startup(cfg)
  BY Screens DEF Init
<1>2. Want = cfg.intensity
  BY <1>1, WantPlain
<1>3. Lit(todo, Want) /\ HasBack(todo)
  BY <1>1, <1>2, StartupLight
<1> QED
  BY <1>1, <1>3 DEF LightInv, PanelInv

LEMMA RestartLight == PanelInv /\ Restart => LightInv' /\ PanelInv'
<1> SUFFICES ASSUME PanelInv, Restart PROVE LightInv' /\ PanelInv'
  OBVIOUS
<1>1. ~dark' /\ ui.at = "down"
  BY DEF PanelInv, Restart
<1>2. CASE file = Missing
  <2>1. ui'.at = "dead"
    BY <1>2 DEF Restart, Status
  <2> QED
    BY <1>1, <2>1 DEF LightInv, PanelInv, Running
<1>3. CASE file # Missing
  <2>1. ui'.at = "status" /\ todo' = Startup(cfg')
    BY <1>3, Screens DEF Restart
  <2>2. PICK q, w : q = todo' /\ w = Want'
    OBVIOUS
  <2>3. w = cfg'.intensity
    BY <1>1, <2>1, <2>2, WantPlain
  <2>4. Lit(q, w) /\ HasBack(q)
    BY <2>1, <2>2, <2>3, StartupLight
  <2> QED
    BY <1>1, <2>1, <2>2, <2>4, LightNext DEF PanelInv
<1> QED
  BY <1>2, <1>3

\* A step that is not about the screen, what is to be sent and the display
LEMMA LightSame ==
  PanelInv /\ LightInv /\ UNCHANGED <<ui, todo, cfg, dark, disp, lost>> => PanelInv' /\ LightInv'
<1> SUFFICES ASSUME PanelInv, LightInv, UNCHANGED <<ui, todo, cfg, dark, disp, lost>>
             PROVE  PanelInv' /\ LightInv'
  OBVIOUS
<1>1. Want' = Want /\ Running' = Running
  BY DEF Want, Running
<1>2. Lit(todo, Want)' <=> Lit(todo, Want)
  BY <1>1 DEF Lit
<1>3. HasBack(todo)' <=> HasBack(todo)
  BY DEF HasBack
<1> QED
  BY <1>1, <1>2, <1>3 DEF PanelInv, LightInv, Items

\* Nor is one that is not about the panel.
LEMMA PanelSame == PanelInv /\ UNCHANGED <<ui, dark>> => PanelInv'
BY DEF PanelInv, Items

LEMMA StepLight ==
  IInv /\ IInv' /\ SettingsInv /\ PanelInv /\ LightInv /\ [Next]_vars => PanelInv' /\ LightInv'
<1> SUFFICES ASSUME IInv, IInv', SettingsInv, PanelInv, LightInv, [Next]_vars PROVE PanelInv' /\ LightInv'
  OBVIOUS
<1>1. CASE Skip \/ Exchange \/ UpdateConfig \/ System
  <2>1. UNCHANGED <<ui, dark>>
    BY <1>1 DEF Skip, Exchange, UpdateConfig, System
  <2> QED
    BY <1>1, <2>1, PanelSame, SkipLight, ExchangeLight, UpdateConfigLight, SystemLight
<1>2. CASE ShowStatus \/ StatusOther \/ BacklightOff
  <2>1. ui' = ui /\ ui.at = "status"
    BY <1>2 DEF ShowStatus, StatusOther, BacklightOff, Idle
  <2>2. PanelInv'
    BY <2>1 DEF PanelInv
  <2> QED
    BY <1>2, <2>2, ShowStatusLight, StatusOtherLight, BacklightOffLight
<1>3. CASE StatusKey
  BY <1>3, StatusKeyLight
<1>4. CASE MenuPacket
  BY <1>4, MenuPacketLight
<1>5. CASE MenuTimeout
  BY <1>5, LeaveMenuLight DEF MenuTimeout
<1>6. CASE DialogPacket
  BY <1>6, DialogPacketLight
<1>7. CASE DialogTimeout
  <2>1. Idle("dialog") /\ Finish(FALSE, NoText) /\ UNCHANGED <<dark, disp, link>>
    BY <1>7 DEF DialogTimeout
  <2> QED
    BY <2>1, FinishLight
<1>8. CASE Terminate
  <2>1. ui'.at = "down" /\ ~dark'
    BY <1>8 DEF Terminate, Status
  <2> QED
    BY <2>1 DEF PanelInv, LightInv, Running
<1>9. CASE Restart
  BY <1>9, RestartLight
<1>10. CASE Alarm \/ LateAnswer \/ Press \/ (\E k \in KeyCodes : Release(k)) \/ UNCHANGED vars
  <2>1. UNCHANGED <<ui, todo, cfg, dark, disp, lost>>
    BY <1>10 DEF Alarm, LateAnswer, Press, Release, Send, vars, link
  <2> QED
    BY <2>1, LightSame
<1> QED
  BY <1>1, <1>2, <1>3, <1>4, <1>5, <1>6, <1>7, <1>8, <1>9, <1>10 DEF Next, Program

\* Whatever the panel was told to show is undone when it is given up: a slider that was
\* moved in any dialog left by any way, a backlight that went out.  When the program waits
\* for a key, the backlight has the level it should have, unless the display did not get
\* the last packet for it, which no step sends again.
THEOREM BacklightKept == Spec => []BacklightAsSet
<1>1. Spec => []SettingsInv
  BY InductiveInvariant, InitSettings, StepSettings, PTL DEF Spec
<1>2. Spec => [](PanelInv /\ LightInv)
  <2>1. Init => PanelInv /\ LightInv
    BY InitLight
  <2> QED
    BY <1>1, <2>1, StepLight, InductiveInvariant, PTL DEF Spec
<1>3. LightInv => BacklightAsSet
  <2> SUFFICES ASSUME LightInv, Running, todo = << >>, ~lost PROVE disp.back = Want
    BY DEF BacklightAsSet
  <2>1. ~HasBack(todo)
    BY UnlitEmpty DEF Unlit
  <2> QED
    BY <2>1 DEF LightInv
<1> QED
  BY <1>2, <1>3, PTL
=============================================================================
