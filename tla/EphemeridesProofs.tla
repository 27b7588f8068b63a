------------------------- MODULE EphemeridesProofs --------------------------
(***************************************************************************)
(* For any issues of data, satellites, days and parts lost: an ephemeris   *)
(* is put together from one issue, and an issue is learnt once two frames  *)
(* of it have come whole, whatever the buffer held before them.            *)
(*                                                                         *)
(* One whole frame is not enough: a part left from before completes the    *)
(* buffer, or refuses the first word, and parts of the new issue go with   *)
(* it.  But after one, what the buffer holds is of this issue, so that no  *)
(* part of the next frame is refused.                                      *)
(*                                                                         *)
(* And for any navigation files and any list of the other constellation:   *)
(* what one run writes another reads, a mixed file is in the order of time *)
(* and has both lists whole, and the nearest ephemeris is the next one.    *)
(* The loops of these (reading records, merging two lists, the rollovers   *)
(* of the week, the search of the nearest) are recursive functions; that   *)
(* they have a value, and what it is, is shown by LoopRuns and UpTo.       *)
(***************************************************************************)
EXTENDS Navigation, SequenceTheorems, FiniteSetTheorems, TLAPS

-----------------------------------------------------------------------------

Held(q) == {q[i] : i \in DOMAIN q}

\* Ephemerides of one issue of this source
Ephs ==
  {e \in [sv : Sats[src], t0e : Nat, t0c : Nat, week : Int, accurate : BOOLEAN,
          toe : Nat, toc : Nat, made : SUBSET Nat] :
     /\ \E i \in Nat : e.made = {i}
     /\ e.t0e = e.toe % HoursOfWeek /\ e.t0c = e.toc % HoursOfWeek
     /\ \E i \in DOMAIN Issues[src] : e.toe = Issues[src][i].toe}

TableInv ==
  /\ tab \in [ephemeris : Seq(Ephs), sorted : [Sats[src] -> Seq(Ephs)]]
  /\ \A s \in Sats[src] : \A e \in Held(tab.sorted[s]) : e.sv = s /\ e \in Entries

Buffers == [have : SUBSET (1 .. 5), part : [1 .. 5 -> Nat], iod : Nat, week : Int]

Types ==
  /\ src \in Sources /\ day \in DOMAIN Days /\ now \in Days[day] /\ timed \in BOOLEAN
  /\ issue \in [Sats[src] -> Nat]
  /\ phase = "reading" => \A s \in Sats[src] : issue[s] \in DOMAIN Issues[src]
  /\ frame \in [Sats[src] -> SUBSET Parts] /\ clean \in [Sats[src] -> BOOLEAN]
  /\ whole \in [Sats[src] -> 0 .. 2]
  /\ buf \in [Sats[src] -> Buffers]

\* A buffer that is kept is not complete; words of Galileo in it are of one issue.
Sound(b) ==
  /\ b \in Buffers /\ b.have \subseteq Parts
  /\ src # "whole" => b.have # Parts
  /\ \A p \in b.have : b.part[p] \in DOMAIN Issues[src]
  /\ src = "INAV" => \A p \in b.have \cap (1 .. 4) : b.part[p] = b.iod

\* Once parts P have come, what buffer b has of them is of issue i.
Current(b, P, i) ==
  /\ src = "LNAV" => \A p \in P \cap b.have :
                        b.part[p] = i /\ (p = 1 => \E t \in Days[day] : b.week = WeekOf(t))
  /\ src = "INAV" /\ P \cap (1 .. 4) # {} => b.have \cap (1 .. 4) = {} \/ b.iod = i

Known(s) == \E e \in Entries : e.sv = s /\ e.toe = Issues[src][issue[s]].toe

Got(s) == Parts \ frame[s]

FrameInv(s) ==
  /\ frame[s] = Parts => clean[s]
  /\ clean[s] => Current(buf[s], Got(s), issue[s])
  /\ clean[s] /\ whole[s] >= 1
       => Known(s) \/ (Got(s) \subseteq buf[s].have /\ Current(buf[s], Parts, issue[s]))
  /\ whole[s] = 2 => Known(s)

IInv ==
  /\ Types /\ TableInv
  /\ \A s \in Sats[src] : Sound(buf[s])
  /\ src # "whole" => \A s \in Sats[src] : FrameInv(s)

-----------------------------------------------------------------------------
(* The table *)

LEMMA HeldJoined ==
  ASSUME NEW S, NEW q \in Seq(S), NEW r \in Seq(S)
  PROVE  q \o r \in Seq(S) /\ Held(q \o r) = Held(q) \cup Held(r)
<1> DEFINE u == q \o r
<1>1. /\ u \in Seq(S) /\ Len(u) = Len(q) + Len(r)
      /\ \A i \in 1 .. Len(q) + Len(r) : u[i] = IF i <= Len(q) THEN q[i] ELSE r[i - Len(q)]
  BY ConcatProperties
<1>2. /\ Len(q) \in Nat /\ DOMAIN q = 1 .. Len(q) /\ Len(r) \in Nat /\ DOMAIN r = 1 .. Len(r)
      /\ DOMAIN u = 1 .. Len(q) + Len(r)
  BY <1>1, LenProperties
<1> HIDE DEF u
<1>3. Held(u) \subseteq Held(q) \cup Held(r)
  <2> SUFFICES ASSUME NEW i \in 1 .. Len(q) + Len(r) PROVE u[i] \in Held(q) \cup Held(r)
    BY <1>2 DEF Held
  <2>1. CASE i <= Len(q)
    BY <1>1, <1>2, <2>1 DEF Held
  <2>2. CASE ~(i <= Len(q))
    <3>1. i - Len(q) \in 1 .. Len(r) /\ u[i] = r[i - Len(q)]
      BY <1>1, <1>2, <2>2
    <3> QED  BY <1>2, <3>1 DEF Held
  <2> QED  BY <2>1, <2>2
<1>4. Held(q) \subseteq Held(u)
  <2> SUFFICES ASSUME NEW i \in 1 .. Len(q) PROVE q[i] \in Held(u)
    BY <1>2 DEF Held
  <2>1. i \in DOMAIN u /\ u[i] = q[i]
    BY <1>1, <1>2
  <2> QED  BY <2>1 DEF Held
<1>5. Held(r) \subseteq Held(u)
  <2> SUFFICES ASSUME NEW i \in 1 .. Len(r) PROVE r[i] \in Held(u)
    BY <1>2 DEF Held
  <2>1. i + Len(q) \in DOMAIN u /\ u[i + Len(q)] = r[i]
    BY <1>1, <1>2, SMTT(30)
  <2> QED  BY <2>1 DEF Held
<1> QED  BY <1>1, <1>3, <1>4, <1>5 DEF u

\* A list cut in two holds what it held.
LEMMA HeldCut ==
  ASSUME NEW S, NEW q \in Seq(S), NEW k \in 0 .. Len(q)
  PROVE  /\ SubSeq(q, 1, k) \in Seq(S) /\ SubSeq(q, k + 1, Len(q)) \in Seq(S)
         /\ Held(SubSeq(q, 1, k)) \cup Held(SubSeq(q, k + 1, Len(q))) = Held(q)
<1> DEFINE a == SubSeq(q, 1, k)
           b == SubSeq(q, k + 1, Len(q))
<1>1. Len(q) \in Nat /\ DOMAIN q = 1 .. Len(q) /\ \A i \in 1 .. Len(q) : q[i] \in S
  BY LenProperties, ElementOfSeq
<1>2. /\ a \in Seq(S) /\ Len(a) = k /\ \A i \in 1 .. k : a[i] = q[i]
  <2>1. \A i \in 1 .. k : q[i] \in S
    BY <1>1
  <2>2. /\ a \in Seq(S) /\ Len(a) = IF 1 <= k THEN k - 1 + 1 ELSE 0
        /\ \A i \in 1 .. k - 1 + 1 : a[i] = q[1 + i - 1]
    BY <1>1, <2>1, SubSeqProperties
  <2> QED  BY <1>1, <2>2
<1>3. /\ b \in Seq(S) /\ Len(b) = Len(q) - k /\ \A i \in 1 .. Len(q) - k : b[i] = q[k + i]
  <2>1. \A i \in k + 1 .. Len(q) : q[i] \in S
    BY <1>1
  <2>2. /\ b \in Seq(S) /\ Len(b) = IF k + 1 <= Len(q) THEN Len(q) - (k + 1) + 1 ELSE 0
        /\ \A i \in 1 .. Len(q) - (k + 1) + 1 : b[i] = q[k + 1 + i - 1]
    BY <1>1, <2>1, SubSeqProperties
  <2> HIDE DEF a, b
  <2>3. k \in Int /\ Len(q) \in Int /\ k <= Len(q) /\ Len(q) - (k + 1) + 1 = Len(q) - k
    BY <1>1
  <2>4. Len(b) = Len(q) - k
    <3>1. PICK n, m : n = Len(q) /\ m = Len(b)
      OBVIOUS
    <3>2. m = IF k + 1 <= n THEN n - (k + 1) + 1 ELSE 0
      BY <2>2, <3>1
    <3>3. k \in Int /\ n \in Int /\ k <= n
      BY <2>3, <3>1
    <3>4. m = n - k
      BY ONLY <3>2, <3>3
    <3> QED  BY <3>1, <3>4
  <2>5. ASSUME NEW i \in 1 .. Len(q) - k PROVE b[i] = q[k + i]
    <3>1. i \in Int /\ k + 1 + i - 1 = k + i
      BY <2>3
    <3> QED  BY <2>2, <2>3, <3>1
  <2> QED  BY <2>2, <2>4, <2>5
<1> HIDE DEF a, b
<1>4. DOMAIN a = 1 .. k /\ DOMAIN b = 1 .. Len(q) - k
  BY <1>2, <1>3, LenProperties
<1>5. Held(a) \cup Held(b) \subseteq Held(q)
  <2>1. ASSUME NEW i \in 1 .. k PROVE a[i] \in Held(q)
    BY <1>1, <1>2 DEF Held
  <2>2. ASSUME NEW i \in 1 .. Len(q) - k PROVE b[i] \in Held(q)
    <3>1. k + i \in DOMAIN q /\ b[i] = q[k + i]
      BY <1>1, <1>3
    <3> QED  BY <3>1 DEF Held
  <2> QED  BY <1>4, <2>1, <2>2 DEF Held
<1>6. Held(q) \subseteq Held(a) \cup Held(b)
  <2> SUFFICES ASSUME NEW i \in 1 .. Len(q) PROVE q[i] \in Held(a) \cup Held(b)
    BY <1>1 DEF Held
  <2>1. CASE i <= k
    <3>1. i \in DOMAIN a /\ a[i] = q[i]
      BY <1>1, <1>2, <1>4, <2>1
    <3> QED  BY <3>1 DEF Held
  <2>2. CASE i > k
    <3>1. i - k \in DOMAIN b /\ b[i - k] = q[i]
      BY <1>1, <1>3, <1>4, <2>2
    <3> QED  BY <3>1 DEF Held
  <2> QED  BY <1>1, <2>1, <2>2
<1> QED  BY <1>2, <1>3, <1>5, <1>6 DEF a, b

\* The number of entries that come before something is a place to cut.
LEMMA CutAt ==
  ASSUME NEW S, NEW q \in Seq(S), NEW P \in SUBSET DOMAIN q
  PROVE  Cardinality(P) \in 0 .. Len(q)
<1>1. Len(q) \in Nat /\ DOMAIN q = 1 .. Len(q)
  BY LenProperties
<1>2. IsFiniteSet(1 .. Len(q)) /\ Cardinality(1 .. Len(q)) = Len(q)
  <2>1. /\ IsFiniteSet(1 .. Len(q))
        /\ Cardinality(1 .. Len(q)) = IF 1 > Len(q) THEN 0 ELSE Len(q) - 1 + 1
    BY <1>1, FS_Interval
  <2> QED  BY <1>1, <2>1
<1>3. IsFiniteSet(P) /\ Cardinality(P) <= Len(q)
  BY <1>1, <1>2, FS_Subset
<1> QED  BY <1>1, <1>3, FS_CardinalityType

LEMMA Inserted ==
  ASSUME NEW S, NEW q \in Seq(S), NEW e \in S
  PROVE  InsertByT0c(q, e) \in Seq(S) /\ Held(InsertByT0c(q, e)) = Held(q) \cup {e}
<1> DEFINE before == {i \in DOMAIN q : \A j \in 1 .. i : q[j].t0c <= e.t0c}
           n == Cardinality(before)
           a == SubSeq(q, 1, n)
           b == SubSeq(q, n + 1, Len(q))
           m == <<e>>
<1>1. n \in 0 .. Len(q) /\ Len(q) \in Nat
  BY CutAt, LenProperties
<1>2. InsertByT0c(q, e) = (a \o m) \o b
  <2>1. InsertByT0c(q, e) = InsertAt(q, n + 1, e)
    BY DEF InsertByT0c
  <2> HIDE DEF n
  <2>2. \A i : InsertAt(q, i, e) = (SubSeq(q, 1, i - 1) \o m) \o SubSeq(q, i, Len(q))
    BY DEF InsertAt
  <2>3. PICK k : k = n + 1 /\ k - 1 = n
    BY <1>1
  <2>4. InsertAt(q, k, e) = (SubSeq(q, 1, k - 1) \o m) \o SubSeq(q, k, Len(q))
    BY <2>2
  <2>5. SubSeq(q, 1, k - 1) = a /\ SubSeq(q, k, Len(q)) = b
    BY <2>3
  <2> QED  BY <2>1, <2>3, <2>4, <2>5
<1> HIDE DEF n
<1>3. a \in Seq(S) /\ b \in Seq(S) /\ Held(a) \cup Held(b) = Held(q)
  BY <1>1, HeldCut
<1>4. m \in Seq(S) /\ Held(m) = {e}
  BY DEF Held
<1> HIDE DEF a, b, m
<1>5. a \o m \in Seq(S) /\ Held(a \o m) = Held(a) \cup {e}
  BY <1>3, <1>4, HeldJoined
<1> DEFINE c == a \o m
<1>6. c \in Seq(S)
  BY <1>5
<1> HIDE DEF c
<1>7. c \o b \in Seq(S) /\ Held(c \o b) = Held(c) \cup Held(b)
  BY <1>3, <1>6, HeldJoined
<1> QED  BY <1>2, <1>3, <1>5, <1>7 DEF c

LEMMA Mended ==
  ASSUME NEW S, NEW q \in Seq(S)
  PROVE  fixWeekRollovers(q) \in Seq(S) /\ Held(fixWeekRollovers(q)) = Held(q)
<1> DEFINE first == {i \in DOMAIN q : \A j \in 2 .. i : q[j].t0c - q[j - 1].t0c <= 5 * 24}
           n == Cardinality(first)
           a == SubSeq(q, 1, n)
           b == SubSeq(q, n + 1, Len(q))
<1>1. n \in 0 .. Len(q)
  BY CutAt
<1>2. fixWeekRollovers(q) = b \o a
  BY DEF fixWeekRollovers
<1> HIDE DEF n
<1>3. a \in Seq(S) /\ b \in Seq(S) /\ Held(a) \cup Held(b) = Held(q)
  BY <1>1, HeldCut
<1> HIDE DEF a, b
<1>4. b \o a \in Seq(S) /\ Held(b \o a) = Held(b) \cup Held(a)
  BY <1>3, HeldJoined
<1> QED  BY <1>2, <1>3, <1>4

LEMMA EphemerisOfIssue ==
  ASSUME Types, NEW s \in Sats[src], NEW o \in DOMAIN Issues[src], NEW c \in DOMAIN Issues[src],
         NEW w \in Int, NEW i \in Nat
  PROVE  LET ed == Ephemeris(s, o, c, w, {i})
         IN  ed \in Ephs /\ ed.sv = s /\ ed.toe = Issues[src][o].toe
<1> DEFINE Issue == [toe : Nat, toc : Nat, sent : SUBSET Nat, accurate : BOOLEAN]
<1>1. Issues[src] \in Seq(Issue)
  BY IssuesAssumption DEF Types
<1>2. Issues[src][o] \in Issue /\ Issues[src][c] \in Issue
  <2> HIDE DEF Issue
  <2> QED  BY <1>1, ElementOfSeq, LenProperties
<1>3. /\ Issues[src][o].toe \in Nat /\ Issues[src][c].toc \in Nat
      /\ Issues[src][c].accurate \in BOOLEAN
  BY <1>2
<1>4. \A n \in Nat : n % HoursOfWeek \in Nat
  BY DEF HoursOfWeek
<1> QED  BY <1>3, <1>4 DEF Ephemeris, Ephs

\* addEphemeris() keeps the two views together, and afterwards one has the t_0e.
LEMMA Added ==
  ASSUME Types, TableInv, NEW s \in Sats[src], NEW ed \in Ephs, ed.sv = s,
         src' = src, tab' = addEphemeris(tab, ed)
  PROVE  /\ TableInv' /\ Entries \subseteq Entries'
         /\ \E e \in Entries' : e.sv = s /\ e.toe = ed.toe
<1>1. Ephs' = Ephs
  BY DEF Ephs
<1>2. Entries = Held(tab.ephemeris) /\ Entries' = Held(tab'.ephemeris)
  BY DEF Entries, Held
<1>3. /\ tab.ephemeris \in Seq(Ephs) /\ \A r \in Sats[src] : tab.sorted[r] \in Seq(Ephs)
      /\ DOMAIN tab.sorted = Sats[src]
  BY DEF TableInv
<1>4. CASE Duplicate(tab, ed)
  <2>1. tab' = tab
    BY <1>4 DEF addEphemeris
  <2>2. PICK i \in DOMAIN tab.sorted[s] : tab.sorted[s][i].t0e = ed.t0e
    BY <1>4 DEF Duplicate
  <2>3. tab.sorted[s][i] \in Entries /\ tab.sorted[s][i].sv = s
    BY DEF TableInv, Held
  <2>4. tab.sorted[s][i] \in Ephs
    BY <1>3, <2>2, ElementOfSeq, LenProperties
  <2>5. tab.sorted[s][i].toe = ed.toe
    BY <2>2, <2>4, OneDayAssumption DEF Ephs, Types
  <2>6. Entries' = Entries /\ TableInv'
    <3>1. Entries' = Entries
      BY <1>2, <2>1
    <3> QED  BY <1>1, <2>1, <3>1 DEF TableInv
  <2> QED  BY <2>3, <2>5, <2>6
<1>5. CASE ~Duplicate(tab, ed)
  <2>1. /\ tab' = [ephemeris |-> tab'.ephemeris, sorted |-> tab'.sorted]
        /\ tab'.ephemeris = InsertByT0c(tab.ephemeris, ed)
        /\ tab'.sorted = [r \in Sats[src] |-> IF r = s THEN InsertByT0c(tab.sorted[r], ed)
                                                        ELSE tab.sorted[r]]
    BY <1>3, <1>5 DEF addEphemeris
  <2>2. tab'.ephemeris \in Seq(Ephs) /\ Entries' = Entries \cup {ed}
    BY <1>2, <1>3, <2>1, Inserted
  <2>3. /\ InsertByT0c(tab.sorted[s], ed) \in Seq(Ephs)
        /\ Held(InsertByT0c(tab.sorted[s], ed)) = Held(tab.sorted[s]) \cup {ed}
    BY <1>3, Inserted
  <2>4. ASSUME NEW r \in Sats[src]
        PROVE  /\ tab'.sorted[r] \in Seq(Ephs)
               /\ Held(tab'.sorted[r]) \subseteq Held(tab.sorted[r]) \cup (IF r = s THEN {ed} ELSE {})
    BY <1>3, <2>1, <2>3
  <2>5. tab' \in [ephemeris : Seq(Ephs), sorted : [Sats[src] -> Seq(Ephs)]]
    <3>1. tab'.sorted \in [Sats[src] -> Seq(Ephs)]
      BY <2>1, <2>4
    <3> QED  BY <2>1, <2>2, <3>1
  <2>6. ASSUME NEW r \in Sats[src], NEW e \in Held(tab'.sorted[r])
        PROVE  e.sv = r /\ e \in Entries'
    BY <2>2, <2>4 DEF TableInv
  <2>7. TableInv'
    BY <1>1, <2>5, <2>6 DEF TableInv
  <2> QED  BY <2>2, <2>7
<1> QED  BY <1>4, <1>5

-----------------------------------------------------------------------------
(* A part comes *)

\* What part p of the frame of satellite s leaves in the buffer and the table.
Leaves(s, p, ok, b) ==
  /\ buf' = [buf EXCEPT ![s] = b] /\ Sound(b)
  /\ TableInv' /\ Entries \subseteq Entries'
  /\ ok /\ clean[s] => Current(b, Got(s) \cup {p}, issue[s])
  /\ ok /\ clean[s] /\ whole[s] >= 1
       => Known(s)' \/ (Got(s) \cup {p} \subseteq b.have /\ Current(b, Parts, issue[s]))

LEMMA StillKnown ==
  ASSUME NEW s, src' = src, issue'[s] = issue[s], Entries \subseteq Entries', Known(s)
  PROVE  Known(s)'
BY DEF Known

\* Nothing happens to the other satellites.
LEMMA Received ==
  ASSUME IInv, src # "whole", NEW s \in Sats[src], NEW p \in Parts, NEW ok \in BOOLEAN,
         Came(s, p, ok), NEW b, Leaves(s, p, ok, b)
  PROVE  IInv'
<1>1. /\ src' = src /\ day' = day /\ now' = now /\ timed' = timed /\ issue' = issue
      /\ whole' = whole /\ phase' = phase /\ phase = "reading" /\ p \in frame[s]
      /\ frame' = [frame EXCEPT ![s] = @ \ {p}] /\ clean' = [clean EXCEPT ![s] = @ /\ ok]
  BY DEF Came
<1>2. Parts' = Parts /\ Buffers' = Buffers
  BY <1>1 DEF Parts, Buffers
<1>3. /\ buf \in [Sats[src] -> Buffers] /\ frame \in [Sats[src] -> SUBSET Parts]
      /\ clean \in [Sats[src] -> BOOLEAN] /\ buf' = [buf EXCEPT ![s] = b]
      /\ b \in Buffers /\ TableInv' /\ Entries \subseteq Entries'
  BY DEF IInv, Types, Leaves, Sound
<1>4. /\ buf'[s] = b /\ frame'[s] = frame[s] \ {p} /\ clean'[s] = (clean[s] /\ ok)
      /\ \A r \in Sats[src] \ {s} : buf'[r] = buf[r] /\ frame'[r] = frame[r] /\ clean'[r] = clean[r]
  BY <1>1, <1>3
<1>5. Types'
  <2>1. /\ buf' \in [Sats[src] -> Buffers] /\ frame' \in [Sats[src] -> SUBSET Parts]
        /\ clean' \in [Sats[src] -> BOOLEAN]
    BY <1>1, <1>3
  <2> QED  BY <1>1, <1>2, <2>1 DEF IInv, Types
<1>6. ASSUME NEW r \in Sats[src]
      PROVE  Sound(buf[r])'
  <2>1. Sound(buf'[r])
    BY <1>4 DEF IInv, Leaves
  <2> QED  BY <1>1, <1>2, <2>1 DEF Sound
<1>7. ASSUME NEW r \in Sats[src], r # s
      PROVE  FrameInv(r)'
  <2>1. FrameInv(r)
    BY DEF IInv
  <2>2. Got(r)' = Got(r)
    BY <1>1, <1>2, <1>4, <1>7 DEF Got
  <2>3. Known(r) => Known(r)'
    BY <1>1, <1>3, StillKnown
  <2> QED  BY <1>1, <1>2, <1>4, <1>7, <2>1, <2>2, <2>3 DEF FrameInv, Current
<1>8. FrameInv(s)'
  <2>1. FrameInv(s)
    BY DEF IInv
  <2>2. Got(s)' = Got(s) \cup {p} /\ frame'[s] # Parts'
    BY <1>1, <1>2, <1>3, <1>4 DEF Got
  <2>3. Known(s) => Known(s)'
    BY <1>1, <1>3, StillKnown
  <2>4. clean'[s] => clean[s] /\ ok
    BY <1>4
  <2>5. Current(b, Got(s) \cup {p}, issue[s]) => Current(buf[s], Got(s), issue[s])'
    BY <1>1, <1>4, <2>2 DEF Current
  <2>6. Current(b, Parts, issue[s]) => Current(buf[s], Parts, issue[s])'
    BY <1>1, <1>2, <1>4 DEF Current
  <2>7. clean'[s] => Current(buf[s], Got(s), issue[s])'
    BY <2>4, <2>5 DEF Leaves
  <2>8. clean'[s] /\ whole'[s] >= 1
          => Known(s)' \/ ((Got(s) \subseteq buf[s].have)' /\ Current(buf[s], Parts, issue[s])')
    BY <1>1, <1>4, <2>2, <2>4, <2>6 DEF Leaves
  <2>9. whole'[s] = 2 => Known(s)'
    BY <1>1, <2>1, <2>3 DEF FrameInv
  <2> QED  BY <2>2, <2>7, <2>8, <2>9 DEF FrameInv
<1> QED  BY <1>1, <1>3, <1>5, <1>6, <1>7, <1>8 DEF IInv

LEMMA SameTable ==
  ASSUME TableInv, src' = src, tab' = tab
  PROVE  TableInv' /\ Entries' = Entries
<1>1. Ephs' = Ephs
  BY DEF Ephs
<1>2. Entries' = Entries
  BY DEF Entries
<1> QED  BY <1>1, <1>2 DEF TableInv

LEMMA Weeks == \A t \in Nat : WeekOf(t) \in Int
BY DEF WeekOf, HoursOfWeek

LEMMA Emptied ==
  ASSUME NEW b \in Buffers, src \in Sources
  PROVE  LET e == [b EXCEPT !.have = {}]
         IN  /\ Sound(e) /\ e.have = {}
             /\ Sound(EmptyBuffer) /\ EmptyBuffer.have = {}
             /\ \A i : Sound([e EXCEPT !.iod = i]) \/ i \notin Nat
<1>1. src \in {"LNAV", "INAV", "whole"}
  BY IssuesAssumption
<1>2. src # "whole" => Parts # {}
  BY <1>1 DEF Parts
<1>3. EmptyBuffer \in Buffers /\ EmptyBuffer.have = {}
  BY DEF EmptyBuffer, Buffers
<1>4. [b EXCEPT !.have = {}] \in Buffers /\ [b EXCEPT !.have = {}].have = {}
  BY DEF Buffers
<1>5. \A i \in Nat : /\ [[b EXCEPT !.have = {}] EXCEPT !.iod = i] \in Buffers
                     /\ [[b EXCEPT !.have = {}] EXCEPT !.iod = i].have = {}
  BY DEF Buffers
<1> QED  BY <1>2, <1>3, <1>4, <1>5 DEF Sound

\* An empty buffer has nothing of another issue.
LEMMA EmptyIsCurrent ==
  ASSUME NEW b, b.have = {}, NEW P, NEW i
  PROVE  Current(b, P, i)
BY DEF Current

\* A complete ephemeris of one issue goes into the table, and the buffer is used again.
LEMMA Processed ==
  ASSUME IInv, NEW s \in Sats[src], NEW b \in Buffers, src' = src, issue' = issue,
         NEW o \in DOMAIN Issues[src], NEW c \in DOMAIN Issues[src], NEW w \in Int,
         Process(s, b, Ephemeris(s, o, c, w, {o}))
  PROVE  \E e : /\ buf' = [buf EXCEPT ![s] = e] /\ Sound(e) /\ e.have = {}
                /\ TableInv' /\ Entries \subseteq Entries'
                /\ o = issue[s] => Known(s)'
<1> DEFINE ed == Ephemeris(s, o, c, w, {o})
           e == IF Duplicate(tab, ed) THEN [b EXCEPT !.have = {}] ELSE EmptyBuffer
<1>1. o \in Nat
  <2>1. \E S : Issues[src] \in Seq(S)
    BY IssuesAssumption DEF IInv, Types
  <2> QED  BY <2>1, LenProperties
<1>2. ed \in Ephs /\ ed.sv = s /\ ed.toe = Issues[src][o].toe
  BY <1>1, EphemerisOfIssue DEF IInv
<1>3. tab' = addEphemeris(tab, ed) /\ buf' = [buf EXCEPT ![s] = e]
  BY DEF Process
<1>4. Sound(e) /\ e.have = {}
  BY Emptied DEF IInv, Types
<1> HIDE DEF ed, e
<1>5. /\ TableInv' /\ Entries \subseteq Entries'
      /\ \E x \in Entries' : x.sv = s /\ x.toe = ed.toe
  BY <1>2, <1>3, Added DEF IInv
<1>6. o = issue[s] => Known(s)'
  BY <1>2, <1>5 DEF Known
<1> QED  BY <1>3, <1>4, <1>5, <1>6

\* A subframe of GPS.
LEMMA SubframeLeaves ==
  ASSUME IInv, src = "LNAV", NEW s \in Sats[src], NEW p \in Parts, NEW w \in Int,
         p # 1 => w = WeekOf(now), NEW ok \in BOOLEAN, ok => timed /\ w = WeekOf(now),
         Came(s, p, ok), LNAVSubframe(s, p, w)
  PROVE  \E b : Leaves(s, p, ok, b)
<1> DEFINE old == buf[s]
           b == [old EXCEPT !.have = @ \cup {p}, !.part[p] = issue[s],
                            !.week = IF p = 1 THEN w ELSE @]
           P == Got(s) \cup {p}
<1>1. /\ src' = src /\ issue' = issue /\ Parts = 1 .. 3 /\ p \in 1 .. 5
      /\ issue[s] \in DOMAIN Issues[src] /\ issue[s] \in Nat
      /\ old \in Buffers /\ Sound(old) /\ buf \in [Sats[src] -> Buffers]
      /\ src \in Sources /\ now \in Days[day] /\ day \in DOMAIN Days
      /\ FrameInv(s) /\ TableInv
  BY DEF Came, Parts, IInv, Types
<1>2. /\ b \in Buffers /\ b.have = old.have \cup {p} /\ b.part[p] = issue[s]
      /\ b.week = (IF p = 1 THEN w ELSE old.week)
      /\ \A q \in old.have \ {p} : b.part[q] = old.part[q]
  BY <1>1 DEF Buffers
<1> HIDE DEF b
<1>3. /\ b.have \subseteq Parts
      /\ \A q \in b.have : b.part[q] \in DOMAIN Issues[src]
  BY <1>1, <1>2 DEF Sound
<1>4. ASSUME ok, NEW Q, p \in Q, Current(old, Q \ {p}, issue[s])
      PROVE  Current(b, Q, issue[s])
  <2> SUFFICES ASSUME NEW q \in Q \cap b.have
               PROVE  b.part[q] = issue[s] /\ (q = 1 => \E t \in Days[day] : b.week = WeekOf(t))
    BY DEF Current
  <2>1. CASE q = p
    BY <1>1, <1>2, <1>4, <2>1
  <2>2. CASE q # p
    <3>1. q \in (Q \ {p}) \cap old.have
      BY <1>2, <2>2
    <3>2. old.part[q] = issue[s] /\ (q = 1 => \E t \in Days[day] : old.week = WeekOf(t))
      BY <1>4, <3>1 DEF Current
    <3> QED  BY <1>2, <2>2, <3>1, <3>2
  <2> QED  BY <2>1, <2>2
<1>5. ok /\ clean[s] => Current(b, P, issue[s])
  <2> SUFFICES ASSUME ok, clean[s] PROVE Current(b, P, issue[s])
    OBVIOUS
  <2>1. Current(old, P \ {p}, issue[s])
    BY <1>1 DEF FrameInv, Current
  <2> HIDE DEF P
  <2>2. p \in P
    BY DEF P
  <2> QED  BY <1>4, <2>1, <2>2
<1>6. ok /\ clean[s] /\ whole[s] >= 1
        => Known(s) \/ (P \subseteq b.have /\ Current(b, Parts, issue[s]))
  <2> SUFFICES ASSUME ok, clean[s], whole[s] >= 1, ~Known(s)
               PROVE  P \subseteq b.have /\ Current(b, Parts, issue[s])
    OBVIOUS
  <2>1. Got(s) \subseteq old.have /\ Current(old, Parts, issue[s])
    BY <1>1 DEF FrameInv
  <2>2. Current(old, Parts \ {p}, issue[s])
    BY <2>1 DEF Current
  <2> QED  BY <1>2, <1>4, <2>1, <2>2
<1>7. Known(s) /\ Entries \subseteq Entries' => Known(s)'
  BY <1>1, StillKnown
<1>8. CASE ~timed
  <2>1. UNCHANGED <<buf, tab>> /\ ~ok
    BY <1>8 DEF LNAVSubframe
  <2>2. TableInv' /\ Entries' = Entries
    BY <1>1, <2>1, SameTable
  <2>3. buf' = [buf EXCEPT ![s] = old]
    BY <1>1, <2>1
  <2> QED  BY <1>1, <2>1, <2>2, <2>3 DEF Leaves
<1>9. CASE timed /\ b.have # 1 .. 3
  <2>1. Keep(s, b)
    BY <1>9 DEF LNAVSubframe, b
  <2>2. TableInv' /\ Entries' = Entries /\ buf' = [buf EXCEPT ![s] = b]
    BY <1>1, <2>1, SameTable DEF Keep
  <2>3. Sound(b)
    BY <1>1, <1>2, <1>3, <1>9 DEF Sound
  <2> QED  BY <1>5, <1>6, <1>7, <2>2, <2>3 DEF Leaves
<1>10. CASE timed /\ b.have = 1 .. 3
  <2>1. LNAVComplete(s, b)
    BY <1>10 DEF LNAVSubframe, b
  <2>2. CASE ~Consistent(b) \/ b.week - WeekOf(now) \notin -1 .. 1
    <3> DEFINE e == [b EXCEPT !.have = {}]
    <3>1. Keep(s, e)
      BY <2>1, <2>2 DEF LNAVComplete
    <3>2. Sound(e) /\ e.have = {}
      BY <1>1, <1>2, Emptied
    <3> HIDE DEF e
    <3>3. TableInv' /\ Entries' = Entries /\ buf' = [buf EXCEPT ![s] = e]
      BY <1>1, <3>1, SameTable DEF Keep
    <3>4. ~Current(b, Parts, issue[s])
      <4> SUFFICES ASSUME Current(b, Parts, issue[s]) PROVE FALSE
        OBVIOUS
      <4>1. /\ b.part[1] = issue[s] /\ b.part[2] = issue[s] /\ b.part[3] = issue[s]
            /\ \E t \in Days[day] : b.week = WeekOf(t)
        BY <1>1, <1>10 DEF Current
      <4>2. PICK t \in Days[day] : b.week = WeekOf(t)
        BY <4>1
      <4>3. WeekOf(t) <= WeekOf(now) + 1 /\ WeekOf(now) <= WeekOf(t) + 1
        BY <1>1, OneDayAssumption
      <4>4. WeekOf(t) \in Int /\ WeekOf(now) \in Int
        BY <1>1, Weeks, IssuesAssumption
      <4> QED  BY <2>2, <4>1, <4>2, <4>3, <4>4 DEF Consistent
    <3> QED  BY <1>6, <1>7, <3>2, <3>3, <3>4, EmptyIsCurrent DEF Leaves
  <2>3. CASE Consistent(b) /\ b.week - WeekOf(now) \in -1 .. 1
    <3> DEFINE o == b.part[2]
               wk == WeekOfT0e(b.week, Issues[src][o].toe % HoursOfWeek)
    <3>1. o \in DOMAIN Issues[src] /\ b.part[1] = o /\ b.part[3] = o
      BY <1>3, <1>10, <2>3 DEF Consistent
    <3>2. {b.part[q] : q \in 1 .. 3} = {o}
      <4>1. \A q \in 1 .. 3 : b.part[q] = o
        BY <3>1
      <4> QED  BY <4>1
    <3>3. Process(s, b, Ephemeris(s, o, o, wk, {o}))
      BY <2>1, <2>3, <3>1, <3>2 DEF LNAVComplete
    <3>4. wk \in Int
      <4>1. b.week \in Int
        BY <1>2 DEF Buffers
      <4> QED  BY <4>1 DEF WeekOfT0e
    <3> HIDE DEF wk
    <3>5. PICK e : /\ buf' = [buf EXCEPT ![s] = e] /\ Sound(e) /\ e.have = {}
                   /\ TableInv' /\ Entries \subseteq Entries'
                   /\ o = issue[s] => Known(s)'
      BY <1>1, <1>2, <3>1, <3>3, <3>4, Processed
    <3>6. Current(b, Parts, issue[s]) => o = issue[s]
      BY <1>1, <1>10 DEF Current
    <3> QED  BY <1>6, <1>7, <3>5, <3>6, EmptyIsCurrent DEF Leaves
  <2> QED  BY <2>2, <2>3
<1> QED  BY <1>8, <1>9, <1>10

\* A word of Galileo.
LEMMA WordLeaves ==
  ASSUME IInv, src = "INAV", NEW s \in Sats[src], NEW p \in Parts, NEW ours \in BOOLEAN,
         ~ours => p = 4, Came(s, p, ours), INAVWord(s, p, ours)
  PROVE  \E b : Leaves(s, p, ours, b)
<1> DEFINE old == buf[s]
           i == issue[s]
           b == INAVTaken(old, p, i)
           P == Got(s) \cup {p}
<1>1. /\ src' = src /\ issue' = issue /\ Parts = 1 .. 5 /\ p \in 1 .. 5
      /\ i \in DOMAIN Issues[src] /\ i \in Nat
      /\ old \in Buffers /\ Sound(old) /\ buf \in [Sats[src] -> Buffers]
      /\ src \in Sources /\ FrameInv(s) /\ TableInv
  BY DEF Came, Parts, IInv, Types
<1>2. /\ b \in Buffers /\ b.have = old.have \cup {p} /\ b.part[p] = i
      /\ b.iod = (IF p \in 1 .. 4 /\ old.have \cap (1 .. 4) = {} THEN i ELSE old.iod)
      /\ \A q \in old.have \ {p} : b.part[q] = old.part[q]
  BY <1>1 DEF Buffers, INAVTaken
<1>3. Known(s) /\ Entries \subseteq Entries' => Known(s)'
  BY <1>1, StillKnown
\* After a whole frame no word is refused.
<1>4. clean[s] /\ whole[s] >= 1 /\ ~Known(s)
        => Got(s) \subseteq old.have /\ (old.have \cap (1 .. 4) = {} \/ old.iod = i)
  <2>1. Parts \cap (1 .. 4) # {}
    BY <1>1
  <2> QED  BY <1>1, <2>1 DEF FrameInv, Current
<1>5. CASE p \in 1 .. 4 /\ ~checkGalIODNav(old, i)
  <2> DEFINE e == [old EXCEPT !.have = {}]
  <2>1. Keep(s, e)
    BY <1>5 DEF INAVWord
  <2>2. Sound(e) /\ e.have = {}
    BY <1>1, Emptied
  <2> HIDE DEF e
  <2>3. TableInv' /\ Entries' = Entries /\ buf' = [buf EXCEPT ![s] = e]
    BY <1>1, <2>1, SameTable DEF Keep
  <2>4. ~(clean[s] /\ whole[s] >= 1 /\ ~Known(s))
    BY <1>4, <1>5 DEF checkGalIODNav
  <2> QED  BY <1>3, <2>2, <2>3, <2>4, EmptyIsCurrent DEF Leaves
<1>6. CASE p = 4 /\ ~ours /\ checkGalIODNav(old, i)
  <2> DEFINE e == [[old EXCEPT !.have = {}] EXCEPT !.iod = b.iod]
  <2>1. Keep(s, [old EXCEPT !.have = {}, !.iod = b.iod])
    BY <1>6 DEF INAVWord
  <2>2. [old EXCEPT !.have = {}, !.iod = b.iod] = e
    OBVIOUS
  <2>3. Sound(e)
    <3>1. b.iod \in Nat
      BY <1>2 DEF Buffers
    <3> QED  BY <1>1, <3>1, Emptied
  <2> HIDE DEF e
  <2>4. TableInv' /\ Entries' = Entries /\ buf' = [buf EXCEPT ![s] = e]
    BY <1>1, <2>1, <2>2, SameTable DEF Keep
  <2> QED  BY <1>6, <2>3, <2>4 DEF Leaves
<1>7. CASE /\ p \in 1 .. 4 => checkGalIODNav(old, i)
           /\ ~(p = 4 /\ ~ours /\ checkGalIODNav(old, i))
  <2> HIDE DEF b
  <2>1. IF b.have = 1 .. 5 THEN INAVComplete(s, b) ELSE Keep(s, b)
    BY <1>7 DEF INAVWord, b
  \* What has come is of one issue, which is this one if p has it.
  <2>2. /\ p \in 1 .. 4 => b.iod = i
        /\ \A q \in b.have \cap (1 .. 4) : b.part[q] = b.iod
    <3>1. \A q \in old.have \cap (1 .. 4) : old.part[q] = old.iod
      BY <1>1 DEF Sound
    <3>2. p \in 1 .. 4 => old.have \cap (1 .. 4) = {} \/ old.iod = i
      BY <1>7 DEF checkGalIODNav
    <3>3. p \in 1 .. 4 => b.iod = i
      BY <1>2, <3>2
    <3>4. ASSUME NEW q \in b.have \cap (1 .. 4) PROVE b.part[q] = b.iod
      <4>1. CASE q = p
        BY <1>2, <3>3, <3>4, <4>1
      <4>2. CASE q # p
        <5>1. q \in old.have \cap (1 .. 4) /\ b.part[q] = old.iod
          BY <1>2, <3>1, <3>4, <4>2
        <5> QED  BY <1>2, <3>2, <5>1
      <4> QED  BY <4>1, <4>2
    <3> QED  BY <3>3, <3>4
  <2>3. b.have \subseteq Parts /\ \A q \in b.have : b.part[q] \in DOMAIN Issues[src]
    BY <1>1, <1>2 DEF Sound
  <2>4. clean[s] => Current(b, P, i)
    <3> SUFFICES ASSUME clean[s], P \cap (1 .. 4) # {}
                 PROVE  b.have \cap (1 .. 4) = {} \/ b.iod = i
      BY <1>1 DEF Current
    <3>1. CASE p \in 1 .. 4
      BY <2>2, <3>1
    <3>2. CASE p \notin 1 .. 4
      <4>1. Got(s) \cap (1 .. 4) # {} /\ b.iod = old.iod /\ b.have \cap (1 .. 4) = old.have \cap (1 .. 4)
        BY <1>2, <3>2
      <4> QED  BY <1>1, <4>1 DEF FrameInv, Current
    <3> QED  BY <3>1, <3>2
  <2>5. clean[s] /\ whole[s] >= 1 => Known(s) \/ (P \subseteq b.have /\ Current(b, Parts, i))
    <3> SUFFICES ASSUME clean[s], whole[s] >= 1, ~Known(s)
                 PROVE  P \subseteq b.have /\ (b.have \cap (1 .. 4) = {} \/ b.iod = i)
      BY <1>1 DEF Current
    <3>1. Got(s) \subseteq old.have /\ (old.have \cap (1 .. 4) = {} \/ old.iod = i)
      BY <1>4
    <3>2. CASE p \in 1 .. 4
      BY <1>2, <2>2, <3>1, <3>2
    <3>3. CASE p \notin 1 .. 4
      <4>1. b.iod = old.iod /\ b.have \cap (1 .. 4) = old.have \cap (1 .. 4)
        BY <1>2, <3>3
      <4> QED  BY <1>2, <3>1, <4>1
    <3> QED  BY <3>2, <3>3
  <2>6. CASE b.have # 1 .. 5
    <3>1. Keep(s, b)
      BY <2>1, <2>6
    <3>2. TableInv' /\ Entries' = Entries /\ buf' = [buf EXCEPT ![s] = b]
      BY <1>1, <3>1, SameTable DEF Keep
    <3>3. Sound(b)
      BY <1>1, <1>2, <2>2, <2>3, <2>6 DEF Sound
    <3> QED  BY <1>3, <2>4, <2>5, <3>2, <3>3 DEF Leaves
  <2>7. CASE b.have = 1 .. 5
    <3> DEFINE o == b.part[1]
    <3>1. o \in DOMAIN Issues[src] /\ o = b.iod /\ \A q \in 1 .. 4 : b.part[q] = o
      BY <2>2, <2>3, <2>7
    <3>2. {b.part[q] : q \in 1 .. 4} = {o}
      BY <3>1
    <3>3. PICK w \in Int : Process(s, b, Ephemeris(s, o, o, w, {o}))
      BY <2>1, <2>7, <3>1, <3>2 DEF INAVComplete
    <3> HIDE DEF o
    <3>4. PICK e : /\ buf' = [buf EXCEPT ![s] = e] /\ Sound(e) /\ e.have = {}
                   /\ TableInv' /\ Entries \subseteq Entries'
                   /\ o = issue[s] => Known(s)'
      BY <1>1, <1>2, <3>1, <3>3, Processed
    <3>5. Current(b, Parts, i) => o = i
      <4>1. 1 \in b.have /\ 1 \in Parts
        BY <1>1, <2>7
      <4> QED  BY <1>1, <3>1, <4>1 DEF Current
    <3> QED  BY <1>3, <2>5, <3>4, <3>5, EmptyIsCurrent DEF Leaves
  <2> QED  BY <2>6, <2>7
<1> QED  BY <1>5, <1>6, <1>7

-----------------------------------------------------------------------------
(* The steps *)

LEMMA InitIInv == Init => IInv
<1> SUFFICES ASSUME Init PROVE IInv
  OBVIOUS
<1>1. /\ src \in {"LNAV", "INAV", "whole"} /\ src \in Sources /\ day \in DOMAIN Days
      /\ now \in Days[day] /\ timed \in BOOLEAN
  BY IssuesAssumption DEF Init, FirstHour
<1>2. /\ frame = [s \in Sats[src] |-> Parts] /\ clean = [s \in Sats[src] |-> TRUE]
      /\ whole = [s \in Sats[src] |-> 0] /\ buf = [s \in Sats[src] |-> EmptyBuffer]
      /\ tab.ephemeris = << >> /\ tab = EmptyTable(Sats[src])
  BY DEF Init, EmptyTable
<1>3. EmptyBuffer \in Buffers /\ EmptyBuffer.have = {}
  BY DEF EmptyBuffer, Buffers
<1>4. Types
  <2>1. Sendable(now) \subseteq DOMAIN Issues[src] /\ DOMAIN Issues[src] \subseteq Nat
    <3>1. \E S : Issues[src] \in Seq(S)
      BY <1>1, IssuesAssumption
    <3> QED  BY <3>1, LenProperties DEF Sendable
  <2>2. issue \in [Sats[src] -> Nat] /\ \A s \in Sats[src] : issue[s] \in DOMAIN Issues[src]
    BY <2>1 DEF Init
  <2> QED  BY <1>1, <1>2, <1>3, <2>2 DEF Types
<1>5. TableInv
  <2>1. << >> \in Seq(Ephs)
    BY EmptySeq
  <2> QED  BY <1>2, <2>1 DEF TableInv, EmptyTable, Held
<1>6. \A s \in Sats[src] : Sound(buf[s])
  BY <1>1, <1>2, <1>3, Emptied
<1>7. ASSUME NEW s \in Sats[src] PROVE FrameInv(s)
  <2>1. clean[s] = TRUE /\ whole[s] = 0 /\ buf[s].have = {}
    BY <1>2, <1>3
  <2>2. Current(buf[s], Got(s), issue[s])
    BY <2>1, EmptyIsCurrent
  <2> QED  BY <2>1, <2>2 DEF FrameInv
<1> QED  BY <1>4, <1>5, <1>6, <1>7 DEF IInv

LEMMA SubframeIInv == IInv /\ Subframe => IInv'
<1> SUFFICES ASSUME IInv, src = "LNAV", NEW s \in Sats[src], NEW p \in Parts, NEW bad \in {0, 3},
                    bad # 0 => p = 1, Came(s, p, timed /\ bad = 0),
                    LNAVSubframe(s, p, WeekOf(now) + bad)
             PROVE  IInv'
  BY DEF Subframe
<1>1. PICK w \in Int : w = WeekOf(now) + bad /\ (bad = 0 => w = WeekOf(now))
  BY Weeks, IssuesAssumption DEF IInv, Types
<1>2. PICK ok \in BOOLEAN : ok = (timed /\ bad = 0)
  OBVIOUS
<1>3. \E b : Leaves(s, p, ok, b)
  BY <1>1, <1>2, SubframeLeaves
<1> QED  BY <1>2, <1>3, Received

LEMMA WordIInv == IInv /\ Word => IInv'
<1> SUFFICES ASSUME IInv, src = "INAV", NEW s \in Sats[src], NEW p \in Parts, NEW ours \in BOOLEAN,
                    ~ours => p = 4, Came(s, p, ours), INAVWord(s, p, ours)
             PROVE  IInv'
  BY DEF Word
<1>1. \E b : Leaves(s, p, ours, b)
  BY WordLeaves
<1> QED  BY <1>1, Received

LEMMA LosePartIInv == IInv /\ LosePart => IInv'
<1> SUFFICES ASSUME IInv, NEW s \in Sats[src], NEW p \in Parts, Came(s, p, FALSE),
                    UNCHANGED <<buf, tab>>
             PROVE  IInv'
  BY DEF LosePart
<1>1. src # "whole"
  BY DEF Parts
<1>2. TableInv' /\ Entries' = Entries
  BY SameTable DEF IInv, Came
<1>3. buf' = [buf EXCEPT ![s] = buf[s]] /\ Sound(buf[s])
  BY DEF IInv, Types
<1>4. Leaves(s, p, FALSE, buf[s])
  BY <1>2, <1>3 DEF Leaves
<1> QED  BY <1>1, <1>4, Received

LEMMA WholeEphemerisIInv == IInv /\ WholeEphemeris => IInv'
<1> SUFFICES ASSUME IInv, WholeEphemeris PROVE IInv'
  OBVIOUS
<1>1. /\ src = "whole" /\ UNCHANGED <<src, day, now, timed, issue, frame, clean, whole, buf, phase>>
  BY DEF WholeEphemeris, sending
<1>2. PICK s \in Sats[src], i \in DOMAIN Issues[src] : \E t \in Issues[src][i].sent :
         tab' = addEphemeris(tab, Ephemeris(s, i, i, WeekOf(t), {i}))
  BY DEF WholeEphemeris
<1>3. PICK t \in Issues[src][i].sent : tab' = addEphemeris(tab, Ephemeris(s, i, i, WeekOf(t), {i}))
  BY <1>2
<1>4. i \in Nat /\ WeekOf(t) \in Int
  <2> DEFINE Issue == [toe : Nat, toc : Nat, sent : SUBSET Nat, accurate : BOOLEAN]
  <2>1. Issues[src] \in Seq(Issue)
    BY IssuesAssumption DEF IInv, Types
  <2>2. Issues[src][i] \in Issue /\ i \in Nat
    <3> HIDE DEF Issue
    <3> QED  BY <2>1, ElementOfSeq, LenProperties
  <2>3. t \in Nat
    BY <2>2
  <2> QED  BY <2>2, <2>3, Weeks
<1> DEFINE ed == Ephemeris(s, i, i, WeekOf(t), {i})
<1>5. ed \in Ephs /\ ed.sv = s
  BY <1>4, EphemerisOfIssue DEF IInv
<1> HIDE DEF ed
<1>6. TableInv'
  BY <1>1, <1>3, <1>5, Added DEF IInv, ed
<1>7. Types' /\ \A r \in Sats[src] : Sound(buf[r])'
  BY <1>1 DEF IInv, Types, Sound, Parts, Buffers
<1> QED  BY <1>1, <1>6, <1>7 DEF IInv

LEMMA SameBuffers ==
  ASSUME IInv, src' = src, buf' = buf
  PROVE  Parts' = Parts /\ \A s \in Sats[src] : Sound(buf[s])'
<1>1. Parts' = Parts /\ Buffers' = Buffers
  BY DEF Parts, Buffers
<1> QED  BY <1>1 DEF IInv, Sound

LEMMA RawMeasurementIInv == IInv /\ RawMeasurement => IInv'
<1> SUFFICES ASSUME IInv, RawMeasurement PROVE IInv'
  OBVIOUS
<1>1. /\ UNCHANGED <<src, day, now, issue, frame, clean, whole, buf, tab, phase>>
      /\ timed' = TRUE
  BY DEF RawMeasurement, sending
<1>2. Parts' = Parts /\ \A s \in Sats[src] : Sound(buf[s])'
  BY <1>1, SameBuffers
<1>3. TableInv' /\ Entries' = Entries
  BY <1>1, SameTable DEF IInv
<1>4. Types'
  BY <1>1, <1>2 DEF IInv, Types, Buffers
<1>5. src # "whole" => \A s \in Sats[src] : FrameInv(s)'
  BY <1>1, <1>2, <1>3 DEF IInv, FrameInv, Current, Got, Known
<1> QED  BY <1>1, <1>2, <1>3, <1>4, <1>5 DEF IInv

LEMMA NextFrameIInv == IInv /\ NextFrame => IInv'
<1> SUFFICES ASSUME IInv, NextFrame PROVE IInv'
  OBVIOUS
<1>1. /\ UNCHANGED <<src, day, now, timed, buf, tab, phase>> /\ phase = "reading"
      /\ src # "whole" /\ src \in {"LNAV", "INAV"} /\ Parts # {}
  <2>1. UNCHANGED <<src, day, now, timed, buf, tab, phase>> /\ phase = "reading" /\ src # "whole"
    BY DEF NextFrame
  <2>2. src \in {"LNAV", "INAV"}
    BY <2>1, IssuesAssumption DEF IInv, Types
  <2>3. Parts # {}
    BY <2>2 DEF Parts
  <2> QED  BY <2>1, <2>2, <2>3
<1>0. PICK s \in Sats[src] : \E i \in {issue[s], issue[s] + 1} \cap Sendable(now) :
         /\ frame[s] = {} \/ (frame[s] = Parts /\ i # issue[s])
         /\ issue' = [issue EXCEPT ![s] = i]
         /\ whole' = [whole EXCEPT ![s] =
                         IF i # issue[s] \/ ~clean[s] THEN 0 ELSE IF @ < 2 THEN @ + 1 ELSE 2]
         /\ frame' = [frame EXCEPT ![s] = Parts]
         /\ clean' = [clean EXCEPT ![s] = TRUE]
  BY DEF NextFrame
<1>2. PICK i \in {issue[s], issue[s] + 1} \cap Sendable(now) :
         /\ frame[s] = {} \/ (frame[s] = Parts /\ i # issue[s])
         /\ issue' = [issue EXCEPT ![s] = i]
         /\ whole' = [whole EXCEPT ![s] =
                         IF i # issue[s] \/ ~clean[s] THEN 0 ELSE IF @ < 2 THEN @ + 1 ELSE 2]
         /\ frame' = [frame EXCEPT ![s] = Parts]
         /\ clean' = [clean EXCEPT ![s] = TRUE]
  BY <1>0
<1>3. Parts' = Parts /\ \A r \in Sats[src] : Sound(buf[r])'
  BY <1>1, SameBuffers
<1>4. TableInv' /\ Entries' = Entries
  BY <1>1, SameTable DEF IInv
<1>5. /\ issue \in [Sats[src] -> Nat] /\ frame \in [Sats[src] -> SUBSET Parts]
      /\ clean \in [Sats[src] -> BOOLEAN] /\ whole \in [Sats[src] -> 0 .. 2]
      /\ i \in Nat /\ i \in DOMAIN Issues[src]
      /\ \A r \in Sats[src] : issue[r] \in DOMAIN Issues[src]
  BY <1>1, <1>2 DEF IInv, Types, Sendable
<1>6. /\ issue'[s] = i /\ frame'[s] = Parts /\ clean'[s] = TRUE
      /\ whole'[s] = (IF i # issue[s] \/ ~clean[s] THEN 0 ELSE IF whole[s] < 2 THEN whole[s] + 1 ELSE 2)
      /\ \A r \in Sats[src] \ {s} : /\ issue'[r] = issue[r] /\ frame'[r] = frame[r]
                                    /\ clean'[r] = clean[r] /\ whole'[r] = whole[r]
  BY <1>2, <1>5
<1>7. Types'
  <2>1. /\ issue' \in [Sats[src] -> Nat] /\ frame' \in [Sats[src] -> SUBSET Parts]
        /\ clean' \in [Sats[src] -> BOOLEAN] /\ whole' \in [Sats[src] -> 0 .. 2]
        /\ \A r \in Sats[src] : issue'[r] \in DOMAIN Issues[src]
    BY <1>2, <1>5, <1>6
  <2> QED  BY <1>1, <1>3, <2>1 DEF IInv, Types, Buffers
<1>8. ASSUME NEW r \in Sats[src], r # s PROVE FrameInv(r)'
  <2>1. FrameInv(r)
    BY <1>1 DEF IInv
  <2> QED  BY <1>1, <1>3, <1>4, <1>6, <1>8, <2>1 DEF FrameInv, Current, Got, Known
<1>9. FrameInv(s)'
  <2>1. FrameInv(s) /\ Sound(buf[s])
    BY <1>1 DEF IInv
  <2>2. Got(s)' = {} /\ \A b, j : Current(b, {}, j)
    BY <1>3, <1>6 DEF Got, Current
  <2>3. Current(buf[s], Got(s), issue[s])'
    BY <1>6, <2>2 DEF Got, Current
  <2>4. whole'[s] = 2 => Known(s)'
    <3> SUFFICES ASSUME whole'[s] = 2 PROVE Known(s)'
      OBVIOUS
    <3>1. i = issue[s] /\ clean[s] /\ whole[s] \in {1, 2}
      BY <1>5, <1>6
    <3>2. frame[s] = {} /\ Got(s) = Parts
      BY <1>2, <3>1 DEF Got
    <3>3. Known(s)
      BY <1>1, <2>1, <3>1, <3>2 DEF FrameInv, Sound
    <3> QED  BY <1>1, <1>4, <1>6, <3>1, <3>3 DEF Known
  <2>5. whole'[s] >= 1 => Known(s)' \/ Current(buf[s], Parts, issue[s])'
    <3> SUFFICES ASSUME whole'[s] >= 1 PROVE Known(s)' \/ Current(buf[s], Parts, issue[s])'
      OBVIOUS
    <3>1. i = issue[s] /\ clean[s]
      BY <1>6
    <3>2. frame[s] = {} /\ Got(s) = Parts
      BY <1>2, <3>1 DEF Got
    <3>3. Current(buf[s], Parts, issue[s])
      BY <2>1, <3>1, <3>2 DEF FrameInv
    <3> QED  BY <1>1, <1>3, <1>6, <3>1, <3>3 DEF Current
  <2> QED  BY <1>6, <2>2, <2>3, <2>4, <2>5 DEF FrameInv
<1> QED  BY <1>1, <1>3, <1>4, <1>7, <1>8, <1>9 DEF IInv

LEMMA TickIInv == IInv /\ Tick => IInv'
<1> SUFFICES ASSUME IInv, Tick PROVE IInv'
  OBVIOUS
<1>1. /\ UNCHANGED <<src, day, timed, frame, clean, buf, tab, phase>> /\ phase = "reading"
      /\ \A s \in Sats[src] : frame[s] = Parts
      /\ now' \in Days[day] /\ issue' \in [Sats[src] -> Sendable(now')]
      /\ whole' = [s \in Sats[src] |-> IF issue'[s] = issue[s] THEN whole[s] ELSE 0]
  BY DEF Tick
<1>2. Parts' = Parts /\ \A s \in Sats[src] : Sound(buf[s])'
  BY <1>1, SameBuffers
<1>3. TableInv' /\ Entries' = Entries
  BY <1>1, SameTable DEF IInv
<1>4. Types'
  <2>1. Sendable(now') \subseteq DOMAIN Issues[src] /\ DOMAIN Issues[src] \subseteq Nat
    <3>1. \E S : Issues[src] \in Seq(S)
      BY IssuesAssumption DEF IInv, Types
    <3> QED  BY <3>1, LenProperties DEF Sendable
  <2>2. issue' \in [Sats[src] -> Nat] /\ \A s \in Sats[src] : issue'[s] \in DOMAIN Issues[src]
    BY <1>1, <2>1
  <2>3. whole' \in [Sats[src] -> 0 .. 2]
    BY <1>1 DEF IInv, Types
  <2> QED  BY <1>1, <1>2, <2>2, <2>3 DEF IInv, Types, Buffers
<1>5. ASSUME src # "whole", NEW s \in Sats[src] PROVE FrameInv(s)'
  <2>1. FrameInv(s)
    BY <1>5 DEF IInv
  <2>2. whole'[s] = (IF issue'[s] = issue[s] THEN whole[s] ELSE 0)
    BY <1>1
  <2>3. Got(s)' = {} /\ Got(s) = {}
    BY <1>1, <1>2 DEF Got
  <2>4. Current(buf[s], Got(s), issue[s])'
    BY <2>3 DEF Current, Got
  <2>5. CASE issue'[s] = issue[s]
    <3>1. Known(s) => Known(s)'
      BY <1>1, <1>3, <2>5 DEF Known
    <3>2. Current(buf[s], Parts, issue[s]) => Current(buf[s], Parts, issue[s])'
      BY <1>1, <1>2, <2>5 DEF Current
    <3> QED  BY <1>1, <1>2, <2>1, <2>2, <2>3, <2>4, <2>5, <3>1, <3>2 DEF FrameInv
  <2>6. CASE issue'[s] # issue[s]
    <3>1. whole'[s] = 0
      BY <2>2, <2>6
    <3> QED  BY <1>1, <2>1, <2>4, <3>1 DEF FrameInv
  <2> QED  BY <2>5, <2>6
<1> QED  BY <1>1, <1>2, <1>3, <1>4, <1>5 DEF IInv

LEMMA EndOfLogIInv == IInv /\ EndOfLog => IInv'
<1> SUFFICES ASSUME IInv, EndOfLog PROVE IInv'
  OBVIOUS
<1>1. /\ UNCHANGED <<src, day>> /\ phase' = "done" /\ timed' = FALSE
      /\ now' = FirstHour(day) /\ issue' = [s \in Sats[src] |-> 1]
      /\ frame' = [s \in Sats[src] |-> Parts] /\ clean' = [s \in Sats[src] |-> TRUE]
      /\ whole' = [s \in Sats[src] |-> 0] /\ buf' = [s \in Sats[src] |-> EmptyBuffer]
      /\ tab' = [tab EXCEPT !.ephemeris = fixWeekRollovers(tab.ephemeris)]
  BY DEF EndOfLog
<1>2. EmptyBuffer \in Buffers /\ EmptyBuffer.have = {}
  BY DEF EmptyBuffer, Buffers
<1>3. Parts' = Parts /\ Buffers' = Buffers /\ Ephs' = Ephs
  BY <1>1 DEF Parts, Buffers, Ephs
<1>4. src \in Sources /\ day \in DOMAIN Days /\ now' \in Days[day]
  BY <1>1, IssuesAssumption DEF IInv, Types, FirstHour
<1>5. Types'
  <2>1. issue' \in [Sats[src] -> Nat] /\ whole' \in [Sats[src] -> 0 .. 2]
    BY <1>1
  <2>2. frame' \in [Sats[src] -> SUBSET Parts] /\ clean' \in [Sats[src] -> BOOLEAN]
    BY <1>1
  <2>3. buf' \in [Sats[src] -> Buffers]
    BY <1>1, <1>2
  <2> QED  BY <1>1, <1>3, <1>4, <2>1, <2>2, <2>3 DEF Types
<1>6. TableInv'
  <2>1. tab.ephemeris \in Seq(Ephs) /\ tab'.sorted = tab.sorted
        /\ tab'.ephemeris = fixWeekRollovers(tab.ephemeris)
        /\ tab.sorted \in [Sats[src] -> Seq(Ephs)]
        /\ tab' = [ephemeris |-> tab'.ephemeris, sorted |-> tab'.sorted]
    BY <1>1 DEF IInv, TableInv
  <2>2. tab'.ephemeris \in Seq(Ephs) /\ Held(tab'.ephemeris) = Held(tab.ephemeris)
    BY <2>1, Mended
  <2>3. Entries' = Entries
    BY <2>2 DEF Entries, Held
  <2>4. tab' \in [ephemeris : Seq(Ephs), sorted : [Sats[src] -> Seq(Ephs)]]
    BY <2>1, <2>2
  <2> QED  BY <1>1, <1>3, <2>1, <2>3, <2>4 DEF IInv, TableInv
<1>7. \A s \in Sats[src] : Sound(buf[s])'
  <2>1. Sound(EmptyBuffer)
    BY <1>2, <1>4, Emptied
  <2>2. \A s \in Sats[src] : buf'[s] = EmptyBuffer
    BY <1>1
  <2> QED  BY <1>1, <1>3, <2>1, <2>2 DEF Sound
<1>8. \A s \in Sats[src] : FrameInv(s)'
  BY <1>1, <1>2, <1>3 DEF FrameInv, Current
<1> QED  BY <1>1, <1>5, <1>6, <1>7, <1>8 DEF IInv

LEMMA StepIInv == IInv /\ [Next]_vars => IInv'
<1>1. IInv /\ UNCHANGED vars => IInv'
  <2> SUFFICES ASSUME IInv, UNCHANGED vars PROVE IInv'
    OBVIOUS
  <2>1. UNCHANGED <<src, day, now, timed, issue, frame, clean, whole, buf, tab, phase>>
    BY DEF vars, sending
  <2>2. Parts' = Parts /\ \A s \in Sats[src] : Sound(buf[s])'
    BY <2>1, SameBuffers
  <2>3. TableInv' /\ Entries' = Entries
    BY <2>1, SameTable DEF IInv
  <2>4. Types'
    BY <2>1, <2>2 DEF IInv, Types, Buffers
  <2>5. src # "whole" => \A s \in Sats[src] : FrameInv(s)'
    BY <2>1, <2>2, <2>3 DEF IInv, FrameInv, Current, Got, Known
  <2> QED  BY <2>1, <2>2, <2>3, <2>4, <2>5 DEF IInv
<1> QED
  BY <1>1, SubframeIInv, WordIInv, LosePartIInv, WholeEphemerisIInv, RawMeasurementIInv,
     NextFrameIInv, TickIInv, EndOfLogIInv DEF Next

(***************************************************************************)
(* The buffers, the frames and the table hang together as the invariant    *)
(* says, whatever the log of a day has lost.                               *)
(***************************************************************************)
THEOREM InductiveInvariant == Spec => []IInv
BY InitIInv, StepIInv, PTL DEF Spec

(***************************************************************************)
(* An ephemeris that readLog() puts in the table is made of parts of one   *)
(* issue (GPS subframes, Galileo words 1 to 4, or a whole message).        *)
(***************************************************************************)
THEOREM IssuesNotMixed == Spec => []OneIssue
<1>1. IInv => OneIssue
  <2> SUFFICES ASSUME IInv, NEW i \in DOMAIN tab.ephemeris
               PROVE  Cardinality(tab.ephemeris[i].made) = 1
    BY DEF OneIssue, Entries
  <2>1. tab.ephemeris[i] \in Ephs
    BY ElementOfSeq, LenProperties DEF IInv, TableInv
  <2> QED  BY <2>1, FS_Singleton DEF Ephs
<1> QED  BY <1>1, InductiveInvariant, PTL

(***************************************************************************)
(* After two whole frames of an issue its ephemeris is in the table: the   *)
(* assemblers' ways of starting again never keep a satellite out.          *)
(***************************************************************************)
THEOREM IssuesLearnt == Spec => []Learnt
<1>1. IInv => Learnt
  BY DEF IInv, FrameInv, Learnt, Known
<1> QED  BY <1>1, InductiveInvariant, PTL

-----------------------------------------------------------------------------
(* Loops that the model has as recursive functions *)

\* The least of a set, from which the inductions below are made
LEMMA Least ==
  ASSUME NEW T \in SUBSET Nat, T # {}
  PROVE  \E n \in T : \A m \in T : n <= m
<1> DEFINE R == OpToRel(<, Nat)
<1>1. IsWellFoundedOn(R, Nat)
  BY NatLessThanWellFounded
<1>2. \A m, n \in Nat : m < n => <<m, n>> \in R
  BY DEF OpToRel
<1> HIDE DEF R
<1>3. PICK n \in T : \A m \in T : ~ (<<m, n>> \in R)
  BY <1>1, WFMin
<1>4. \A m \in T : ~ (m < n)
  BY <1>2, <1>3
<1> QED  BY <1>4

\* What is true of the first, and of the next of each it is true of, is true of them all.
LEMMA UpTo ==
  ASSUME NEW lo \in Int, NEW hi \in Int, NEW T, lo \in T,
         \A i \in lo + 1 .. hi : i - 1 \in T => i \in T
  PROVE  lo .. hi \subseteq T
<1> SUFFICES ASSUME NEW j \in lo .. hi, j \notin T PROVE FALSE
  OBVIOUS
<1> DEFINE Bad == {n \in Nat : lo + n <= hi /\ lo + n \notin T}
<1>1. j - lo \in Bad
  OBVIOUS
<1>2. PICK n \in Bad : \A m \in Bad : n <= m
  <2> HIDE DEF Bad
  <2>1. Bad \in SUBSET Nat
    BY DEF Bad
  <2> QED  BY <1>1, <2>1, Least
<1>3. n # 0
  BY <1>2
<1>4. n - 1 \notin Bad /\ n - 1 \in Nat
  BY <1>2, <1>3
<1>5. (lo + n) - 1 \in T /\ lo + n \in lo + 1 .. hi
  BY <1>2, <1>3, <1>4
<1> QED  BY <1>2, <1>5

\* A loop that goes from one state to the next
Runs(r, z, base, G) == r[0] = base /\ \A i \in 1 .. z : r[i] = G[i][r[i - 1]]

\* It has a run: each value comes from the one before.
LEMMA LoopRuns ==
  ASSUME NEW z \in Nat, NEW St, NEW base \in St, NEW G \in [1 .. z -> [St -> St]]
  PROVE  \E r \in [0 .. z -> St] : Runs(r, z, base, G)
<1> DEFINE Run(r, n) == r[0] = base /\ \A i \in 1 .. n : r[i] = G[i][r[i - 1]]
           T == {n \in 0 .. z : \E r \in [0 .. n -> St] : Run(r, n)}
<1>1. 0 \in T
  <2> DEFINE r == [i \in 0 .. 0 |-> base]
  <2>1. r \in [0 .. 0 -> St] /\ Run(r, 0)
    OBVIOUS
  <2> HIDE DEF r, Run
  <2> QED  BY <2>1
<1>2. ASSUME NEW n \in 0 + 1 .. z, n - 1 \in T PROVE n \in T
  <2>1. PICK r \in [0 .. n - 1 -> St] : Run(r, n - 1)
    BY <1>2
  <2> DEFINE q == [i \in 0 .. n |-> IF i = n THEN G[n][r[n - 1]] ELSE r[i]]
  <2>2. G[n][r[n - 1]] \in St
    BY <2>1
  <2>3. q \in [0 .. n -> St]
    BY <2>2
  <2>4. q[0] = base
    BY <2>1
  <2>5. ASSUME NEW i \in 1 .. n PROVE q[i] = G[i][q[i - 1]]
    <3>1. q[i - 1] = r[i - 1]
      OBVIOUS
    <3>2. CASE i = n
      <4>1. n \in 0 .. n
        OBVIOUS
      <4>2. q[n] = G[n][r[n - 1]]
        BY <4>1
      <4> QED  BY <3>1, <3>2, <4>2
    <3>3. CASE i # n
      <4>1. i \in 1 .. n - 1 /\ q[i] = r[i]
        BY <3>3
      <4> QED  BY <2>1, <3>1, <4>1
    <3> QED  BY <3>2, <3>3
  <2>6. Run(q, n)
    <3> HIDE DEF q
    <3> QED  BY <2>4, <2>5
  <2> HIDE DEF q, Run
  <2> QED  BY <2>3, <2>6
<1>3. 0 .. z \subseteq T
  <2> HIDE DEF T
  <2>1. 0 \in Int /\ z \in Int
    OBVIOUS
  <2> QED  BY <1>1, <1>2, <2>1, UpTo
<1> HIDE DEF Run
<1>4. z \in T
  <2> HIDE DEF T
  <2> QED  BY <1>3
<1>5. \E r \in [0 .. z -> St] : Run(r, z)
  BY <1>4
<1> QED  BY <1>5 DEF Run, Runs

\* What goes as such a loop does has its states.
LEMMA LoopTyped ==
  ASSUME NEW z \in Nat, NEW St, NEW p, p[0] \in St,
         \A i \in 1 .. z : p[i - 1] \in St => p[i] \in St
  PROVE  \A i \in 0 .. z : p[i] \in St
<1> DEFINE T == {i \in 0 .. z : p[i] \in St}
<1>1. 0 \in T
  OBVIOUS
<1>2. ASSUME NEW i \in 0 + 1 .. z, i - 1 \in T PROVE i \in T
  BY <1>2
<1>3. 0 .. z \subseteq T
  <2> HIDE DEF T
  <2>1. 0 \in Int /\ z \in Int
    OBVIOUS
  <2> QED  BY <1>1, <1>2, <2>1, UpTo
<1> QED  BY <1>3
-----------------------------------------------------------------------------
(* setAbsT0c() *)

Rolls == [week : Int, toc : Int, roll : {0, 1}]

GPSRoll(list, acc, i) ==
  [week |-> list[i].week, toc |-> list[i].t0c, roll |-> RollOver(acc, list[i].week, list[i])]

\* GPSsetAbsT0c() entry by entry
GPSRolls(list, acc) ==
  /\ acc \in [0 .. Len(list) -> Rolls]
  /\ acc[0] = [week |-> -1, toc |-> -1, roll |-> 0]
  /\ \A i \in 1 .. Len(list) : acc[i] = GPSRoll(list, acc[i - 1], i)
  /\ GPSsetAbsT0c(list) =
       [i \in 1 .. Len(list) |-> (list[i].week + acc[i].roll) * HoursOfWeek + list[i].t0c]

LEMMA GPSRollTyped ==
  ASSUME NEW list, NEW i, list[i].week \in Int, list[i].t0c \in Int, NEW a \in Rolls
  PROVE  GPSRoll(list, a, i) \in Rolls
<1>1. RollOver(a, list[i].week, list[i]) \in {0, 1}
  <2>1. a.roll \in {0, 1}
    BY DEF Rolls
  <2> QED  BY <2>1, Zenon DEF RollOver
<1> QED  BY <1>1 DEF GPSRoll, Rolls

LEMMA GPSDates ==
  ASSUME NEW S, NEW list \in Seq(S), \A e \in S : e.week \in Int /\ e.t0c \in Int
  PROVE  \E acc : GPSRolls(list, acc)
<1> DEFINE z == Len(list)
           base == [week |-> -1, toc |-> -1, roll |-> 0]
           G == [i \in 1 .. z |-> [m \in Rolls |-> GPSRoll(list, m, i)]]
           Loop(q) == [i \in 0 .. z |-> IF i = 0 THEN base ELSE GPSRoll(list, q[i - 1], i)]
<1>1. z \in Nat /\ \A i \in 1 .. z : list[i].week \in Int /\ list[i].t0c \in Int
  OBVIOUS
<1>2. base \in Rolls
  BY DEF Rolls
<1> HIDE DEF z, base
<1>3. G \in [1 .. z -> [Rolls -> Rolls]]
  <2> SUFFICES ASSUME NEW i \in 1 .. z, NEW m \in Rolls PROVE GPSRoll(list, m, i) \in Rolls
    OBVIOUS
  <2> QED  BY <1>1, GPSRollTyped
<1>4. PICK r \in [0 .. z -> Rolls] : Runs(r, z, base, G)
  <2> HIDE DEF G
  <2>1. z \in Nat
    BY <1>1
  <2> QED  BY <1>2, <1>3, <2>1, LoopRuns
<1>5. r = Loop(r)
  <2>1. ASSUME NEW i \in 1 .. z PROVE r[i] = GPSRoll(list, r[i - 1], i)
    <3>1. r[i - 1] \in Rolls
      BY <1>1
    <3> QED  BY <1>4, <3>1 DEF Runs
  <2>2. r[0] = base /\ r = [i \in 0 .. z |-> r[i]]
    BY <1>4 DEF Runs
  <2>3. ASSUME NEW i \in 0 .. z PROVE r[i] = IF i = 0 THEN base ELSE GPSRoll(list, r[i - 1], i)
    <3>1. i = 0 \/ i \in 1 .. z
      BY <1>1
    <3>2. CASE i = 0
      BY <2>2, <3>2
    <3>3. CASE i \in 1 .. z
      <4>1. i # 0
        BY <3>3
      <4> QED  BY <2>1, <3>3, <4>1
    <3> QED  BY <3>1, <3>2, <3>3
  <2> QED  BY <2>2, <2>3
<1> DEFINE p == CHOOSE q : q = Loop(q)
<1>6. p = Loop(p)
  <2> HIDE DEF Loop
  <2> QED  BY <1>5
<1>7. GPSsetAbsT0c(list) = [i \in 1 .. Len(list) |-> (list[i].week + p[i].roll) * HoursOfWeek + list[i].t0c]
  BY DEF GPSsetAbsT0c, GPSRoll, p, z, base
<1> HIDE DEF p
<1>8. p[0] = base /\ \A i \in 1 .. z : p[i] = GPSRoll(list, p[i - 1], i)
  <2>1. 0 \in 0 .. z /\ \A i \in 1 .. z : i \in 0 .. z /\ i # 0
    BY <1>1
  <2> QED  BY <1>6, <2>1
<1>9. \A i \in 0 .. z : p[i] \in Rolls
  <2>1. ASSUME NEW i \in 1 .. z, p[i - 1] \in Rolls PROVE p[i] \in Rolls
    BY <1>1, <1>8, <2>1, GPSRollTyped
  <2> HIDE DEF Rolls
  <2> QED  BY <1>1, <1>2, <1>8, <2>1, LoopTyped
<1>10. p \in [0 .. z -> Rolls]
  <2>1. p = [i \in 0 .. z |-> p[i]]
    BY <1>6
  <2> QED  BY <1>9, <2>1
<1> QED  BY <1>7, <1>8, <1>10 DEF GPSRolls, z, base

GalRolls == [week : Int, toc : Int, roll : {0, 1}, gal : Int]

GalRoll(list, acc, i) ==
  LET roll == RollOver(acc, acc.gal, list[i])
  IN  [week |-> acc.gal, toc |-> list[i].t0c, roll |-> roll, gal |-> acc.gal + roll]

\* GALsetAbsT0c() entry by entry
GALRolls(list, w, acc) ==
  /\ acc \in [0 .. Len(list) -> GalRolls]
  /\ acc[0] = [week |-> -1, toc |-> -1, roll |-> 0, gal |-> w]
  /\ \A i \in 1 .. Len(list) : acc[i] = GalRoll(list, acc[i - 1], i)
  /\ GALsetAbsT0c(list, w) = [i \in 1 .. Len(list) |-> acc[i].gal * HoursOfWeek + list[i].t0c]

LEMMA GalRollTyped ==
  ASSUME NEW list, NEW i, list[i].t0c \in Int, NEW a \in GalRolls
  PROVE  GalRoll(list, a, i) \in GalRolls
<1>1. RollOver(a, a.gal, list[i]) \in {0, 1}
  <2>1. a.roll \in {0, 1}
    BY DEF GalRolls
  <2> QED  BY <2>1, Zenon DEF RollOver
<1>2. a.gal \in Int /\ a.gal + RollOver(a, a.gal, list[i]) \in Int
  BY <1>1 DEF GalRolls
<1> QED  BY <1>1, <1>2 DEF GalRoll, GalRolls

LEMMA GALDates ==
  ASSUME NEW S, NEW list \in Seq(S), NEW w \in Int, \A e \in S : e.t0c \in Int
  PROVE  \E acc : GALRolls(list, w, acc)
<1> DEFINE z == Len(list)
           base == [week |-> -1, toc |-> -1, roll |-> 0, gal |-> w]
           G == [i \in 1 .. z |-> [m \in GalRolls |-> GalRoll(list, m, i)]]
           Loop(q) == [i \in 0 .. z |-> IF i = 0 THEN base ELSE GalRoll(list, q[i - 1], i)]
<1>1. z \in Nat /\ \A i \in 1 .. z : list[i].t0c \in Int
  OBVIOUS
<1>2. base \in GalRolls
  BY DEF GalRolls
<1> HIDE DEF z, base
<1>3. G \in [1 .. z -> [GalRolls -> GalRolls]]
  <2> SUFFICES ASSUME NEW i \in 1 .. z, NEW m \in GalRolls PROVE GalRoll(list, m, i) \in GalRolls
    OBVIOUS
  <2> QED  BY <1>1, GalRollTyped
<1>4. PICK r \in [0 .. z -> GalRolls] : Runs(r, z, base, G)
  <2> HIDE DEF G
  <2>1. z \in Nat
    BY <1>1
  <2> QED  BY <1>2, <1>3, <2>1, LoopRuns
<1>5. r = Loop(r)
  <2>1. ASSUME NEW i \in 1 .. z PROVE r[i] = GalRoll(list, r[i - 1], i)
    <3>1. r[i - 1] \in GalRolls
      BY <1>1
    <3> QED  BY <1>4, <3>1 DEF Runs
  <2> QED  BY <1>1, <1>4, <2>1 DEF Runs
<1> DEFINE p == CHOOSE q : q = Loop(q)
<1>6. p = Loop(p)
  <2> HIDE DEF Loop
  <2> QED  BY <1>5
<1>7. GALsetAbsT0c(list, w) = [i \in 1 .. Len(list) |-> p[i].gal * HoursOfWeek + list[i].t0c]
  BY DEF GALsetAbsT0c, GalRoll, p, z, base
<1> HIDE DEF p
<1>8. p[0] = base /\ \A i \in 1 .. z : p[i] = GalRoll(list, p[i - 1], i)
  <2>1. 0 \in 0 .. z /\ \A i \in 1 .. z : i \in 0 .. z /\ i # 0
    BY <1>1
  <2> QED  BY <1>6, <2>1
<1>9. \A i \in 0 .. z : p[i] \in GalRolls
  <2>1. ASSUME NEW i \in 1 .. z, p[i - 1] \in GalRolls PROVE p[i] \in GalRolls
    BY <1>1, <1>8, <2>1, GalRollTyped
  <2> QED  BY <1>1, <1>2, <1>8, <2>1, LoopTyped
<1>10. p \in [0 .. z -> GalRolls]
  <2>1. p = [i \in 0 .. z |-> p[i]]
    BY <1>6
  <2> QED  BY <1>9, <2>1
<1> QED  BY <1>7, <1>8, <1>10 DEF GALRolls, z, base

-----------------------------------------------------------------------------
(* nearestEphemeris() *)

\* The entries of the list that are ahead of tow, and near
Close(list, tow) == {j \in DOMAIN list : list[j].accurate /\ Ahead(list[j], tow) \in 0 .. 2}

LEMMA NearestOf ==
  ASSUME NEW S, NEW list \in Seq(S), NEW tow \in Int,
         \A e \in S : e.t0e \in Int /\ e.accurate \in BOOLEAN
  PROVE  LET i == nearestEphemeris(list, tow)
         IN  /\ Close(list, tow) = {} => i = 0
             /\ Close(list, tow) # {} =>
                  /\ i \in Close(list, tow)
                  /\ \A j \in Close(list, tow) : Ahead(list[i], tow) <= Ahead(list[j], tow)
<1> DEFINE z == Len(list)
           Step(b, i) == IF Nearer(list, tow, i, b) THEN i ELSE b
           G == [i \in 1 .. z |-> [m \in Nat |-> Step(m, i)]]
           Loop(q) == [i \in 0 .. z |-> IF i = 0 THEN 0 ELSE Step(q[i - 1], i)]
<1>1. z \in Nat /\ DOMAIN list = 1 .. z /\ \A i \in 1 .. z : list[i] \in S
  OBVIOUS
<1>2. ASSUME NEW i \in 1 .. z PROVE Ahead(list[i], tow) \in Int /\ list[i].accurate \in BOOLEAN
  BY <1>1 DEF Ahead, HoursOfWeek
<1> HIDE DEF z
<1>3. G \in [1 .. z -> [Nat -> Nat]]
  BY <1>1
<1>4. PICK r \in [0 .. z -> Nat] : Runs(r, z, 0, G)
  <2> HIDE DEF G
  <2>1. z \in Nat /\ 0 \in Nat
    BY <1>1
  <2> QED  BY <1>3, <2>1, LoopRuns
<1>5. r = Loop(r)
  <2>1. ASSUME NEW i \in 1 .. z PROVE r[i] = Step(r[i - 1], i)
    <3>1. r[i - 1] \in Nat
      BY <1>1
    <3> HIDE DEF Step
    <3> QED  BY <1>4, <3>1 DEF Runs
  <2> HIDE DEF Step
  <2> QED  BY <1>1, <1>4, <2>1 DEF Runs
<1> DEFINE p == CHOOSE q : q = Loop(q)
<1>6. p = Loop(p)
  <2> HIDE DEF Loop
  <2> QED  BY <1>5
<1>7. nearestEphemeris(list, tow) = p[z]
  BY DEF nearestEphemeris, p, z
<1> HIDE DEF p, Step
<1>8. p[0] = 0 /\ \A i \in 1 .. z : p[i] = Step(p[i - 1], i)
  <2>1. 0 \in 0 .. z /\ \A i \in 1 .. z : i \in 0 .. z /\ i # 0
    BY <1>1
  <2> QED  BY <1>6, <2>1
<1> DEFINE A(i) == Ahead(list[i], tow)
           C == Close(list, tow)
           T == {n \in 0 .. z : /\ p[n] \in 0 .. n
                                /\ p[n] = 0 => \A j \in 1 .. n : j \notin C
                                /\ p[n] # 0 => p[n] \in C /\ \A j \in 1 .. n : j \in C => A(p[n]) <= A(j)}
<1>9. \A i \in 1 .. z : A(i) \in Int /\ (i \in C <=> list[i].accurate /\ A(i) \in 0 .. 2)
  BY <1>1, <1>2 DEF Close
<1>10. \A i \in 1 .. z : \A b : Nearer(list, tow, i, b) <=> i \in C /\ (b = 0 \/ A(i) < A(b))
  <2> SUFFICES ASSUME NEW i \in 1 .. z, NEW b
               PROVE Nearer(list, tow, i, b) <=> i \in C /\ (b = 0 \/ A(i) < A(b))
    OBVIOUS
  <2>1. i \in C <=> A(i) >= 0 /\ A(i) <= 2 /\ list[i].accurate
    BY <1>9
  <2> HIDE DEF C
  <2> QED  BY <2>1 DEF Nearer
<1> HIDE DEF A, C
<1>11. 0 \in T
  BY <1>1, <1>8
<1>12. ASSUME NEW n \in 0 + 1 .. z, n - 1 \in T PROVE n \in T
  <2>1. n \in 1 .. z /\ n - 1 \in 0 .. z /\ z \in Nat /\ n \in Nat
    BY <1>1
  <2>2. /\ p[n - 1] \in 0 .. n - 1
        /\ p[n - 1] = 0 => \A j \in 1 .. n - 1 : j \notin C
        /\ p[n - 1] # 0 => p[n - 1] \in C /\ \A j \in 1 .. n - 1 : j \in C => A(p[n - 1]) <= A(j)
    BY <1>12
  <2>3. p[n] = Step(p[n - 1], n)
    BY <1>8, <2>1
  <2>4. CASE Nearer(list, tow, n, p[n - 1])
    <3>1. p[n] = n /\ n \in C /\ (p[n - 1] = 0 \/ A(n) < A(p[n - 1]))
      BY <1>10, <2>1, <2>3, <2>4 DEF Step
    <3>2. ASSUME NEW j \in 1 .. n, j \in C PROVE A(n) <= A(j)
      <4>1. CASE j = n
        BY <1>9, <2>1, <4>1
      <4>2. CASE j # n
        <5>1. j \in 1 .. n - 1 /\ j \in 1 .. z
          BY <2>1, <4>2
        <5>2. p[n - 1] # 0 /\ A(p[n - 1]) <= A(j) /\ p[n - 1] \in 1 .. z
          BY <2>1, <2>2, <3>2, <5>1
        <5> QED  BY <1>9, <2>1, <3>1, <5>1, <5>2
      <4> QED  BY <4>1, <4>2
    <3> QED  BY <2>1, <3>1, <3>2
  <2>5. CASE ~Nearer(list, tow, n, p[n - 1])
    <3>1. p[n] = p[n - 1] /\ (n \in C => p[n - 1] # 0 /\ ~(A(n) < A(p[n - 1])))
      BY <1>10, <2>1, <2>3, <2>5 DEF Step
    <3>2. ASSUME p[n] # 0 PROVE A(p[n]) \in Int /\ A(n) \in Int
      <4>1. p[n] \in 1 .. z
        BY <2>1, <2>2, <3>1, <3>2
      <4> QED  BY <1>9, <2>1, <4>1
    <3>3. ASSUME NEW j \in 1 .. n, j \in C PROVE p[n] # 0 /\ A(p[n]) <= A(j)
      <4>1. CASE j = n
        BY <3>1, <3>2, <3>3, <4>1
      <4>2. CASE j # n
        <5>1. j \in 1 .. n - 1
          BY <2>1, <4>2
        <5> QED  BY <2>2, <3>1, <3>3, <5>1
      <4> QED  BY <4>1, <4>2
    <3> QED  BY <2>1, <2>2, <3>1, <3>3
  <2> QED  BY <2>4, <2>5
<1>13. z \in T
  <2> HIDE DEF T
  <2>1. 0 \in Int /\ z \in Int /\ z \in 0 .. z
    BY <1>1
  <2>2. 0 .. z \subseteq T
    BY <1>11, <1>12, <2>1, UpTo
  <2> QED  BY <2>1, <2>2
<1>14. C \subseteq 1 .. z
  BY <1>1 DEF C, Close
<1>15. /\ C = {} => p[z] = 0
       /\ C # {} => p[z] \in C /\ \A j \in C : A(p[z]) <= A(j)
  BY <1>13, <1>14
<1> QED  BY <1>7, <1>15 DEF A, C
-----------------------------------------------------------------------------
(* Navigation files *)

\* What may be in the table: -1 for the true t_0e is for what is read past the end of a file.
AnyEphs ==
  {e \in [sv : Sats[src], t0e : Nat, t0c : Int, week : Int, accurate : BOOLEAN,
          toe : Nat \cup {-1}, toc : Nat, made : SUBSET Nat] :
     e.toe # -1 => /\ e.t0e = e.toe % HoursOfWeek
                   /\ \E i \in DOMAIN Issues[src] : e.toe = Issues[src][i].toe}

\* Tables of ephemerides S, in which the lists of the satellites have what the list has
Tables(S) ==
  {tb \in [ephemeris : Seq(S), sorted : [Sats[src] -> Seq(S)]] :
     \A s \in Sats[src] : \A e \in Held(tb.sorted[s]) : e.sv = s /\ e \in Held(tb.ephemeris)}

\* Records of ephemerides, and those that have the date of theirs
Records ==
  {r \in [sv : Sats[src], day : Int, hour : Int, t0e : Nat, week : Int, accurate : BOOLEAN, of : AnyEphs] :
     r.t0e = r.of.t0e}

HourRight(r) == (r.day % 7) * 24 + r.hour = r.of.toc % HoursOfWeek

LEMMA SeqMore == ASSUME NEW S, NEW R, S \subseteq R, NEW q \in Seq(S) PROVE q \in Seq(R)
<1>1. Len(q) \in Nat /\ DOMAIN q = 1 .. Len(q) /\ q = [i \in 1 .. Len(q) |-> q[i]]
  BY LenProperties
<1>2. \A i \in 1 .. Len(q) : q[i] \in R
  BY ElementOfSeq
<1> QED  BY <1>1, <1>2, SeqDef

LEMMA TablesMore == ASSUME NEW S, NEW R, S \subseteq R PROVE Tables(S) \subseteq Tables(R)
<1> SUFFICES ASSUME NEW tb \in Tables(S) PROVE tb \in Tables(R)
  OBVIOUS
<1>1. /\ tb = [ephemeris |-> tb.ephemeris, sorted |-> tb.sorted]
      /\ tb.ephemeris \in Seq(S) /\ tb.sorted \in [Sats[src] -> Seq(S)]
      /\ \A s \in Sats[src] : \A e \in Held(tb.sorted[s]) : e.sv = s /\ e \in Held(tb.ephemeris)
  BY DEF Tables
<1>2. tb.ephemeris \in Seq(R) /\ \A s \in Sats[src] : tb.sorted[s] \in Seq(R)
  BY <1>1, SeqMore
<1> QED  BY <1>1, <1>2 DEF Tables

LEMMA EmptyIsTable == ASSUME NEW S PROVE EmptyTable(Sats[src]) \in Tables(S) /\ Held(EmptyTable(Sats[src]).ephemeris) = {}
<1>1. << >> \in Seq(S) /\ Held(<< >>) = {}
  BY EmptySeq DEF Held
<1>2. PICK e : e = << >>
  OBVIOUS
<1>3. EmptyTable(Sats[src]) = [ephemeris |-> e, sorted |-> [s \in Sats[src] |-> e]]
  BY <1>2 DEF EmptyTable
<1>4. e \in Seq(S) /\ Held(e) = {}
  BY <1>1, <1>2
<1> QED  BY <1>3, <1>4 DEF Tables

\* addEphemeris() into any table
LEMMA AddedTo ==
  ASSUME NEW S, NEW tb \in Tables(S), NEW ed \in S, ed.sv \in Sats[src]
  PROVE  /\ addEphemeris(tb, ed) \in Tables(S)
         /\ Held(tb.ephemeris) \subseteq Held(addEphemeris(tb, ed).ephemeris)
         /\ \E e \in Held(addEphemeris(tb, ed).ephemeris) : e.sv = ed.sv /\ e.t0e = ed.t0e
<1> DEFINE u == addEphemeris(tb, ed)
           s == ed.sv
<1>1. /\ tb.ephemeris \in Seq(S) /\ tb.sorted \in [Sats[src] -> Seq(S)]
      /\ \A r \in Sats[src] : \A e \in Held(tb.sorted[r]) : e.sv = r /\ e \in Held(tb.ephemeris)
  BY DEF Tables
<1>2. CASE Duplicate(tb, ed)
  <2>1. u = tb
    BY <1>2 DEF addEphemeris
  <2>2. PICK i \in DOMAIN tb.sorted[s] : tb.sorted[s][i].t0e = ed.t0e
    BY <1>2 DEF Duplicate
  <2>3. tb.sorted[s][i] \in Held(tb.sorted[s])
    BY DEF Held
  <2>4. tb.sorted[s][i] \in Held(tb.ephemeris) /\ tb.sorted[s][i].sv = s
    BY <1>1, <2>3
  <2> QED  BY <2>1, <2>2, <2>4
<1>3. CASE ~Duplicate(tb, ed)
  <2>1. u = [ephemeris |-> InsertByT0c(tb.ephemeris, ed),
             sorted |-> [r \in Sats[src] |-> IF r = s THEN InsertByT0c(tb.sorted[r], ed) ELSE tb.sorted[r]]]
    BY <1>1, <1>3 DEF addEphemeris
  <2>2. u.ephemeris \in Seq(S) /\ Held(u.ephemeris) = Held(tb.ephemeris) \cup {ed}
    BY <1>1, <2>1, Inserted
  <2>3. /\ InsertByT0c(tb.sorted[s], ed) \in Seq(S)
        /\ Held(InsertByT0c(tb.sorted[s], ed)) = Held(tb.sorted[s]) \cup {ed}
    BY <1>1, Inserted
  <2> HIDE DEF u
  <2>4. ASSUME NEW r \in Sats[src]
        PROVE  /\ u.sorted[r] \in Seq(S)
               /\ Held(u.sorted[r]) \subseteq Held(tb.sorted[r]) \cup (IF r = s THEN {ed} ELSE {})
    <3>1. u.sorted[r] = IF r = s THEN InsertByT0c(tb.sorted[r], ed) ELSE tb.sorted[r]
      BY <2>1
    <3>2. tb.sorted[r] \in Seq(S)
      BY <1>1
    <3>3. CASE r = s
      BY <2>3, <3>1, <3>3
    <3>4. CASE r # s
      BY <3>1, <3>2, <3>4
    <3> QED  BY <3>3, <3>4
  <2>5. u \in [ephemeris : Seq(S), sorted : [Sats[src] -> Seq(S)]]
    <3>1. u = [ephemeris |-> u.ephemeris, sorted |-> u.sorted] /\ u.sorted = [r \in Sats[src] |-> u.sorted[r]]
      BY <2>1
    <3>2. u.sorted \in [Sats[src] -> Seq(S)]
      BY <2>4, <3>1
    <3> QED  BY <2>2, <3>1, <3>2
  <2>6. ASSUME NEW r \in Sats[src], NEW e \in Held(u.sorted[r])
        PROVE  e.sv = r /\ e \in Held(u.ephemeris)
    BY <1>1, <2>2, <2>4
  <2>7. u \in Tables(S)
    BY <2>5, <2>6 DEF Tables
  <2> QED  BY <2>2, <2>7 DEF u
<1> QED  BY <1>2, <1>3

\* What may come of reading records
ReadOf(records) == {EphemerisOf(records[i]) : i \in DOMAIN records} \cup {PastTheEnd(records[i]) : i \in DOMAIN records}

\* tb has an ephemeris of the first n records each
HasRead(tb, records, n) ==
  \A i \in 1 .. n : \E e \in Held(tb.ephemeris) : e.sv = records[i].sv /\ e.t0e = records[i].t0e

LEMMA ReadKept ==
  ASSUME NEW tb, NEW u, NEW records, NEW n, Held(tb.ephemeris) \subseteq Held(u.ephemeris), HasRead(tb, records, n)
  PROVE  HasRead(u, records, n)
BY DEF HasRead

LEMMA FileRead ==
  ASSUME NEW records \in Seq(Records), NEW tb \in Readings(records)
  PROVE  tb \in Tables(ReadOf(records)) /\ HasRead(tb, records, Len(records))
<1> DEFINE z == Len(records)
           S == ReadOf(records)
           base == EmptyTable(Sats[src])
           Step(t, i) == addEphemeris(t, EphemerisOf(records[i]))
           G == [i \in 1 .. z |-> [t \in Tables(S) |-> Step(t, i)]]
           Loop(q) == [i \in 0 .. z |-> IF i = 0 THEN base ELSE Step(q[i - 1], i)]
<1>1. z \in Nat /\ DOMAIN records = 1 .. z /\ \A i \in 1 .. z : records[i] \in Records
  OBVIOUS
<1>2. base \in Tables(S)
  BY EmptyIsTable
<1>3. ASSUME NEW i \in 1 .. z
      PROVE  /\ EphemerisOf(records[i]) \in S /\ EphemerisOf(records[i]).sv \in Sats[src]
             /\ EphemerisOf(records[i]).sv = records[i].sv /\ EphemerisOf(records[i]).t0e = records[i].t0e
             /\ PastTheEnd(records[i]) \in S /\ PastTheEnd(records[i]).sv \in Sats[src]
  <2>1. records[i].sv \in Sats[src]
    BY <1>1 DEF Records
  <2>2. EphemerisOf(records[i]) \in S /\ PastTheEnd(records[i]) \in S
    BY <1>1 DEF ReadOf
  <2>3. EphemerisOf(records[i]).sv = records[i].sv /\ EphemerisOf(records[i]).t0e = records[i].t0e
    BY DEF EphemerisOf
  <2>4. PastTheEnd(records[i]).sv = records[i].sv
    BY DEF PastTheEnd, EphemerisOf
  <2> QED  BY <2>1, <2>2, <2>3, <2>4
<1> HIDE DEF z, S, base
<1>4. ASSUME NEW i \in 1 .. z, NEW t \in Tables(S)
      PROVE  /\ Step(t, i) \in Tables(S) /\ Held(t.ephemeris) \subseteq Held(Step(t, i).ephemeris)
             /\ \E e \in Held(Step(t, i).ephemeris) : e.sv = records[i].sv /\ e.t0e = records[i].t0e
  <2>1. PICK ed : ed = EphemerisOf(records[i])
    OBVIOUS
  <2>2. ed \in S /\ ed.sv \in Sats[src] /\ ed.sv = records[i].sv /\ ed.t0e = records[i].t0e
    BY <1>3, <2>1
  <2>3. /\ addEphemeris(t, ed) \in Tables(S) /\ Held(t.ephemeris) \subseteq Held(addEphemeris(t, ed).ephemeris)
        /\ \E e \in Held(addEphemeris(t, ed).ephemeris) : e.sv = ed.sv /\ e.t0e = ed.t0e
    BY <2>2, AddedTo
  <2> QED  BY <2>1, <2>2, <2>3
<1> HIDE DEF Step
<1>5. G \in [1 .. z -> [Tables(S) -> Tables(S)]]
  BY <1>4
<1>6. PICK r \in [0 .. z -> Tables(S)] : Runs(r, z, base, G)
  <2> HIDE DEF G
  <2>1. z \in Nat
    BY <1>1
  <2> QED  BY <1>2, <1>5, <2>1, LoopRuns
<1>7. r = Loop(r)
  <2>1. ASSUME NEW i \in 1 .. z PROVE r[i] = Step(r[i - 1], i)
    <3>1. r[i - 1] \in Tables(S)
      BY <1>1
    <3> QED  BY <1>6, <3>1 DEF Runs
  <2> QED  BY <1>1, <1>6, <2>1 DEF Runs
<1> DEFINE p == CHOOSE q : q = Loop(q)
<1>8. p = Loop(p)
  <2> HIDE DEF Loop
  <2> QED  BY <1>7
<1>9. Readings(records) = {p[z]} \cup (IF z = 0 THEN {} ELSE {addEphemeris(p[z], PastTheEnd(records[z]))})
  BY DEF Readings, Step, p, z, base
<1> HIDE DEF p
<1>10. p[0] = base /\ \A i \in 1 .. z : p[i] = Step(p[i - 1], i)
  <2>1. 0 \in 0 .. z /\ \A i \in 1 .. z : i \in 0 .. z /\ i # 0
    BY <1>1
  <2> QED  BY <1>8, <2>1
<1> DEFINE T == {n \in 0 .. z : p[n] \in Tables(S) /\ HasRead(p[n], records, n)}
<1>11. 0 \in T
  BY <1>1, <1>2, <1>10 DEF HasRead
<1>12. ASSUME NEW n \in 0 + 1 .. z, n - 1 \in T PROVE n \in T
  <2>1. n \in 1 .. z /\ n \in 0 .. z /\ p[n - 1] \in Tables(S) /\ HasRead(p[n - 1], records, n - 1)
    BY <1>1, <1>12
  <2>2. /\ p[n] \in Tables(S) /\ Held(p[n - 1].ephemeris) \subseteq Held(p[n].ephemeris)
        /\ \E e \in Held(p[n].ephemeris) : e.sv = records[n].sv /\ e.t0e = records[n].t0e
    <3>1. PICK t \in Tables(S) : t = p[n - 1] /\ p[n] = Step(t, n)
      BY <1>10, <2>1
    <3> QED  BY <1>4, <2>1, <3>1
  <2>3. HasRead(p[n], records, n - 1)
    BY <2>1, <2>2, ReadKept
  <2>4. HasRead(p[n], records, n)
    <3> SUFFICES ASSUME NEW i \in 1 .. n
                 PROVE \E e \in Held(p[n].ephemeris) : e.sv = records[i].sv /\ e.t0e = records[i].t0e
      BY DEF HasRead
    <3>1. CASE i = n
      BY <2>2, <3>1
    <3>2. CASE i # n
      <4>1. i \in 1 .. n - 1
        BY <2>1, <3>2
      <4> QED  BY <2>3, <4>1 DEF HasRead
    <3> QED  BY <3>1, <3>2
  <2> QED  BY <2>1, <2>2, <2>4
<1>13. p[z] \in Tables(S) /\ HasRead(p[z], records, z)
  <2>1. 0 \in Int /\ z \in Int /\ z \in 0 .. z
    BY <1>1
  <2>2. z \in T
    <3> HIDE DEF T
    <3>1. 0 .. z \subseteq T
      BY <1>11, <1>12, <2>1, UpTo
    <3> QED  BY <2>1, <3>1
  <2> QED  BY <2>2
<1>14. CASE tb = p[z]
  BY <1>13, <1>14 DEF z, S
<1>15. CASE z # 0 /\ tb = addEphemeris(p[z], PastTheEnd(records[z]))
  <2>1. z \in 1 .. z
    BY <1>1, <1>15
  <2>2. PICK ed, t : ed = PastTheEnd(records[z]) /\ t = p[z]
    OBVIOUS
  <2>3. ed \in S /\ ed.sv \in Sats[src] /\ t \in Tables(S) /\ HasRead(t, records, z)
    BY <1>3, <1>13, <2>1, <2>2
  <2>4. tb \in Tables(S) /\ Held(t.ephemeris) \subseteq Held(tb.ephemeris)
    BY <1>15, <2>2, <2>3, AddedTo
  <2>5. HasRead(tb, records, z)
    BY <2>3, <2>4, ReadKept
  <2> QED  BY <2>4, <2>5 DEF z, S
<1> QED  BY <1>9, <1>14, <1>15

LEMMA DayAndHour ==
  ASSUME NEW n \in Int
  PROVE  ((n \div 24) % 7) * 24 + ((n % 168) % 24) = n % 168
<1> DEFINE d == n \div 24
           h == n % 24
           k == d \div 7
           j == d % 7
<1>1. d \in Int /\ h \in 0 .. 23 /\ n = 24 * d + h
  OBVIOUS
<1> HIDE DEF d, h
<1>2. k \in Int /\ j \in 0 .. 6 /\ d = 7 * k + j
  BY <1>1
<1> HIDE DEF k, j
<1>3. n = 168 * k + (24 * j + h) /\ 24 * j + h \in 0 .. 167
  BY <1>1, <1>2
<1>4. n % 168 = 24 * j + h
  BY <1>2, <1>3
<1>5. (24 * j + h) % 24 = h
  BY <1>1, <1>2
<1> QED  BY <1>4, <1>5 DEF d, j

LEMMA GoodEphs == Ephs \subseteq AnyEphs
BY DEF Ephs, AnyEphs

\* The record that is written of an ephemeris
LEMMA RecordOf ==
  ASSUME NEW ed \in AnyEphs, NEW abs \in Int
  PROVE  /\ Record(ed, abs) \in Records /\ Record(ed, abs).of = ed
         /\ ed.t0c = ed.toc % HoursOfWeek /\ abs % HoursOfWeek = ed.t0c => HourRight(Record(ed, abs))
<1> DEFINE r == Record(ed, abs)
<1>1. /\ r = [sv |-> ed.sv, day |-> abs \div 24, hour |-> ed.t0c % 24, t0e |-> ed.t0e,
              week |-> abs \div HoursOfWeek, accurate |-> ed.accurate, of |-> ed]
      /\ ed.sv \in Sats[src] /\ ed.t0e \in Nat /\ ed.t0c \in Int /\ ed.accurate \in BOOLEAN
  BY DEF Record, AnyEphs
<1>2. abs \div 24 \in Int /\ ed.t0c % 24 \in Int /\ abs \div HoursOfWeek \in Int
  BY <1>1 DEF HoursOfWeek
<1>3. r \in Records /\ r.of = ed
  BY <1>1, <1>2 DEF Records
<1>4. ASSUME ed.t0c = ed.toc % HoursOfWeek, abs % HoursOfWeek = ed.t0c PROVE HourRight(r)
  <2>1. ((abs \div 24) % 7) * 24 + ((abs % 168) % 24) = abs % 168
    BY DayAndHour
  <2>2. r.day = abs \div 24 /\ r.hour = (abs % 168) % 24 /\ r.of.toc % HoursOfWeek = abs % 168
    BY <1>1, <1>4 DEF HoursOfWeek
  <2> HIDE DEF r
  <2> QED  BY <2>1, <2>2 DEF HourRight
<1> QED  BY <1>3, <1>4

LEMMA EphemerisRead ==
  ASSUME NEW r \in Records
  PROVE  /\ EphemerisOf(r) \in AnyEphs /\ PastTheEnd(r) \in AnyEphs /\ PastTheEnd(r).toe = -1
         /\ HourRight(r) => EphemerisOf(r).t0c = EphemerisOf(r).toc % HoursOfWeek
<1>1. /\ r.sv \in Sats[src] /\ r.day \in Int /\ r.hour \in Int /\ r.t0e \in Nat /\ r.week \in Int
      /\ r.accurate \in BOOLEAN /\ r.of \in AnyEphs /\ r.t0e = r.of.t0e
  BY DEF Records
<1>2. PICK e : e = r.of
  OBVIOUS
<1>3. /\ e.toe \in Nat \cup {-1} /\ e.toc \in Nat /\ e.made \in SUBSET Nat
      /\ e.toe # -1 => /\ e.t0e = e.toe % HoursOfWeek
                       /\ \E i \in DOMAIN Issues[src] : e.toe = Issues[src][i].toe
  BY <1>1, <1>2 DEF AnyEphs
<1>4. (r.day % 7) * 24 + r.hour \in Int /\ r.week % 1024 \in Int
  BY <1>1
<1>5. EphemerisOf(r) = [sv |-> r.sv, t0e |-> r.t0e, t0c |-> (r.day % 7) * 24 + r.hour,
                        week |-> r.week % 1024, accurate |-> r.accurate,
                        toe |-> e.toe, toc |-> e.toc, made |-> e.made]
  BY <1>2 DEF EphemerisOf
<1>6. PastTheEnd(r) = [sv |-> r.sv, t0e |-> 0, t0c |-> (r.day % 7) * 24 + r.hour,
                       week |-> 0, accurate |-> r.accurate,
                       toe |-> -1, toc |-> e.toc, made |-> e.made]
  <2>1. PICK a : a = EphemerisOf(r)
    OBVIOUS
  <2>2. PastTheEnd(r) = [a EXCEPT !.t0e = 0, !.week = 0, !.toe = -1]
    BY <2>1 DEF PastTheEnd
  <2>3. PICK c, v, y, o, u, m : c = (r.day % 7) * 24 + r.hour /\ v = r.sv /\ y = r.accurate
                                /\ o = e.toe /\ u = e.toc /\ m = e.made
    OBVIOUS
  <2>4. PICK w, x : w = r.week % 1024 /\ x = r.t0e
    OBVIOUS
  <2>5. a = [sv |-> v, t0e |-> x, t0c |-> c, week |-> w, accurate |-> y, toe |-> o, toc |-> u, made |-> m]
    BY <1>5, <2>1, <2>3, <2>4
  <2>6. PICK b : b = [a EXCEPT !.t0e = 0]
    OBVIOUS
  <2>7. PICK d : d = [b EXCEPT !.week = 0]
    OBVIOUS
  <2>8. PastTheEnd(r) = [d EXCEPT !.toe = -1]
    <3>1. [a EXCEPT !.t0e = 0, !.week = 0, !.toe = -1] = [[[a EXCEPT !.t0e = 0] EXCEPT !.week = 0] EXCEPT !.toe = -1]
      OBVIOUS
    <3> QED  BY <2>2, <2>6, <2>7, <3>1
  <2>9. b = [sv |-> v, t0e |-> 0, t0c |-> c, week |-> w, accurate |-> y, toe |-> o, toc |-> u, made |-> m]
    BY ONLY <2>5, <2>6
  <2>10. d = [sv |-> v, t0e |-> 0, t0c |-> c, week |-> 0, accurate |-> y, toe |-> o, toc |-> u, made |-> m]
    BY ONLY <2>7, <2>9
  <2>11. [d EXCEPT !.toe = -1] =
           [sv |-> v, t0e |-> 0, t0c |-> c, week |-> 0, accurate |-> y, toe |-> -1, toc |-> u, made |-> m]
    BY ONLY <2>10
  <2> QED  BY <2>3, <2>8, <2>11
<1>7. EphemerisOf(r) \in AnyEphs
  BY <1>1, <1>2, <1>3, <1>4, <1>5 DEF AnyEphs
<1>8. PastTheEnd(r) \in AnyEphs /\ PastTheEnd(r).toe = -1
  BY <1>1, <1>3, <1>4, <1>6 DEF AnyEphs
<1>9. HourRight(r) => EphemerisOf(r).t0c = EphemerisOf(r).toc % HoursOfWeek
  BY <1>2, <1>5 DEF HourRight
<1> QED  BY <1>7, <1>8, <1>9

\* What is true of what is read of records
LEMMA RecordsRead ==
  ASSUME NEW records \in Seq(Records), NEW tb \in Readings(records)
  PROVE  /\ tb \in Tables(AnyEphs) /\ HasRead(tb, records, Len(records))
         /\ (\A i \in DOMAIN records : HourRight(records[i])) =>
               \A e \in Held(tb.ephemeris) : e.toe # -1 => e.t0c = e.toc % HoursOfWeek
<1>1. tb \in Tables(ReadOf(records)) /\ HasRead(tb, records, Len(records))
  BY FileRead
<1>2. \A i \in DOMAIN records : records[i] \in Records
  BY ElementOfSeq, LenProperties
<1>3. ReadOf(records) \subseteq AnyEphs
  BY <1>2, EphemerisRead DEF ReadOf
<1>4. tb \in Tables(AnyEphs)
  BY <1>1, <1>3, TablesMore
<1>5. Held(tb.ephemeris) \subseteq ReadOf(records)
  <2>1. tb.ephemeris \in Seq(ReadOf(records))
    BY <1>1 DEF Tables
  <2>2. \A i \in DOMAIN tb.ephemeris : tb.ephemeris[i] \in ReadOf(records)
    BY <2>1, ElementOfSeq, LenProperties
  <2> QED  BY <2>2 DEF Held
<1>6. ASSUME \A i \in DOMAIN records : HourRight(records[i]), NEW e \in Held(tb.ephemeris), e.toe # -1
      PROVE  e.t0c = e.toc % HoursOfWeek
  <2>1. PICK i \in DOMAIN records : e = EphemerisOf(records[i]) \/ e = PastTheEnd(records[i])
    BY <1>5 DEF ReadOf
  <2>2. records[i] \in Records /\ HourRight(records[i])
    BY <1>2, <1>6
  <2> QED  BY <1>6, <2>1, <2>2, EphemerisRead
<1> QED  BY <1>1, <1>4, <1>6

LEMMA SentTyped ==
  ASSUME src \in Sources
  PROVE  SentToday \in Seq(DOMAIN Issues[src])
<1> DEFINE z == Len(Issues[src])
           D == DOMAIN Issues[src]
           base == << >>
           Step(q, i) == IF Issues[src][i].sent \cap Days[day] = {} THEN q ELSE Append(q, i)
           G == [i \in 1 .. z |-> [q \in Seq(D) |-> Step(q, i)]]
           Loop(f) == [i \in 0 .. z |-> IF i = 0 THEN base ELSE Step(f[i - 1], i)]
<1>1. z \in Nat /\ D = 1 .. z
  <2>1. \E S : Issues[src] \in Seq(S)
    BY IssuesAssumption
  <2> QED  BY <2>1, LenProperties
<1>2. base \in Seq(D)
  OBVIOUS
<1> HIDE DEF z, D, base
<1>3. \A i \in 1 .. z, q \in Seq(D) : Step(q, i) \in Seq(D)
  <2> SUFFICES ASSUME NEW i \in D, NEW q \in Seq(D) PROVE Step(q, i) \in Seq(D)
    BY <1>1
  <2>1. Append(q, i) \in Seq(D)
    BY AppendProperties
  <2> QED  BY <2>1
<1> HIDE DEF Step
<1>4. G \in [1 .. z -> [Seq(D) -> Seq(D)]]
  BY <1>3
<1>5. PICK r \in [0 .. z -> Seq(D)] : Runs(r, z, base, G)
  <2> HIDE DEF G
  <2>1. z \in Nat
    BY <1>1
  <2> QED  BY <1>2, <1>4, <2>1, LoopRuns
<1>6. r = Loop(r)
  <2>1. ASSUME NEW i \in 1 .. z PROVE r[i] = Step(r[i - 1], i)
    <3>1. r[i - 1] \in Seq(D)
      BY <1>1
    <3> QED  BY <1>5, <3>1 DEF Runs
  <2> QED  BY <1>1, <1>5, <2>1 DEF Runs
<1> DEFINE p == CHOOSE f : f = Loop(f)
<1>7. p = Loop(p)
  <2> HIDE DEF Loop
  <2> QED  BY <1>6
<1>8. SentToday = p[z]
  BY DEF SentToday, Step, p, z, base
<1> HIDE DEF p
<1>9. p[0] = base /\ \A i \in 1 .. z : p[i] = Step(p[i - 1], i)
  <2>1. 0 \in 0 .. z /\ \A i \in 1 .. z : i \in 0 .. z /\ i # 0
    BY <1>1
  <2> QED  BY <1>7, <2>1
<1>10. \A i \in 0 .. z : p[i] \in Seq(D)
  <2>1. z \in Nat /\ p[0] \in Seq(D) /\ \A i \in 1 .. z : p[i - 1] \in Seq(D) => p[i] \in Seq(D)
    BY <1>1, <1>2, <1>3, <1>9
  <2> QED  BY <2>1, LoopTyped
<1> QED  BY <1>1, <1>8, <1>10 DEF D

\* The user's file has records of this day's issues, with their dates.
LEMMA UserRecords ==
  ASSUME Types, NEW ver
  PROVE  LET records == UserFile(ver).records
         IN  records \in Seq(Records) /\ \A i \in DOMAIN records : HourRight(records[i])
<1>1. src \in Sources /\ Sats[src] # {}
  BY FilesAssumption DEF Types
<1> DEFINE s == CHOOSE r \in Sats[src] : TRUE
           q == SentToday
           eph(i) == Ephemeris(s, i, i, WeekOf(Issues[src][i].toe), {i})
           records == [n \in DOMAIN q |-> Record(eph(q[n]), Issues[src][q[n]].toc)]
<1>2. s \in Sats[src]
  BY <1>1
<1>3. q \in Seq(DOMAIN Issues[src])
  BY <1>1, SentTyped
<1>4. Len(q) \in Nat /\ DOMAIN q = 1 .. Len(q) /\ \A n \in DOMAIN q : q[n] \in DOMAIN Issues[src]
  BY <1>3, LenProperties, ElementOfSeq
<1>5. UserFile(ver).records = records
  BY DEF UserFile
<1> HIDE DEF q
<1>6. ASSUME NEW i \in DOMAIN Issues[src]
      PROVE  Record(eph(i), Issues[src][i].toc) \in Records /\ HourRight(Record(eph(i), Issues[src][i].toc))
  <2>1. PICK o : o = Issues[src][i]
    OBVIOUS
  <2>2. o \in [toe : Nat, toc : Nat, sent : SUBSET Nat, accurate : BOOLEAN] /\ i \in Nat
    <3>1. PICK R : R = [toe : Nat, toc : Nat, sent : SUBSET Nat, accurate : BOOLEAN]
      OBVIOUS
    <3>2. Issues[src] \in Seq(R)
      BY <1>1, <3>1, IssuesAssumption
    <3>3. Issues[src][i] \in R /\ i \in Nat
      BY <3>2, ElementOfSeq, LenProperties
    <3> QED  BY <2>1, <3>1, <3>3
  <2>3. o.toe \in Nat /\ o.toc \in Nat /\ WeekOf(o.toe) \in Int
    BY <2>2, Weeks
  <2>4. PICK w : w = WeekOf(Issues[src][i].toe)
    OBVIOUS
  <2>5. w \in Int
    BY <2>1, <2>3, <2>4
  <2>6. Ephemeris(s, i, i, w, {i}) \in Ephs
    BY <1>2, <2>2, <2>5, EphemerisOfIssue
  <2>7. eph(i) = Ephemeris(s, i, i, w, {i})
    BY <2>4
  <2>8. eph(i).t0c = o.toc % HoursOfWeek /\ eph(i).toc = o.toc
    BY <2>1 DEF Ephemeris
  <2> HIDE DEF eph
  <2>9. eph(i) \in AnyEphs
    BY <2>6, <2>7, GoodEphs
  <2> QED  BY <2>1, <2>3, <2>8, <2>9, RecordOf
<1> HIDE DEF eph, s
<1>7. records \in Seq(Records)
  <2>1. \A n \in 1 .. Len(q) : records[n] \in Records
    BY <1>4, <1>6
  <2>2. records = [n \in 1 .. Len(q) |-> records[n]]
    BY <1>4
  <2> HIDE DEF records
  <2> QED  BY <1>4, <2>1, <2>2, SeqDef
<1>8. \A n \in DOMAIN records : HourRight(records[n])
  BY <1>4, <1>6
<1> QED  BY <1>5, <1>7, <1>8

-----------------------------------------------------------------------------
(* The mixed file *)

MergeStep(gal, gps, n, taken) == IF FromGalileo(gal, gps, n, taken) THEN taken + 1 ELSE taken

Merged(gal, gps, g, n) ==
  IF g[n] = g[n - 1] THEN [sys |-> "G", abs |-> gps[n - g[n]]] ELSE [sys |-> "E", abs |-> gal[g[n]]]

\* InTimeOrder() entry by entry
Merges(gal, gps, g) ==
  /\ g[0] = 0
  /\ \A n \in 1 .. Len(gal) + Len(gps) : g[n] = MergeStep(gal, gps, n, g[n - 1])
  /\ \A n \in 0 .. Len(gal) + Len(gps) : g[n] \in 0 .. Len(gal) /\ n - g[n] \in 0 .. Len(gps)
  /\ InTimeOrder(gal, gps) = [n \in 1 .. Len(gal) + Len(gps) |-> Merged(gal, gps, g, n)]

LEMMA MergeRuns ==
  ASSUME NEW gal \in Seq(Int), NEW gps \in Seq(Int)
  PROVE  \E g : Merges(gal, gps, g)
<1> DEFINE A == Len(gal)
           B == Len(gps)
           z == Len(gal) + Len(gps)
           Step(m, n) == MergeStep(gal, gps, n, m)
           G == [n \in 1 .. z |-> [m \in Nat |-> Step(m, n)]]
           Loop(q) == [n \in 0 .. z |-> IF n = 0 THEN 0 ELSE Step(q[n - 1], n)]
<1>1. A \in Nat /\ B \in Nat /\ z \in Nat /\ z = A + B
  OBVIOUS
<1>2. \A m \in Nat : \A n : Step(m, n) \in Nat
  BY DEF MergeStep
<1> HIDE DEF A, B, z, Step
<1>3. G \in [1 .. z -> [Nat -> Nat]]
  BY <1>2
<1>4. PICK r \in [0 .. z -> Nat] : Runs(r, z, 0, G)
  <2> HIDE DEF G
  <2>1. z \in Nat /\ 0 \in Nat
    BY <1>1
  <2> QED  BY <1>3, <2>1, LoopRuns
<1>5. r = Loop(r)
  <2>1. ASSUME NEW n \in 1 .. z PROVE r[n] = Step(r[n - 1], n)
    <3>1. r[n - 1] \in Nat
      BY <1>1
    <3> QED  BY <1>4, <3>1 DEF Runs
  <2> QED  BY <1>1, <1>4, <2>1 DEF Runs
<1> DEFINE p == CHOOSE q : q = Loop(q)
<1>6. p = Loop(p)
  <2> HIDE DEF Loop
  <2> QED  BY <1>5
<1>7. InTimeOrder(gal, gps) = [n \in 1 .. Len(gal) + Len(gps) |-> Merged(gal, gps, p, n)]
  BY DEF InTimeOrder, Merged, MergeStep, p, z, Step
<1> HIDE DEF p
<1>8. p[0] = 0 /\ \A n \in 1 .. z : p[n] = Step(p[n - 1], n)
  <2>1. 0 \in 0 .. z /\ \A n \in 1 .. z : n \in 0 .. z /\ n # 0
    BY <1>1
  <2> QED  BY <1>6, <2>1
<1> DEFINE T == {n \in 0 .. z : p[n] \in 0 .. A /\ n - p[n] \in 0 .. B}
<1>9. 0 \in T
  BY <1>1, <1>8
<1>10. ASSUME NEW n \in 0 + 1 .. z, n - 1 \in T PROVE n \in T
  <2>1. n \in 1 .. z /\ n \in 0 .. z /\ z = A + B /\ A \in Nat /\ B \in Nat
    BY <1>1
  <2>2. PICK t : t = p[n - 1]
    OBVIOUS
  <2>3. t \in 0 .. A /\ (n - 1) - t \in 0 .. B
    BY <1>10, <2>2
  <2>4. p[n] = IF FromGalileo(gal, gps, n, t) THEN t + 1 ELSE t
    BY <1>8, <2>1, <2>2 DEF Step, MergeStep
  <2>5. CASE FromGalileo(gal, gps, n, t)
    <3>1. t < A
      BY <2>5 DEF FromGalileo, A
    <3>2. p[n] = t + 1
      BY <2>4, <2>5
    <3>3. p[n] \in 0 .. A /\ n - p[n] = (n - 1) - t
      BY <2>1, <2>3, <3>1, <3>2
    <3> QED  BY <2>1, <2>3, <3>3
  <2>6. CASE ~FromGalileo(gal, gps, n, t)
    <3>1. t >= A \/ n - t <= B
      BY <2>1, <2>3, <2>6 DEF FromGalileo, A, B
    <3>2. p[n] = t
      BY <2>4, <2>6
    <3>3. n - t \in 0 .. B
      BY <2>1, <2>3, <3>1
    <3> QED  BY <2>1, <2>3, <3>2, <3>3
  <2> QED  BY <2>5, <2>6
<1>11. 0 .. z \subseteq T
  <2> HIDE DEF T
  <2>1. 0 \in Int /\ z \in Int
    BY <1>1
  <2> QED  BY <1>9, <1>10, <2>1, UpTo
<1>12. \A n \in 0 .. z : p[n] \in 0 .. A /\ n - p[n] \in 0 .. B
  BY <1>11
<1> QED  BY <1>7, <1>8, <1>12 DEF Merges, A, B, z, Step

\* What an entry is, and which of the two lists it comes from
LEMMA MergedIs ==
  ASSUME NEW gal \in Seq(Int), NEW gps \in Seq(Int), NEW g, Merges(gal, gps, g),
         NEW n \in 1 .. Len(gal) + Len(gps)
  PROVE  LET e == Merged(gal, gps, g, n)
         IN  \/ /\ g[n] = g[n - 1] + 1 /\ g[n] \in 1 .. Len(gal)
                /\ e.sys = "E" /\ e.abs = gal[g[n]] /\ e.abs \in Int
                /\ n - g[n] < Len(gps) => gal[g[n]] <= gps[n - g[n] + 1]
             \/ /\ g[n] = g[n - 1] /\ n - g[n] \in 1 .. Len(gps)
                /\ e.sys = "G" /\ e.abs = gps[n - g[n]] /\ e.abs \in Int
                /\ g[n] < Len(gal) => gps[n - g[n]] <= gal[g[n] + 1]
<1> DEFINE t == g[n - 1]
<1>1. /\ Len(gal) \in Nat /\ Len(gps) \in Nat /\ n \in Nat /\ n - 1 \in 0 .. Len(gal) + Len(gps)
      /\ n \in 0 .. Len(gal) + Len(gps)
      /\ \A i \in 1 .. Len(gal) : gal[i] \in Int
      /\ \A i \in 1 .. Len(gps) : gps[i] \in Int
  OBVIOUS
<1>2. t \in 0 .. Len(gal) /\ (n - 1) - t \in 0 .. Len(gps) /\ n - g[n] \in 0 .. Len(gps) /\ g[n] \in 0 .. Len(gal)
  BY <1>1 DEF Merges
<1>3. g[n] = IF FromGalileo(gal, gps, n, t) THEN t + 1 ELSE t
  BY DEF Merges, MergeStep
<1> HIDE DEF t
<1>4. CASE FromGalileo(gal, gps, n, t)
  <2>1. g[n] = t + 1 /\ t < Len(gal) /\ (n - t > Len(gps) \/ gal[t + 1] < gps[n - t])
    BY <1>3, <1>4 DEF FromGalileo
  <2>2. g[n] \in 1 .. Len(gal) /\ g[n] # t /\ gal[g[n]] \in Int
    BY <1>1, <1>2, <2>1
  <2>3. Merged(gal, gps, g, n) = [sys |-> "E", abs |-> gal[g[n]]]
    BY <2>2 DEF Merged, t
  <2>4. n - g[n] < Len(gps) => gal[g[n]] <= gps[n - g[n] + 1]
    <3> SUFFICES ASSUME n - g[n] < Len(gps) PROVE gal[g[n]] <= gps[n - g[n] + 1]
      OBVIOUS
    <3>1. n - t = n - g[n] + 1 /\ n - t \in 1 .. Len(gps) /\ ~(n - t > Len(gps))
      BY <1>1, <1>2, <2>1
    <3>2. gps[n - t] \in Int /\ gal[g[n]] < gps[n - t]
      BY <1>1, <2>1, <3>1
    <3> QED  BY <2>2, <3>1, <3>2
  <2> QED  BY <2>1, <2>2, <2>3, <2>4 DEF t
<1>5. CASE ~FromGalileo(gal, gps, n, t)
  <2>1. g[n] = t
    BY <1>3, <1>5
  <2>2. n - g[n] \in 1 .. Len(gps)
    BY <1>1, <1>2, <2>1
  <2>3. gps[n - g[n]] \in Int
    BY <1>1, <2>2
  <2>4. Merged(gal, gps, g, n) = [sys |-> "G", abs |-> gps[n - g[n]]]
    BY <2>1 DEF Merged, t
  <2>5. g[n] < Len(gal) => gps[n - g[n]] <= gal[g[n] + 1]
    <3> SUFFICES ASSUME g[n] < Len(gal) PROVE gps[n - g[n]] <= gal[g[n] + 1]
      OBVIOUS
    <3>1. gal[g[n] + 1] \in Int
      BY <1>1, <1>2
    <3>2. ~(gal[g[n] + 1] < gps[n - g[n]])
      BY <1>5, <2>1 DEF FromGalileo
    <3> QED  BY <2>3, <3>1, <3>2
  <2> QED  BY <2>1, <2>2, <2>3, <2>4, <2>5 DEF t
<1> QED  BY <1>4, <1>5

\* The entries of a constellation among the first n
Of(q, n, sys) == {i \in 1 .. n : q[i].sys = sys}

LEMMA OfNext ==
  ASSUME NEW q, NEW n \in Nat \ {0}, NEW sys, IsFiniteSet(Of(q, n - 1, sys))
  PROVE  /\ IsFiniteSet(Of(q, n, sys))
         /\ q[n].sys = sys => Cardinality(Of(q, n, sys)) = Cardinality(Of(q, n - 1, sys)) + 1
         /\ q[n].sys # sys => Cardinality(Of(q, n, sys)) = Cardinality(Of(q, n - 1, sys))
<1>1. n \notin Of(q, n - 1, sys)
  BY DEF Of
<1>2. CASE q[n].sys = sys
  <2>1. Of(q, n, sys) = Of(q, n - 1, sys) \cup {n}
    BY <1>2 DEF Of
  <2> QED  BY <1>1, <1>2, <2>1, FS_AddElement
<1>3. CASE q[n].sys # sys
  <2>1. Of(q, n, sys) = Of(q, n - 1, sys)
    BY <1>3 DEF Of
  <2> QED  BY <1>3, <2>1
<1> QED  BY <1>2, <1>3

\* Each constellation's entries are those of its list, in turn.
LEMMA MergedCounts ==
  ASSUME NEW gal \in Seq(Int), NEW gps \in Seq(Int), NEW g, Merges(gal, gps, g),
         NEW q, q = InTimeOrder(gal, gps), NEW n \in 0 .. Len(gal) + Len(gps)
  PROVE  Cardinality(Of(q, n, "E")) = g[n] /\ Cardinality(Of(q, n, "G")) = n - g[n]
<1> DEFINE z == Len(gal) + Len(gps)
           C(m, s) == Cardinality(Of(q, m, s))
           T == {m \in 0 .. z : /\ IsFiniteSet(Of(q, m, "E")) /\ IsFiniteSet(Of(q, m, "G"))
                                /\ C(m, "E") = g[m] /\ C(m, "G") = m - g[m]}
<1>1. z \in Nat
  OBVIOUS
<1>2. 0 \in T
  <2>1. Of(q, 0, "E") = {} /\ Of(q, 0, "G") = {}
    BY DEF Of
  <2>2. IsFiniteSet({}) /\ Cardinality({}) = 0
    BY FS_EmptySet
  <2>3. g[0] = 0 /\ 0 - g[0] = 0 /\ 0 \in 0 .. z
    BY <1>1 DEF Merges
  <2>4. C(0, "E") = 0 /\ C(0, "G") = 0
    BY <2>1, <2>2
  <2> HIDE DEF z, C
  <2> QED  BY <2>1, <2>2, <2>3, <2>4
<1>3. ASSUME NEW m \in 0 + 1 .. z, m - 1 \in T PROVE m \in T
  <2>1. m \in Nat \ {0} /\ m \in 0 .. z /\ m \in 1 .. Len(gal) + Len(gps) /\ m - 1 \in 0 .. Len(gal) + Len(gps)
    OBVIOUS
  <2>2. /\ IsFiniteSet(Of(q, m - 1, "E")) /\ IsFiniteSet(Of(q, m - 1, "G"))
        /\ C(m - 1, "E") = g[m - 1] /\ C(m - 1, "G") = (m - 1) - g[m - 1]
    BY <1>3
  <2>3. g[m - 1] \in Int
    BY <2>1 DEF Merges
  <2>4. q[m] = Merged(gal, gps, g, m)
    BY <2>1 DEF Merges
  <2>5. \/ g[m] = g[m - 1] + 1 /\ q[m].sys = "E"
        \/ g[m] = g[m - 1] /\ q[m].sys = "G"
    BY <2>1, <2>4, MergedIs
  <2>6. IsFiniteSet(Of(q, m, "E")) /\ IsFiniteSet(Of(q, m, "G"))
    BY <2>1, <2>2, OfNext
  <2>7. CASE g[m] = g[m - 1] + 1 /\ q[m].sys = "E"
    <3>1. C(m, "E") = C(m - 1, "E") + 1 /\ C(m, "G") = C(m - 1, "G")
      BY <2>1, <2>2, <2>7, OfNext
    <3> QED  BY <2>1, <2>2, <2>3, <2>6, <2>7, <3>1
  <2>8. CASE g[m] = g[m - 1] /\ q[m].sys = "G"
    <3>1. C(m, "E") = C(m - 1, "E") /\ C(m, "G") = C(m - 1, "G") + 1
      BY <2>1, <2>2, <2>8, OfNext
    <3> QED  BY <2>1, <2>2, <2>3, <2>6, <2>8, <3>1
  <2> QED  BY <2>5, <2>7, <2>8
<1>4. 0 .. z \subseteq T
  <2> HIDE DEF T, z
  <2>1. 0 \in Int /\ z \in Int
    BY <1>1
  <2> QED  BY <1>2, <1>3, <2>1, UpTo
<1> QED  BY <1>4

\* What has been taken of the two lists is not after what has not, nor after what is taken later.
LEMMA MergedInOrder ==
  ASSUME NEW gal \in Seq(Int), NEW gps \in Seq(Int), NEW g, Merges(gal, gps, g), InOrder(gal), InOrder(gps),
         NEW q, q = InTimeOrder(gal, gps)
  PROVE  \A i, k \in 1 .. Len(gal) + Len(gps) : i <= k => q[i].abs <= q[k].abs
<1> DEFINE A == Len(gal)
           B == Len(gps)
           z == Len(gal) + Len(gps)
           Before(n, m) == /\ \A i \in 1 .. A : i > g[m] => q[n].abs <= gal[i]
                           /\ \A j \in 1 .. B : j > m - g[m] => q[n].abs <= gps[j]
                           /\ \A k \in n .. m : q[n].abs <= q[k].abs
           T == {m \in 0 .. z : \A n \in 1 .. m : Before(n, m)}
<1>1. A \in Nat /\ B \in Nat /\ z \in Nat /\ z = A + B
  OBVIOUS
<1>2. /\ \A i \in 1 .. A : gal[i] \in Int
      /\ \A j \in 1 .. B : gps[j] \in Int
      /\ \A i, j \in 1 .. A : i <= j => gal[i] <= gal[j]
      /\ \A i, j \in 1 .. B : i <= j => gps[i] <= gps[j]
  BY DEF InOrder
<1>3. ASSUME NEW n \in 1 .. z
      PROVE  /\ g[n] \in 0 .. A /\ n - g[n] \in 0 .. B /\ q[n].abs \in Int
             /\ \/ /\ g[n] = g[n - 1] + 1 /\ g[n] \in 1 .. A /\ q[n].abs = gal[g[n]]
                   /\ n - g[n] < B => gal[g[n]] <= gps[n - g[n] + 1]
                \/ /\ g[n] = g[n - 1] /\ n - g[n] \in 1 .. B /\ q[n].abs = gps[n - g[n]]
                   /\ g[n] < A => gps[n - g[n]] <= gal[g[n] + 1]
  <2>1. q[n] = Merged(gal, gps, g, n)
    BY DEF Merges
  <2>2. n \in 0 .. Len(gal) + Len(gps)
    BY <1>1
  <2>3. g[n] \in 0 .. A /\ n - g[n] \in 0 .. B
    BY <2>2 DEF Merges
  <2> QED  BY <2>1, <2>3, MergedIs
<1> HIDE DEF A, B, z
<1>4. 0 \in T
  BY <1>1
<1>5. ASSUME NEW m \in 0 + 1 .. z, m - 1 \in T PROVE m \in T
  <2>1. m \in 1 .. z /\ m \in 0 .. z /\ m \in Nat /\ m - 1 \in 0 .. z
    BY <1>1
  <2>2. \A n \in 1 .. m - 1 : Before(n, m - 1)
    BY <1>5
  <2>3. PICK a, b, c : a = g[m - 1] /\ b = g[m] /\ c = q[m].abs
    OBVIOUS
  <2>4. /\ b \in 0 .. A /\ m - b \in 0 .. B /\ c \in Int
        /\ \/ b = a + 1 /\ b \in 1 .. A /\ c = gal[b] /\ (m - b < B => gal[b] <= gps[m - b + 1])
           \/ b = a /\ m - b \in 1 .. B /\ c = gps[m - b] /\ (b < A => gps[m - b] <= gal[b + 1])
    BY <1>3, <2>1, <2>3
  <2>5. a \in Int
    <3>1. m - 1 \in 0 .. Len(gal) + Len(gps)
      BY <2>1 DEF z
    <3>2. g[m - 1] \in 0 .. Len(gal)
      BY <3>1 DEF Merges
    <3> QED  BY <1>1, <2>3, <3>2 DEF A
  \* The new one is before what is left.
  <2>6. ASSUME NEW i \in 1 .. A, i > b PROVE c <= gal[i]
    <3>1. gal[i] \in Int
      BY <1>2
    <3>2. CASE b \in 1 .. A /\ c = gal[b]
      BY <1>2, <2>4, <2>6, <3>2
    <3>3. CASE c = gps[m - b] /\ (b < A => gps[m - b] <= gal[b + 1])
      <4>1. b < A /\ b + 1 \in 1 .. A /\ b + 1 <= i
        BY <1>1, <2>4, <2>6
      <4>2. gal[b + 1] \in Int /\ gal[b + 1] <= gal[i]
        BY <1>2, <4>1
      <4> QED  BY <2>4, <3>1, <3>3, <4>1, <4>2
    <3> QED  BY <2>4, <3>2, <3>3
  <2>7. ASSUME NEW j \in 1 .. B, j > m - b PROVE c <= gps[j]
    <3>1. gps[j] \in Int
      BY <1>2
    <3>2. CASE m - b \in 1 .. B /\ c = gps[m - b]
      BY <1>2, <2>4, <2>7, <3>2
    <3>3. CASE c = gal[b] /\ (m - b < B => gal[b] <= gps[m - b + 1])
      <4>1. m - b < B /\ m - b + 1 \in 1 .. B /\ m - b + 1 <= j
        BY <1>1, <2>1, <2>4, <2>7
      <4>2. gps[m - b + 1] \in Int /\ gps[m - b + 1] <= gps[j]
        BY <1>2, <4>1
      <4> QED  BY <2>4, <3>1, <3>3, <4>1, <4>2
    <3> QED  BY <2>4, <3>2, <3>3
  <2>8. Before(m, m)
    <3>1. \A k \in m .. m : q[m].abs <= q[k].abs
      BY <2>1, <2>3, <2>4
    <3> QED  BY <2>3, <2>6, <2>7, <3>1
  <2>9. ASSUME NEW n \in 1 .. m - 1 PROVE Before(n, m)
    <3>1. /\ \A i \in 1 .. A : i > a => q[n].abs <= gal[i]
          /\ \A j \in 1 .. B : j > (m - 1) - a => q[n].abs <= gps[j]
          /\ \A k \in n .. m - 1 : q[n].abs <= q[k].abs
      BY <2>2, <2>3
    <3>2. q[n].abs <= c
      <4>1. CASE b = a + 1 /\ b \in 1 .. A /\ c = gal[b]
        <5>1. b \in 1 .. A /\ b > a
          BY <2>5, <4>1
        <5> QED  BY <3>1, <4>1, <5>1
      <4>2. CASE b = a /\ m - b \in 1 .. B /\ c = gps[m - b]
        <5>1. m - b \in 1 .. B /\ m - b > (m - 1) - a
          BY <2>1, <2>5, <4>2
        <5> QED  BY <3>1, <4>2, <5>1
      <4> QED  BY <2>4, <4>1, <4>2
    <3>3. \A i \in 1 .. A : i > b => i > a
      BY <2>4, <2>5
    <3>4. \A j \in 1 .. B : j > m - b => j > (m - 1) - a
      BY <1>1, <2>1, <2>4, <2>5
    <3>5. ASSUME NEW k \in n .. m PROVE q[n].abs <= q[k].abs
      <4>1. CASE k = m
        BY <2>3, <3>2, <4>1
      <4>2. CASE k # m
        <5>1. k \in n .. m - 1
          BY <2>1, <4>2
        <5> QED  BY <3>1, <5>1
      <4> QED  BY <4>1, <4>2
    <3> QED  BY <2>3, <3>1, <3>3, <3>4, <3>5
  <2>10. \A n \in 1 .. m : n = m \/ n \in 1 .. m - 1
    BY <2>1
  <2> HIDE DEF Before
  <2> QED  BY <2>1, <2>8, <2>9, <2>10
<1>6. z \in T
  <2> HIDE DEF T
  <2>1. 0 \in Int /\ z \in Int /\ z \in 0 .. z
    BY <1>1
  <2>2. 0 .. z \subseteq T
    BY <1>4, <1>5, <2>1, UpTo
  <2> QED  BY <2>1, <2>2
<1>7. \A i, k \in 1 .. z : i <= k => q[i].abs <= q[k].abs
  <2> SUFFICES ASSUME NEW i \in 1 .. z, NEW k \in 1 .. z, i <= k PROVE q[i].abs <= q[k].abs
    OBVIOUS
  <2>1. k \in i .. z
    OBVIOUS
  <2> QED  BY <1>6, <2>1
<1> QED  BY <1>7 DEF z

Times(q) == [i \in DOMAIN q |-> q[i].abs]

\* The mixed file has each list whole, and is in order if they are.
LEMMA MixedLists ==
  ASSUME NEW gal \in Seq(Int), NEW gps \in Seq(Int), NEW q, q = InTimeOrder(gal, gps)
  PROVE  /\ DOMAIN q = 1 .. Len(q)
         /\ InOrder(gal) /\ InOrder(gps) => InOrder(Times(q))
         /\ Cardinality(Of(q, Len(q), "E")) = Len(gal) /\ Cardinality(Of(q, Len(q), "G")) = Len(gps)
         /\ \A i \in 1 .. Len(q) :
               /\ q[i].sys = "E" => q[i].abs = gal[Cardinality(Of(q, i, "E"))]
               /\ q[i].sys = "G" => q[i].abs = gps[Cardinality(Of(q, i, "G"))]
<1> DEFINE z == Len(gal) + Len(gps)
<1>1. PICK g : Merges(gal, gps, g)
  BY MergeRuns
<1>2. z \in Nat /\ Len(gal) \in Nat /\ Len(gps) \in Nat /\ z \in 0 .. z
  OBVIOUS
<1>3. q = [n \in 1 .. z |-> Merged(gal, gps, g, n)]
  BY <1>1 DEF Merges
<1>4. Len(q) = z /\ DOMAIN q = 1 .. z
  <2> DEFINE R == {q[n] : n \in 1 .. z}
  <2>1. \A n \in 1 .. z : q[n] \in R
    OBVIOUS
  <2>2. q \in Seq(R) /\ DOMAIN q = 1 .. z
    <3> HIDE DEF z, R
    <3>1. q = [n \in 1 .. z |-> q[n]]
      BY <1>3
    <3>2. q \in [1 .. z -> R] /\ DOMAIN q = 1 .. z
      BY <2>1, <3>1
    <3>3. z \in Nat
      BY <1>2
    <3> QED  BY <3>2, <3>3, SeqDef
  <2> HIDE DEF R
  <2>3. Len(q) \in Nat /\ DOMAIN q = 1 .. Len(q)
    BY <2>2, LenProperties
  <2> HIDE DEF z
  <2> QED  BY <1>2, <2>2, <2>3
<1>5. ASSUME InOrder(gal), InOrder(gps) PROVE InOrder(Times(q))
  <2>1. \A i, k \in 1 .. z : i <= k => q[i].abs <= q[k].abs
    BY <1>1, <1>5, MergedInOrder
  <2> HIDE DEF z
  <2> QED  BY <1>4, <2>1 DEF InOrder, Times
<1>6. \A n \in 0 .. z : Cardinality(Of(q, n, "E")) = g[n] /\ Cardinality(Of(q, n, "G")) = n - g[n]
  BY <1>1, MergedCounts
<1>7. Cardinality(Of(q, z, "E")) = Len(gal) /\ Cardinality(Of(q, z, "G")) = Len(gps)
  <2>1. g[z] \in 0 .. Len(gal) /\ z - g[z] \in 0 .. Len(gps)
    BY <1>1, <1>2 DEF Merges
  <2>2. g[z] = Len(gal) /\ z - g[z] = Len(gps)
    BY <1>2, <2>1
  <2> QED  BY <1>2, <1>6, <2>2
<1>8. ASSUME NEW i \in 1 .. z
      PROVE  /\ q[i].sys = "E" => q[i].abs = gal[Cardinality(Of(q, i, "E"))]
             /\ q[i].sys = "G" => q[i].abs = gps[Cardinality(Of(q, i, "G"))]
  <2>1. q[i] = Merged(gal, gps, g, i)
    BY <1>3
  <2>2. i \in 0 .. z /\ i \in 1 .. Len(gal) + Len(gps)
    BY <1>2
  <2>3. \/ q[i].sys = "E" /\ q[i].abs = gal[g[i]]
        \/ q[i].sys = "G" /\ q[i].abs = gps[i - g[i]]
    BY <1>1, <2>1, <2>2, MergedIs
  <2>4. Cardinality(Of(q, i, "E")) = g[i] /\ Cardinality(Of(q, i, "G")) = i - g[i]
    BY <1>6, <2>2
  <2> QED  BY <2>3, <2>4
<1> QED  BY <1>4, <1>5, <1>7, <1>8

-----------------------------------------------------------------------------
(* The steps of a run that writes and reads files *)

\* What is read of a file is what it has
LEMMA FileGives ==
  ASSUME NEW f, GPSRecords(f) \in Seq(Records), f.ver < 3 => f.system = "G", f.header \in BOOLEAN,
         NEW tb \in readNavigationFile(f)
  PROVE  /\ tb \in Tables(AnyEphs)
         /\ f.header => \A i \in DOMAIN GPSRecords(f) :
               \E e \in Held(tb.ephemeris) : e.sv = f.records[i].sv /\ e.t0e = f.records[i].t0e
         /\ (\A i \in DOMAIN GPSRecords(f) : HourRight(GPSRecords(f)[i])) =>
               \A e \in Held(tb.ephemeris) : e.toe # -1 => e.t0c = e.toc % HoursOfWeek
<1>1. CASE ~f.header
  <2>1. tb = EmptyTable(Sats[src])
    BY <1>1 DEF readNavigationFile
  <2>2. tb \in Tables(AnyEphs) /\ Held(tb.ephemeris) = {}
    BY <2>1, EmptyIsTable
  <2> QED  BY <1>1, <2>2
<1>2. CASE f.header
  <2>1. PICK records : records = GPSRecords(f)
    OBVIOUS
  <2>2. tb \in Readings(records)
    <3>1. CASE f.ver < 3
      <4>1. records = f.records
        BY <2>1, <3>1 DEF GPSRecords
      <4> QED  BY <1>2, <3>1, <4>1 DEF readNavigationFile, readV2NavigationFile
    <3>2. CASE ~(f.ver < 3)
      BY <1>2, <2>1, <3>2 DEF readNavigationFile, readV3NavigationFile
    <3> QED  BY <3>1, <3>2
  <2>3. records \in Seq(Records)
    BY <2>1
  <2>4. /\ tb \in Tables(AnyEphs) /\ HasRead(tb, records, Len(records))
        /\ (\A i \in DOMAIN records : HourRight(records[i])) =>
              \A e \in Held(tb.ephemeris) : e.toe # -1 => e.t0c = e.toc % HoursOfWeek
    BY <2>2, <2>3, RecordsRead
  <2>5. ASSUME NEW i \in DOMAIN records
        PROVE  \E e \in Held(tb.ephemeris) : e.sv = f.records[i].sv /\ e.t0e = f.records[i].t0e
    <3>1. DOMAIN records = 1 .. Len(records)
      BY <2>3, LenProperties
    <3>2. f.system = "G"
      <4> SUFFICES ASSUME f.system # "G" PROVE FALSE
        OBVIOUS
      <4>1. records = << >>
        BY <2>1 DEF GPSRecords
      <4>2. DOMAIN records = {}
        BY <4>1
      <4> QED  BY <2>5, <4>2
    <3>3. records = f.records
      BY <2>1, <3>2 DEF GPSRecords
    <3> QED  BY <2>4, <3>1, <3>3 DEF HasRead
  <2> QED  BY <2>1, <2>4, <2>5
<1> QED  BY <1>1, <1>2

\* The dates that are there when the log has been read
DatesOf(list) ==
  IF src = "INAV" THEN GALsetAbsT0c(list, WeekOf(FirstHour(day))) ELSE GPSsetAbsT0c(list)

LEMMA Dates ==
  ASSUME src \in Sources, day \in DOMAIN Days, NEW list \in Seq(Ephs)
  PROVE  /\ DatesOf(list) \in Seq(Int) /\ DOMAIN DatesOf(list) = DOMAIN list
         /\ src # "INAV" => \A i \in DOMAIN list : DatesOf(list)[i] % HoursOfWeek = list[i].t0c
<1>1. Len(list) \in Nat /\ DOMAIN list = 1 .. Len(list) /\ \A i \in 1 .. Len(list) : list[i] \in Ephs
  BY LenProperties, ElementOfSeq
<1>2. \A e \in Ephs : e.week \in Int /\ e.t0c \in Int /\ e.t0c \in 0 .. 167
  <2> SUFFICES ASSUME NEW e \in Ephs PROVE e.week \in Int /\ e.t0c \in Int /\ e.t0c \in 0 .. 167
    OBVIOUS
  <2>1. e.week \in Int /\ e.toc \in Nat /\ e.t0c = e.toc % HoursOfWeek
    BY DEF Ephs
  <2>2. PICK c, d : c = e.t0c /\ d = e.toc
    OBVIOUS
  <2>3. d \in Nat /\ c = d % 168
    BY <2>1, <2>2 DEF HoursOfWeek
  <2>4. c \in Int /\ c \in 0 .. 167
    BY ONLY <2>3
  <2> QED  BY <2>1, <2>2, <2>4
<1> DEFINE S == Ephs
<1>5. \A e \in S : e.week \in Int /\ e.t0c \in Int
  BY <1>2
<1>6. list \in Seq(S)
  OBVIOUS
<1> HIDE DEF S
<1>3. CASE src = "INAV"
  <2>1. PICK w : w = WeekOf(FirstHour(day))
    OBVIOUS
  <2>2. w \in Int
    <3>1. FirstHour(day) \in Nat
      BY IssuesAssumption DEF FirstHour
    <3> QED  BY <2>1, <3>1, Weeks
  <2>3. PICK acc : GALRolls(list, w, acc)
    BY <1>5, <1>6, <2>2, GALDates
  <2>4. DatesOf(list) = [i \in 1 .. Len(list) |-> acc[i].gal * HoursOfWeek + list[i].t0c]
    BY <1>3, <2>1, <2>3 DEF DatesOf, GALRolls
  <2>5. \A i \in 1 .. Len(list) : acc[i].gal * HoursOfWeek + list[i].t0c \in Int
    <3> SUFFICES ASSUME NEW i \in 1 .. Len(list) PROVE acc[i].gal * HoursOfWeek + list[i].t0c \in Int
      OBVIOUS
    <3>1. acc[i] \in GalRolls
      BY <1>1, <2>3 DEF GALRolls
    <3>2. acc[i].gal \in Int
      BY <3>1 DEF GalRolls
    <3>3. list[i].t0c \in Int
      BY <1>1, <1>2
    <3> QED  BY <3>2, <3>3 DEF HoursOfWeek
  <2> QED  BY <1>1, <1>3, <2>4, <2>5, SeqDef
<1>4. CASE src # "INAV"
  <2>1. PICK acc : GPSRolls(list, acc)
    BY <1>5, <1>6, GPSDates
  <2>2. DatesOf(list) = [i \in 1 .. Len(list) |-> (list[i].week + acc[i].roll) * HoursOfWeek + list[i].t0c]
    BY <1>4, <2>1 DEF DatesOf, GPSRolls
  <2>3. ASSUME NEW i \in 1 .. Len(list)
        PROVE  /\ (list[i].week + acc[i].roll) * HoursOfWeek + list[i].t0c \in Int
               /\ ((list[i].week + acc[i].roll) * HoursOfWeek + list[i].t0c) % HoursOfWeek = list[i].t0c
    <3>1. acc[i] \in Rolls
      BY <1>1, <2>1 DEF GPSRolls
    <3>2. acc[i].roll \in Int
      BY <3>1 DEF Rolls
    <3>3. PICK w, c : w = list[i].week + acc[i].roll /\ c = list[i].t0c
      OBVIOUS
    <3>4. w \in Int /\ c \in 0 .. 167
      BY <1>1, <1>2, <3>2, <3>3
    <3>5. w * 168 + c \in Int /\ (w * 168 + c) % 168 = c
      BY <3>4
    <3> QED  BY <3>3, <3>5 DEF HoursOfWeek
  <2> HIDE DEF DatesOf
  <2> QED  BY <1>1, <1>4, <2>2, <2>3, SeqDef
<1> QED  BY <1>3, <1>4

\* What a run has written, which a later run may read
Written ==
  /\ file.header \in BOOLEAN /\ (file.ver < 3 => file.system = "G")
  /\ GPSRecords(file) \in Seq(Records)
  /\ replaced = FALSE => \A i \in DOMAIN GPSRecords(file) : HourRight(GPSRecords(file)[i])
  /\ file.system = "M" =>
        \E other \in OtherDates :
           file.records = IF src = "INAV" THEN InTimeOrder(t0cAbs, other) ELSE InTimeOrder(other, t0cAbs)

\* The table and the dates that go with it
Tabled ==
  /\ src \in Sources /\ day \in DOMAIN Days
  /\ tab \in Tables(AnyEphs) /\ t0cAbs \in Seq(Int)

RightDates == \A i \in DOMAIN tab.ephemeris : t0cAbs[i] % HoursOfWeek = tab.ephemeris[i].t0c

NavInv ==
  /\ Tabled
  /\ phase \in {"reading", "done"} => IInv /\ replaced = FALSE
  /\ phase \in {"done", "replaced"} => DOMAIN t0cAbs = DOMAIN tab.ephemeris
  /\ phase = "done" => src = "INAV" \/ RightDates
  /\ phase = "replaced" => replaced = TRUE
  /\ phase = "written" => Written
  /\ ReadBack

LEMMA TableOfLog == ASSUME TableInv PROVE tab \in Tables(AnyEphs)
<1>1. tab \in Tables(Ephs)
  BY DEF TableInv, Tables, Entries, Held
<1> QED  BY <1>1, GoodEphs, TablesMore

LEMMA InitNavInv == NavInit => NavInv
<1> SUFFICES ASSUME NavInit PROVE NavInv
  OBVIOUS
<1>1. IInv /\ phase = "reading" /\ replaced = FALSE
  BY InitIInv DEF NavInit, Init
<1>2. t0cAbs \in Seq(Int)
  <2>1. t0cAbs = << >>
    BY DEF NavInit, Init
  <2> QED  BY <2>1, EmptySeq
<1>3. Tabled
  BY <1>1, <1>2, TableOfLog DEF IInv, Types, Tabled
<1> QED  BY <1>1, <1>3 DEF NavInv, ReadBack

\* Reading the log
LEMMA LogNavInv == NavInv /\ Next /\ UNCHANGED navvars => NavInv'
<1> SUFFICES ASSUME NavInv, Next, UNCHANGED navvars PROVE NavInv'
  OBVIOUS
<1>1. phase = "reading" /\ UNCHANGED <<src, day>>
  BY DEF Next, Subframe, Word, LosePart, Came, WholeEphemeris, RawMeasurement, NextFrame, Tick, EndOfLog
<1>2. (phase' = "reading" /\ t0cAbs' = t0cAbs) \/ EndOfLog
  BY <1>1 DEF Next, Subframe, Word, LosePart, Came, WholeEphemeris, RawMeasurement, NextFrame, Tick
<1>3. IInv' /\ replaced' = FALSE
  BY <1>1, StepIInv DEF NavInv, navvars
<1>4. TableInv' /\ src' \in Sources /\ day' \in DOMAIN Days
  BY <1>3 DEF IInv, Types
<1>5. (tab \in Tables(AnyEphs))'
  BY <1>4, TableOfLog, PTL
<1>6. CASE phase' = "reading" /\ t0cAbs' = t0cAbs
  <2>1. Tabled'
    BY <1>4, <1>5, <1>6 DEF NavInv, Tabled
  <2> QED  BY <1>3, <1>6, <2>1 DEF NavInv, ReadBack
<1>7. CASE EndOfLog
  <2> DEFINE list == fixWeekRollovers(tab.ephemeris)
  <2>1. TableInv
    BY <1>1 DEF NavInv, IInv
  <2>2. tab.ephemeris \in Seq(Ephs)
    BY <2>1 DEF TableInv
  <2>3. list \in Seq(Ephs)
    BY <2>2, Mended
  <2>4. phase' = "done" /\ tab' = [tab EXCEPT !.ephemeris = list] /\ t0cAbs' = DatesOf(list)
    BY <1>7 DEF EndOfLog, DatesOf
  <2>5. tab'.ephemeris = list
    BY <2>1, <2>4 DEF TableInv
  <2> HIDE DEF list
  <2>6. /\ DatesOf(list) \in Seq(Int) /\ DOMAIN DatesOf(list) = DOMAIN list
        /\ src # "INAV" => \A i \in DOMAIN list : DatesOf(list)[i] % HoursOfWeek = list[i].t0c
    BY <2>3, Dates DEF NavInv, Tabled
  <2>7. Tabled'
    BY <1>4, <1>5, <2>4, <2>6 DEF Tabled
  <2>8. src' = "INAV" \/ RightDates'
    BY <1>1, <2>4, <2>5, <2>6 DEF RightDates
  <2>9. DOMAIN t0cAbs' = DOMAIN tab'.ephemeris
    BY <2>4, <2>5, <2>6
  <2> QED  BY <1>3, <2>4, <2>7, <2>8, <2>9 DEF NavInv, ReadBack
<1> QED  BY <1>2, <1>6, <1>7

\* The rest does not read src and day of the next state
LEMMA SameSource ==
  ASSUME src' = src
  PROVE  AnyEphs' = AnyEphs /\ Records' = Records /\ \A S : Tables(S)' = Tables(S)
<1>1. AnyEphs' = AnyEphs
  BY DEF AnyEphs
<1> QED  BY <1>1 DEF Records, Tables, Held

\* A file has been read into the table
LEMMA FileReadBack ==
  ASSUME Tabled, NEW f, f = file', f.header \in BOOLEAN, f.ver < 3 => f.system = "G",
         GPSRecords(f) \in Seq(Records), tab' \in readNavigationFile(f),
         src' = src, phase' \in {"replaced", "reread"},
         ~(phase' = "reread" /\ replaced') => \A i \in DOMAIN GPSRecords(f) : HourRight(GPSRecords(f)[i])
  PROVE  ReadBack' /\ (tab \in Tables(AnyEphs))'
<1>1. /\ tab' \in Tables(AnyEphs)
      /\ f.header => \A i \in DOMAIN GPSRecords(f) :
            \E e \in Held(tab'.ephemeris) : e.sv = f.records[i].sv /\ e.t0e = f.records[i].t0e
      /\ (\A i \in DOMAIN GPSRecords(f) : HourRight(GPSRecords(f)[i])) =>
            \A e \in Held(tab'.ephemeris) : e.toe # -1 => e.t0c = e.toc % HoursOfWeek
  BY FileGives
<1>2. AnyEphs' = AnyEphs /\ Tables(AnyEphs)' = Tables(AnyEphs)
  BY SameSource
<1>3. (tab \in Tables(AnyEphs))'
  BY <1>1, <1>2 DEF Tables, Held
<1>4. Entries' = Held(tab'.ephemeris)
  BY DEF Entries, Held
<1>5. \A e \in Entries' : e.toe # -1 => e.t0e = e.toe % HoursOfWeek
  <2>1. tab'.ephemeris \in Seq(AnyEphs)
    BY <1>1 DEF Tables
  <2>2. \A e \in Entries' : e \in AnyEphs
    BY <1>4, <2>1, ElementOfSeq, LenProperties DEF Held
  <2> QED  BY <2>2 DEF AnyEphs
<1>6. file'.header => \A i \in DOMAIN GPSRecords(file') :
         \E e \in Entries' : e.sv = file'.records[i].sv /\ e.t0e = file'.records[i].t0e
  BY <1>1, <1>4
<1>7. \A e \in Entries' : e.toe # -1 => (phase' = "reread" /\ replaced') \/ e.t0c = e.toc % HoursOfWeek
  BY <1>1, <1>4
<1> QED  BY <1>3, <1>5, <1>6, <1>7 DEF ReadBack, GPSRecords

LEMMA UserSuppliedNavInv == NavInv /\ UserSupplied => NavInv'
<1> SUFFICES ASSUME NavInv, UserSupplied PROVE NavInv'
  OBVIOUS
<1>1. /\ phase = "done" /\ phase' = "replaced" /\ replaced' = TRUE
      /\ UNCHANGED <<src, day>> /\ tab' \in readNavigationFile(file')
      /\ t0cAbs' \in [DOMAIN tab'.ephemeris ->
                         {0} \cup (IF t0cAbs = << >> THEN {} ELSE {t0cAbs[Len(t0cAbs)]})]
  BY DEF UserSupplied
<1>2. PICK ver \in Versions, whl \in BOOLEAN : file' = [UserFile(ver) EXCEPT !.header = whl]
  BY DEF UserSupplied
<1>3. Types
  BY <1>1 DEF NavInv, IInv
<1>4. PICK f, records : f = file' /\ records = UserFile(ver).records
  OBVIOUS
<1>5. records \in Seq(Records) /\ \A i \in DOMAIN records : HourRight(records[i])
  BY <1>3, <1>4, UserRecords
<1>6. f.header = whl /\ f.system = "G" /\ f.records = records /\ GPSRecords(f) = records
  <2>1. UserFile(ver) = [ver |-> ver, system |-> "G", header |-> TRUE, records |-> records]
    BY <1>4 DEF UserFile
  <2>2. f = [ver |-> ver, system |-> "G", header |-> whl, records |-> records]
    BY <1>2, <1>4, <2>1
  <2> QED  BY <2>2 DEF GPSRecords
<1>7. ReadBack' /\ (tab \in Tables(AnyEphs))'
  BY <1>1, <1>4, <1>5, <1>6, FileReadBack DEF NavInv
<1>8. t0cAbs' \in Seq(Int) /\ DOMAIN t0cAbs' = DOMAIN tab'.ephemeris
  <2> DEFINE V == {0} \cup (IF t0cAbs = << >> THEN {} ELSE {t0cAbs[Len(t0cAbs)]})
  <2>1. V \subseteq Int
    <3>1. t0cAbs \in Seq(Int)
      BY DEF NavInv, Tabled
    <3>2. t0cAbs # << >> => t0cAbs[Len(t0cAbs)] \in Int
      BY <3>1
    <3> QED  BY <3>2
  <2> HIDE DEF V
  <2>2. t0cAbs' \in [DOMAIN tab'.ephemeris -> V]
    BY <1>1 DEF V
  <2>3. PICK n \in Nat : DOMAIN tab'.ephemeris = 1 .. n
    <3>1. tab'.ephemeris \in Seq(AnyEphs')
      BY <1>7 DEF Tables
    <3> QED  BY <3>1, LenProperties
  <2>4. t0cAbs' \in [1 .. n -> Int]
    BY <2>1, <2>2, <2>3
  <2>5. t0cAbs' \in Seq(Int)
    BY <2>4, SeqDef
  <2> QED  BY <2>2, <2>5
<1>9. Tabled'
  BY <1>1, <1>7, <1>8 DEF NavInv, Tabled
<1> QED  BY <1>1, <1>7, <1>8, <1>9 DEF NavInv

LEMMA UserFileMissingNavInv == NavInv /\ UserFileMissing => NavInv'
<1> SUFFICES ASSUME NavInv, UserFileMissing PROVE NavInv'
  OBVIOUS
<1>1. phase' = "exit" /\ UNCHANGED <<src, day, tab, t0cAbs>>
  BY DEF UserFileMissing
<1>2. Tables(AnyEphs)' = Tables(AnyEphs)
  BY <1>1, SameSource
<1>3. (tab \in Tables(AnyEphs))'
  BY <1>1, <1>2 DEF NavInv, Tabled
<1>4. Tabled'
  BY <1>1, <1>3 DEF NavInv, Tabled
<1> QED  BY <1>1, <1>4 DEF NavInv, ReadBack

\* The records of the ephemerides of this run
LEMMA OwnRecords ==
  ASSUME NavInv, phase \in {"done", "replaced"}, NEW f, NEW ver \in Versions, f = OneSystemFile(ver),
         ver = 2 => ThisSystem = "G"
  PROVE  /\ f.header \in BOOLEAN /\ (f.ver < 3 => f.system = "G") /\ f.system # "M"
         /\ GPSRecords(f) \in Seq(Records)
         /\ replaced = FALSE => \A i \in DOMAIN GPSRecords(f) : HourRight(GPSRecords(f)[i])
<1> DEFINE records == [i \in DOMAIN t0cAbs |-> Record(tab.ephemeris[i], t0cAbs[i])]
<1>1. f = [ver |-> ver, system |-> ThisSystem, header |-> TRUE, records |-> records]
  BY DEF OneSystemFile
<1> HIDE DEF records
<1>2. f.ver = ver /\ f.system = ThisSystem /\ f.header = TRUE /\ f.records = records
  BY <1>1
<1>3. f.system \in {"E", "G"} /\ (f.system = "E" <=> src = "INAV")
  BY <1>2 DEF ThisSystem
<1>4. f.ver < 3 => f.system = "G"
  BY <1>2, FilesAssumption
<1>5. CASE src = "INAV"
  <2>1. GPSRecords(f) = << >>
    BY <1>3, <1>5 DEF GPSRecords
  <2>2. DOMAIN GPSRecords(f) = {} /\ GPSRecords(f) \in Seq(Records)
    BY <2>1, EmptySeq
  <2> QED  BY <1>2, <1>3, <1>4, <2>2
<1>6. CASE src # "INAV"
  <2>1. GPSRecords(f) = records
    BY <1>2, <1>3, <1>6 DEF GPSRecords
  <2>2. /\ tab.ephemeris \in Seq(AnyEphs) /\ t0cAbs \in Seq(Int)
        /\ DOMAIN t0cAbs = DOMAIN tab.ephemeris
    BY DEF NavInv, Tabled, Tables
  <2>3. PICK n \in Nat : DOMAIN t0cAbs = 1 .. n
    BY <2>2, LenProperties
  <2>4. ASSUME NEW i \in DOMAIN t0cAbs
        PROVE  /\ records[i] \in Records
               /\ replaced = FALSE => HourRight(records[i])
    <3>1. PICK ed, abs : ed = tab.ephemeris[i] /\ abs = t0cAbs[i]
      OBVIOUS
    <3>2. ed \in AnyEphs /\ abs \in Int
      BY <2>2, <3>1, ElementOfSeq, LenProperties
    <3>3. records[i] = Record(ed, abs)
      BY <3>1 DEF records
    <3>4. ASSUME replaced = FALSE PROVE ed.t0c = ed.toc % HoursOfWeek /\ abs % HoursOfWeek = ed.t0c
      <4>1. phase = "done" /\ RightDates
        BY <1>6, <3>4 DEF NavInv
      <4>2. tab.ephemeris \in Seq(Ephs)
        BY <4>1 DEF NavInv, IInv, TableInv
      <4>3. ed \in Ephs
        BY <2>2, <3>1, <4>2, ElementOfSeq, LenProperties
      <4> QED  BY <2>2, <3>1, <4>1, <4>3 DEF Ephs, RightDates
    <3> QED  BY <3>2, <3>3, <3>4, RecordOf
  <2>5. records \in [1 .. n -> Records]
    <3>1. records = [i \in 1 .. n |-> records[i]]
      BY <2>3 DEF records
    <3> QED  BY <2>3, <2>4, <3>1
  <2>6. records \in Seq(Records) /\ DOMAIN records = DOMAIN t0cAbs
    BY <2>3, <2>5, SeqDef
  <2> QED  BY <1>2, <1>3, <1>4, <2>1, <2>4, <2>6
<1> QED  BY <1>5, <1>6

LEMMA MixedRecords ==
  ASSUME NEW f, NEW other \in OtherDates, f = MixedFile(other)
  PROVE  /\ f.header \in BOOLEAN /\ (f.ver < 3 => f.system = "G")
         /\ GPSRecords(f) \in Seq(Records) /\ DOMAIN GPSRecords(f) = {}
         /\ f.records = IF src = "INAV" THEN InTimeOrder(t0cAbs, other) ELSE InTimeOrder(other, t0cAbs)
<1> DEFINE q == IF src = "INAV" THEN InTimeOrder(t0cAbs, other) ELSE InTimeOrder(other, t0cAbs)
<1>1. f = [ver |-> 3, system |-> "M", header |-> TRUE, records |-> q]
  BY DEF MixedFile
<1> HIDE DEF q
<1>2. f.ver = 3 /\ f.system = "M" /\ f.header = TRUE /\ f.records = q
  BY <1>1
<1>3. GPSRecords(f) = << >>
  BY <1>2 DEF GPSRecords
<1>4. GPSRecords(f) \in Seq(Records) /\ DOMAIN GPSRecords(f) = {}
  BY <1>3, EmptySeq
<1>5. f.header \in BOOLEAN /\ (f.ver < 3 => f.system = "G")
  <2>1. f.header \in BOOLEAN
    BY <1>2, Zenon
  <2>2. ~(f.ver < 3)
    <3>1. PICK v : v = f.ver
      OBVIOUS
    <3>2. v = 3
      BY <1>2, <3>1
    <3>3. ~(v < 3)
      BY ONLY <3>2
    <3> QED  BY <3>1, <3>3
  <2> QED  BY <2>1, <2>2
<1>6. f.records = IF src = "INAV" THEN InTimeOrder(t0cAbs, other) ELSE InTimeOrder(other, t0cAbs)
  BY <1>2 DEF q
<1> QED  BY <1>4, <1>5, <1>6

LEMMA WriteNavInv == NavInv /\ WriteNavigationFile => NavInv'
<1> SUFFICES ASSUME NavInv, WriteNavigationFile PROVE NavInv'
  OBVIOUS
<1>1. /\ phase \in {"done", "replaced"} /\ phase' = "written"
      /\ UNCHANGED <<src, day, tab, t0cAbs, replaced>>
  BY DEF WriteNavigationFile
<1>2. PICK f : f = file'
  OBVIOUS
<1>3. Records' = Records /\ Tables(AnyEphs)' = Tables(AnyEphs)
  BY <1>1, SameSource
<1>4. (tab \in Tables(AnyEphs))'
  BY <1>1, <1>3 DEF NavInv, Tabled
<1>5. Tabled'
  BY <1>1, <1>4 DEF NavInv, Tabled
<1>6. /\ f.header \in BOOLEAN /\ (f.ver < 3 => f.system = "G")
      /\ GPSRecords(f) \in Seq(Records)
      /\ replaced = FALSE => \A i \in DOMAIN GPSRecords(f) : HourRight(GPSRecords(f)[i])
      /\ f.system = "M" =>
            \E other \in OtherDates :
               f.records = IF src = "INAV" THEN InTimeOrder(t0cAbs, other) ELSE InTimeOrder(other, t0cAbs)
  <2>1. CASE \E ver \in Versions : (ver = 2 => ThisSystem = "G") /\ file' = OneSystemFile(ver)
    BY <1>1, <1>2, <2>1, OwnRecords
  <2>2. CASE \E other \in OtherDates : file' = MixedFile(other)
    BY <1>2, <2>2, MixedRecords
  <2> QED  BY <2>1, <2>2 DEF WriteNavigationFile
<1>7. Written'
  <2>1. GPSRecords(file)' = GPSRecords(f)
    BY <1>2 DEF GPSRecords
  <2>2. (GPSRecords(file) \in Seq(Records))'
    BY <1>3, <1>6, <2>1
  <2> QED  BY <1>1, <1>2, <1>6, <2>1, <2>2 DEF Written, HourRight
<1> QED  BY <1>1, <1>5, <1>7 DEF NavInv, ReadBack

LEMMA LaterRunNavInv == NavInv /\ LaterRunReads => NavInv'
<1> SUFFICES ASSUME NavInv, LaterRunReads PROVE NavInv'
  OBVIOUS
<1>1. /\ phase = "written" /\ phase' = "reread" /\ UNCHANGED <<src, day, file, replaced>>
      /\ tab' \in readNavigationFile(file) /\ t0cAbs' = [i \in DOMAIN tab'.ephemeris |-> 0]
  BY DEF LaterRunReads
<1>2. PICK f : f = file /\ f = file'
  BY <1>1
<1>3. Written
  BY <1>1 DEF NavInv
<1>4. \A i \in DOMAIN GPSRecords(f) : replaced' \/ HourRight(GPSRecords(f)[i])
  <2>1. replaced = FALSE \/ replaced = TRUE \/ replaced \notin BOOLEAN
    OBVIOUS
  <2> QED  BY <1>1, <1>2, <1>3 DEF Written
<1>5. ReadBack' /\ (tab \in Tables(AnyEphs))'
  BY <1>1, <1>2, <1>3, <1>4, FileReadBack DEF NavInv, Written
<1>6. t0cAbs' \in Seq(Int)
  <2>1. PICK n \in Nat : DOMAIN tab'.ephemeris = 1 .. n
    <3>1. tab'.ephemeris \in Seq(AnyEphs')
      BY <1>5 DEF Tables
    <3> QED  BY <3>1, LenProperties
  <2>2. t0cAbs' \in [1 .. n -> Int]
    BY <1>1, <2>1
  <2> QED  BY <2>2, SeqDef
<1>7. Tabled'
  BY <1>1, <1>5, <1>6 DEF NavInv, Tabled
<1> QED  BY <1>1, <1>5, <1>7 DEF NavInv

LEMMA StutterNavInv == NavInv /\ UNCHANGED <<vars, navvars>> => NavInv'
<1> SUFFICES ASSUME NavInv, UNCHANGED <<vars, navvars>> PROVE NavInv'
  OBVIOUS
<1>1. UNCHANGED <<src, day, phase, tab, t0cAbs, file, replaced>>
  BY DEF vars, navvars
<1>2. phase \in {"reading", "done"} => IInv'
  BY StepIInv DEF NavInv
<1>3. Records' = Records /\ Tables(AnyEphs)' = Tables(AnyEphs)
  BY <1>1, SameSource
<1>4. (tab \in Tables(AnyEphs))'
  BY <1>1, <1>3 DEF NavInv, Tabled
<1>5. Tabled' /\ (RightDates' <=> RightDates)
  BY <1>1, <1>4 DEF NavInv, Tabled, RightDates
<1>6. Written => Written'
  <2>1. GPSRecords(file)' = GPSRecords(file)
    BY <1>1 DEF GPSRecords
  <2> QED  BY <1>1, <1>3, <2>1 DEF Written, HourRight
<1>7. ReadBack'
  <2>1. Entries' = Entries /\ GPSRecords(file)' = GPSRecords(file)
    BY <1>1 DEF Entries, GPSRecords
  <2> QED  BY <1>1, <2>1 DEF NavInv, ReadBack
<1> QED  BY <1>1, <1>2, <1>5, <1>6, <1>7 DEF NavInv

LEMMA NavInductive == NavSpec => []NavInv
<1>1. NavInv /\ [NavNext]_<<vars, navvars>> => NavInv'
  BY LogNavInv, UserSuppliedNavInv, UserFileMissingNavInv, WriteNavInv, LaterRunNavInv, StutterNavInv
  DEF NavNext
<1> QED  BY <1>1, InitNavInv, PTL DEF NavSpec

(***************************************************************************)
(* A navigation file that readNavigationFile() reads gives the satellites  *)
(* and the t_0e that writeGPSNavigationFile() wrote, and their times of    *)
(* the week, whatever the table held and whatever the file has.            *)
(***************************************************************************)
THEOREM FilesReadBack == NavSpec => []ReadBack
<1>1. NavInv => ReadBack
  BY DEF NavInv
<1> QED  BY <1>1, NavInductive, PTL

(***************************************************************************)
(* writeMixedNavigationFile() writes all of both constellations, each in   *)
(* its order, and together in the order of time.                           *)
(***************************************************************************)
THEOREM MixedFilesInOrder == NavSpec => []MixedInOrder
<1>1. NavInv => MixedInOrder
  <2> SUFFICES ASSUME NavInv, phase = "written", file.system = "M", InOrder(t0cAbs)
               PROVE  /\ InOrder([i \in DOMAIN file.records |-> file.records[i].abs])
                      /\ Cardinality(Mine(Len(file.records))) = Len(t0cAbs)
                      /\ \A i \in Mine(Len(file.records)) :
                            file.records[i].abs = t0cAbs[Cardinality(Mine(i))]
    BY DEF MixedInOrder
  <2>1. PICK other \in OtherDates :
           file.records = IF src = "INAV" THEN InTimeOrder(t0cAbs, other) ELSE InTimeOrder(other, t0cAbs)
    BY DEF NavInv, Written
  <2>2. t0cAbs \in Seq(Int)
    BY DEF NavInv, Tabled
  <2>3. other \in Seq(Int) /\ InOrder(other)
    <3>1. other \in Seq(Nat) /\ InOrder(other)
      BY FilesAssumption DEF InOrder
    <3>2. Nat \subseteq Int
      OBVIOUS
    <3> QED  BY <3>1, <3>2, SeqMore
  <2>4. PICK q : q = file.records
    OBVIOUS
  <2>5. \A n : Mine(n) = Of(q, n, ThisSystem)
    BY <2>4 DEF Mine, Of
  <2>6. /\ DOMAIN q = 1 .. Len(q)
        /\ InOrder(Times(q))
        /\ Cardinality(Of(q, Len(q), ThisSystem)) = Len(t0cAbs)
        /\ \A i \in 1 .. Len(q) : q[i].sys = ThisSystem => q[i].abs = t0cAbs[Cardinality(Of(q, i, ThisSystem))]
    <3>1. CASE src = "INAV"
      <4>1. q = InTimeOrder(t0cAbs, other) /\ ThisSystem = "E"
        BY <2>1, <2>4, <3>1 DEF ThisSystem
      <4>2. DOMAIN q = 1 .. Len(q) /\ Cardinality(Of(q, Len(q), "E")) = Len(t0cAbs)
        BY <2>2, <2>3, <4>1, MixedLists
      <4>4. InOrder(Times(q))
        BY <2>2, <2>3, <4>1, MixedLists
      <4>3. ASSUME NEW i \in 1 .. Len(q), q[i].sys = "E" PROVE q[i].abs = t0cAbs[Cardinality(Of(q, i, "E"))]
        BY <2>2, <2>3, <4>1, <4>3, MixedLists
      <4> QED  BY <4>1, <4>2, <4>3, <4>4
    <3>2. CASE src # "INAV"
      <4>1. q = InTimeOrder(other, t0cAbs) /\ ThisSystem = "G"
        BY <2>1, <2>4, <3>2 DEF ThisSystem
      <4>2. DOMAIN q = 1 .. Len(q) /\ Cardinality(Of(q, Len(q), "G")) = Len(t0cAbs)
        BY <2>2, <2>3, <4>1, MixedLists
      <4>4. InOrder(Times(q))
        BY <2>2, <2>3, <4>1, MixedLists
      <4>3. ASSUME NEW i \in 1 .. Len(q), q[i].sys = "G" PROVE q[i].abs = t0cAbs[Cardinality(Of(q, i, "G"))]
        BY <2>2, <2>3, <4>1, <4>3, MixedLists
      <4> QED  BY <4>1, <4>2, <4>3, <4>4
    <3> QED  BY <3>1, <3>2
  <2>7. \A i \in Mine(Len(q)) : i \in 1 .. Len(q) /\ q[i].sys = ThisSystem
    BY <2>5 DEF Of
  <2>8. Times(q) = [i \in DOMAIN file.records |-> file.records[i].abs]
    BY <2>4 DEF Times
  <2> QED  BY <2>4, <2>5, <2>6, <2>7, <2>8
<1> QED  BY <1>1, NavInductive, PTL

\* Within a week of t, t_0e in the next two hours is told by the times of the week.
LEMMA AheadOf ==
  ASSUME NEW t \in Nat, NEW e, e.toe \in Nat, e.t0e = e.toe % HoursOfWeek, e.toe - t \in -165 .. 165
  PROVE  LET a == Ahead(e, t % HoursOfWeek)
         IN  (a \in 0 .. 2 <=> e.toe - t \in 0 .. 2) /\ (a \in 0 .. 2 => a = e.toe - t)
<1> DEFINE i == e.toe \div 168
           j == e.toe % 168
           m == t \div 168
           n == t % 168
<1>1. PICK o : o = e.toe
  OBVIOUS
<1>2. i \in Int /\ j \in 0 .. 167 /\ o = 168 * i + j
  <2>1. o \in Nat
    BY <1>1
  <2>2. o \div 168 \in Int /\ o % 168 \in 0 .. 167 /\ o = 168 * (o \div 168) + (o % 168)
    BY <2>1
  <2> QED  BY <1>1, <2>2
<1>3. m \in Int /\ n \in 0 .. 167 /\ t = 168 * m + n
  OBVIOUS
<1>4. Ahead(e, t % HoursOfWeek) = IF j - n < -120 THEN j - n + 168 ELSE j - n
  BY DEF Ahead, HoursOfWeek
<1>5. o - t \in -165 .. 165
  BY <1>1
<1> HIDE DEF i, j, m, n
<1>6. PICK k : k = i - m
  OBVIOUS
<1>7. k \in {-1, 0, 1} /\ o - t = 168 * k + (j - n)
  BY <1>2, <1>3, <1>5, <1>6
<1>8. PICK a : a = Ahead(e, t % HoursOfWeek)
  OBVIOUS
<1>9. (a \in 0 .. 2 <=> o - t \in 0 .. 2) /\ (a \in 0 .. 2 => a = o - t)
  BY <1>2, <1>3, <1>4, <1>5, <1>7, <1>8
<1> QED  BY <1>1, <1>8, <1>9

(***************************************************************************)
(* nearestEphemeris() gives the first accurate ephemeris of the satellite  *)
(* whose t_0e is in the next two hours, whenever the log is, and none when *)
(* there is none: times of the week are enough for it, also at the end of  *)
(* the week.                                                               *)
(***************************************************************************)
THEOREM NextIsNearest == NavSpec => []NearestIsNext
<1>1. NavInv => NearestIsNext
  <2> SUFFICES ASSUME NavInv, NEW s \in Sats[src], NEW t \in Days[day], ~ \E e \in Entries : e.toe = -1
               PROVE  LET list == tab.sorted[s]
                          next == {i \in DOMAIN list : list[i].accurate /\ list[i].toe - t \in 0 .. 2}
                          i == nearestEphemeris(list, t % HoursOfWeek)
                      IN  IF next = {} THEN i = 0
                          ELSE i \in next /\ \A j \in next : list[i].toe <= list[j].toe
    BY DEF NearestIsNext
  <2> DEFINE list == tab.sorted[s]
             next == {i \in DOMAIN list : list[i].accurate /\ list[i].toe - t \in 0 .. 2}
             tow == t % HoursOfWeek
             i == nearestEphemeris(list, tow)
  <2>1. t \in Nat /\ tow \in Int
    <3>1. t \in Nat
      BY IssuesAssumption DEF NavInv, Tabled
    <3> QED  BY <3>1 DEF HoursOfWeek
  <2>2. list \in Seq(AnyEphs) /\ \A e \in Held(list) : e \in Entries
    BY DEF NavInv, Tabled, Tables, Entries, Held
  <2> HIDE DEF list, tow
  <2>3. \A e \in AnyEphs : e.t0e \in Int /\ e.accurate \in BOOLEAN
    BY DEF AnyEphs
  <2>4. /\ Close(list, tow) = {} => i = 0
        /\ Close(list, tow) # {} =>
              /\ i \in Close(list, tow)
              /\ \A j \in Close(list, tow) : Ahead(list[i], tow) <= Ahead(list[j], tow)
    <3> DEFINE S == AnyEphs
    <3>1. list \in Seq(S) /\ \A e \in S : e.t0e \in Int /\ e.accurate \in BOOLEAN
      BY <2>2, <2>3
    <3> HIDE DEF S
    <3> QED  BY <2>1, <3>1, NearestOf
  <2>5. ASSUME NEW j \in DOMAIN list
        PROVE  /\ Ahead(list[j], tow) \in 0 .. 2 <=> list[j].toe - t \in 0 .. 2
               /\ Ahead(list[j], tow) \in 0 .. 2 => Ahead(list[j], tow) = list[j].toe - t
    <3>1. PICK e : e = list[j]
      OBVIOUS
    <3>2. e \in AnyEphs /\ e \in Entries
      BY <2>2, <3>1, ElementOfSeq, LenProperties DEF Held
    <3>3. e.toe # -1
      BY <3>2
    <3>4. /\ e.toe \in Nat /\ e.t0e = e.toe % HoursOfWeek
          /\ \E k \in DOMAIN Issues[src] : e.toe = Issues[src][k].toe
      BY <3>2, <3>3 DEF AnyEphs
    <3>5. e.toe - t \in -165 .. 165
      BY <3>4, NearAssumption DEF NavInv, Tabled
    <3> QED  BY <2>1, <3>1, <3>4, <3>5, AheadOf DEF tow
  <2>6. next = Close(list, tow)
    BY <2>5 DEF Close
  <2>7. ASSUME next # {} PROVE i \in next /\ \A j \in next : list[i].toe <= list[j].toe
    <3>1. i \in next
      BY <2>4, <2>6, <2>7
    <3>2. ASSUME NEW j \in next PROVE list[i].toe <= list[j].toe
      <4>1. /\ Ahead(list[i], tow) <= Ahead(list[j], tow)
            /\ Ahead(list[i], tow) = list[i].toe - t /\ Ahead(list[j], tow) = list[j].toe - t
        BY <2>4, <2>5, <2>6, <2>7, <3>1
      <4>2. list[i].toe \in Nat /\ list[j].toe \in Nat
        <5>1. \A k \in DOMAIN list : list[k] \in AnyEphs /\ list[k] \in Entries
          BY <2>2, ElementOfSeq, LenProperties DEF Held
        <5>2. \A k \in DOMAIN list : list[k].toe \in Nat
          BY <5>1 DEF AnyEphs
        <5> QED  BY <3>1, <5>2
      <4> QED  BY <2>1, <4>1, <4>2
    <3> QED  BY <3>1, <3>2
  <2> HIDE DEF next, i
  <2>8. IF next = {} THEN i = 0 ELSE i \in next /\ \A j \in next : list[i].toe <= list[j].toe
    BY <2>4, <2>6, <2>7
  <2> QED  BY <2>8 DEF list, next, tow, i
<1> QED  BY <1>1, NavInductive, PTL
=============================================================================
