---------------------------- MODULE Configurator ----------------------------
(***************************************************************************)
(* libconfigurator: what configfile_parse_as_list() and the list and hash  *)
(* look-ups find in a configuration file, and what configfile_update()     *)
(* makes of it.  A file is a sequence of lines: [k |-> "section", n],      *)
(* [k |-> "token", n, v], or [k |-> "other"] (comments, blank lines, lines *)
(* that cannot be split).  Names are in lower case.                        *)
(***************************************************************************)
EXTENDS Integers, Sequences, SequencesExt

Section(n) == [k |-> "section", n |-> n]
Token(n, v) == [k |-> "token", n |-> n, v |-> v]
Other == [k |-> "other"]

Lines(names, values) ==
    [k : {"section"}, n : names] \cup [k : {"token"}, n : names, v : values] \cup [k : {"other"}]

\* configfile_parse_as_list: (section, token, value) of every token line, the
\* last one first, since list_add_entry() puts an entry in front of the others
AddLine(l, line) ==
    CASE line.k = "section" -> [l EXCEPT !.section = line.n]
      [] line.k = "token"   -> [l EXCEPT !.list = <<[s |-> l.section, t |-> line.n, v |-> line.v]>> \o @]
      [] line.k = "other"   -> l

ParseAsList(file) ==
    LET l[i \in 0 .. Len(file)] ==
            IF i = 0 THEN [section |-> "", list |-> << >>] ELSE AddLine(l[i - 1], file[i])
    IN  l[Len(file)].list

\* list_lookup: the first entry of the list that matches
Found(list, s, t) == {i \in DOMAIN list : list[i].s = s /\ list[i].t = t}

GetValue(list, s, t, default) ==
    LET I == Found(list, s, t)
    IN  IF I = {} THEN default ELSE list[CHOOSE i \in I : \A j \in I : i <= j].v

\* configfile_update: whether it is in the section, line by line.  A section line
\* while inside ends the section and is not looked at again.
Inside(file, s) ==
    LET in[i \in 0 .. Len(file)] ==
          IF i = 0 THEN FALSE
          ELSE IF file[i].k # "section" THEN in[i - 1]
          ELSE ~in[i - 1] /\ file[i].n = s
    IN  in

\* (Mutant) only the first line with the token is changed
UpdatedOnce(file, s, t, v) ==
    LET T == {i \in DOMAIN file : Inside(file, s)[i] /\ file[i].k = "token" /\ file[i].n = t}
    IN  [i \in DOMAIN file |-> IF i \in T /\ \A j \in T : i <= j THEN Token(t, v) ELSE file[i]]

\* Every line is copied; in the section, the token gets the new value
Updated(file, s, t, v) ==
    [i \in DOMAIN file |->
        IF Inside(file, s)[i] /\ file[i].k = "token" /\ file[i].n = t THEN Token(t, v) ELSE file[i]]

\* Where configfile_update() finds a token: in a section that is not right behind
\* another of the same name
SectionAt(file, i) ==
    LET H == {j \in 1 .. i : file[j].k = "section"} IN IF H = {} THEN 0 ELSE CHOOSE j \in H : \A m \in H : m <= j

Holds(file, s, t) ==
    {i \in DOMAIN file : file[i].k = "token" /\ file[i].n = t
                            /\ SectionAt(file, i) # 0 /\ file[SectionAt(file, i)].n = s}

Follows(file, i) ==
    LET h == SectionAt(file, i)
        p == IF h = 1 THEN 0 ELSE SectionAt(file, h - 1)
    IN  p # 0 /\ file[p].n = file[h].n

Editable(file, s, t) ==
    Holds(file, s, t) # {} /\ \A i \in Holds(file, s, t) : ~Follows(file, i)
=============================================================================
