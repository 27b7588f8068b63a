----------------------------- MODULE LCDMonitor -----------------------------
(***************************************************************************)
(* lcdmonitor, the front panel: the status screen, the menus and dialogs,  *)
(* the packets exchanged with the CFA635 display, and the settings kept in *)
(* lcdmonitor.conf.  The program is one thread: it works through "todo",   *)
(* the packets to send and the things to do before it next looks for a     *)
(* key.  Every packet sent is followed by getResponse(), which takes the   *)
(* next packet that came, whatever it is.  A packet is sent once: what the *)
(* display did not get is not sent again.                                  *)
(***************************************************************************)
EXTENDS Configurator, FiniteSets

CONSTANTS
    MaxLevel,       \* the intensity is 1 .. MaxLevel steps
    Timeouts,       \* what the backlight timeout can be
    Files,          \* configuration files to start with
    KeyCodes,       \* the keys the user presses
    MaxInbox,       \* the user types no further ahead than this
    MaxLate,        \* so many answers are late at a time
    OneLoss         \* no packet is lost before the display is right after the last one

VARIABLES
    ui,         \* the screen: status, menu or dialog; the menus, the row, the dialog
    todo,       \* what is still to be done
    inbox,      \* packets from the display that have not been read
    armed, timeout,     \* the SIGALRM timer, and its flag
    cache,      \* status[] and statusLED[3]: what the display was told to show
    dark,       \* displaybacklightoff
    cfg,        \* the settings
    file, tmpfile,      \* lcdmonitor.conf and lcdmonitor.conf.tmp
    disp,       \* the display: its top line and its backlight
    lazy,       \* lastLazyCheck is 0: check now
    held,       \* a key is down
    late,       \* answers that the program gave up and that may come
    lost        \* the display did not get the last packet for the backlight

link == <<late, lost>>

vars == <<ui, todo, inbox, armed, timeout, cache, dark, cfg, file, tmpfile,
          disp, lazy, held, link>>

\* makeMenu(); of the items that do alike - the display modes, the texts to read,
\* the commands - there are fewer than the program has
Menus ==
    [main        |-> <<"setup", "sysinfo", "restart">>,
     setup       |-> <<"lcdSetup", "displayMode">>,
     lcdSetup    |-> <<"settings", "backlight">>,
     displayMode |-> <<"GPS", "NTP">>,
     restart     |-> <<"poweroff">>]

\* A display mode is its number, also in the configuration file
Mode == [GPS |-> 0, NTP |-> 1]
Modes == DOMAIN Mode
Messages == {"sysinfo"}
Commands == {"poweroff"}

\* The widgets of a dialog that take the focus, in the order of orderChildren()
Widgets(d) ==
    CASE d = "settings"  -> <<"slider", "OK", "Cancel">>
      [] d = "backlight" -> <<"number", "OK", "Cancel">>
      [] d \in Commands  -> <<"Yes", "No">>
      [] d \in Messages  -> <<"text">>

----------------------------------------------------------------------------
(* Packets and what is shown *)

\* What a line shows: words, and a number among them
Text(w, n) == <<w, n>>
NoText == Text("", 0)

\* A packet or another thing to do: a number and a text go with it
Op(op, n, text) == [op |-> op, n |-> n, text |-> text]

Clear == <<Op("clear", 0, NoText)>>
Line(row, text) == <<Op("line", row, text)>>
Cursor == <<Op("cursor", 0, NoText)>>
Back(level) == <<Op("back", level, NoText)>>
LED(s) == <<Op("led", 1, Text(s, 0)), Op("led", 2, Text(s, 0))>>  \* one packet for each colour

Blank == [r \in 0 .. 3 |-> NoText]

\* updateLine() and updateStatusLED() leave out what the display was told already
Cached(c) ==
    \/ c.op = "line" /\ c.text # Text("clock", 0) /\ cache.lines[c.n] = c.text
    \/ c.op = "led" /\ c.n = 1 /\ cache.led = c.text

\* What a packet makes of the lines
LinesAfter(lines, c) ==
    IF c.op = "clear" THEN Blank
    ELSE IF c.op = "line" THEN [lines EXCEPT ![c.n] = c.text]
    ELSE lines

\* A packet reaches the display.  A question is on the top line; the others say nothing
\* that an ENTER is given to
Shown(c) ==
    [top  |-> IF c.op = "clear" THEN NoText
              ELSE IF c.op = "line" /\ c.n = 0 THEN c.text
              ELSE disp.top,
     back |-> IF c.op = "back" THEN c.n ELSE disp.back]

Packets == {"clear", "line", "cursor", "back", "led"}

Response == [kind |-> "response", seen |-> NoText]

IsKey(p) == p.kind # "response"

Skip ==
    /\ todo # << >> /\ Head(todo).op \in Packets
    /\ Cached(Head(todo))
    /\ todo' = IF Head(todo).op = "led" THEN Tail(Tail(todo)) ELSE Tail(todo)
    /\ UNCHANGED <<ui, inbox, armed, timeout, cache, dark, cfg, file, tmpfile, disp,
                   lazy, held, link>>

\* (Mutant) the answer is not waited for
GetResponseLater(q) == q

\* getResponse() reads one packet, or gives up and opens the port again
GetResponse(q) == IF q = << >> THEN q ELSE Tail(q)

\* status[] and statusLED[3] are set before the packet is sent; clearDisplay()
\* empties status[]
Believed(c) ==
    [lines |-> LinesAfter(cache.lines, c), led |-> IF c.op = "led" THEN c.text ELSE cache.led]

\* A packet is sent once, and may not arrive whole.  Its answer may come in time or
\* not; a packet that did not arrive has none
Exchange ==
    /\ todo # << >> /\ Head(todo).op \in Packets
    /\ ~Cached(Head(todo))
    /\ LET c == Head(todo)
       IN  /\ cache' = Believed(c)
           /\ \/ /\ disp' = Shown(c)
                 /\ lost' = (lost /\ c.op # "back")
                 /\ \/ inbox' = GetResponse(Append(inbox, Response)) /\ late' = late
                    \/ inbox' = GetResponse(inbox) /\ late < MaxLate /\ late' = late + 1
              \/ /\ OneLoss => ~lost /\ disp.top = cache.lines[0]
                 /\ lost' = (lost \/ c.op = "back")
                 /\ inbox' = GetResponse(inbox)
                 /\ UNCHANGED <<disp, late>>
    /\ todo' = Tail(todo)
    /\ UNCHANGED <<ui, armed, timeout, dark, cfg, file, tmpfile, lazy, held>>

Running == ui.at \notin {"down", "dead"}

\* A packet from the display is there to be read, if the program is
Receive(p) == inbox' = IF Running THEN Append(inbox, p) ELSE inbox

\* An answer may come after all, when the program went on long ago
LateAnswer ==
    /\ late > 0
    /\ late' = late - 1
    /\ Receive(Response)
    /\ UNCHANGED <<ui, todo, armed, timeout, cache, dark, cfg, file, tmpfile, disp,
                   lazy, held, lost>>

----------------------------------------------------------------------------
(* Things to do that are not packets *)

\* configfile_update() writes a temporary file, removes the old one, renames
Update(t, v) == <<Op("write", v, Text(t, 0)), Op("unlink", 0, NoText), Op("rename", 0, NoText)>>

Missing == <<[k |-> "missing"]>>

\* The program starts from a file that is there
ASSUME LCDAssumption ==
    /\ MaxInbox \in Nat /\ MaxLate \in Nat /\ OneLoss \in BOOLEAN
    /\ Files \subseteq Seq(Lines(STRING, Int))

UpdateConfig ==
    /\ todo # << >>
    /\ LET c == Head(todo)
       IN  \/ /\ c.op = "write"
              /\ tmpfile' = Updated(file, "ui", c.text[1], c.n)
              /\ UNCHANGED file
           \/ /\ c.op = "unlink"
              /\ file' = Missing
              /\ UNCHANGED tmpfile
           \/ /\ c.op = "rename"
              /\ file' = tmpfile
              /\ tmpfile' = Missing
    /\ todo' = Tail(todo)
    /\ UNCHANGED <<ui, inbox, armed, timeout, cache, dark, cfg, disp, lazy, held, link>>

\* system() and the sleep after it: keys pile up meanwhile
System ==
    /\ todo # << >> /\ Head(todo).op = "system"
    /\ \E text \in {"ok", "failed"} : todo' = Line(2, Text(text, 0)) \o Tail(todo)
    /\ UNCHANGED <<ui, inbox, armed, timeout, cache, dark, cfg, file, tmpfile, disp,
                   lazy, held, link>>

----------------------------------------------------------------------------
(* The screens *)

Status == [at |-> "status", menus |-> << >>, row |-> 1, dlg |-> "", focus |-> 1, edit |-> 0]

InMenu(menus, row) == [Status EXCEPT !.at = "menu", !.menus = menus, !.row = row]

Items(u) == Menus[Last(u.menus)]

\* One round of the loop of execMenu()
DrawMenu(u) ==
    Clear \o [i \in 1 .. Len(Items(u)) |-> Op("line", i - 1, Text(Items(u)[i], 0))] \o Cursor

DialogLines(d, edit) ==
    CASE d = "settings"  -> <<Text("level", edit), NoText, NoText, Text("OK Cancel", 0)>>
      [] d = "backlight" -> <<Text("timeout", 0), Text("minutes", edit), NoText, Text("OK Cancel", 0)>>
      [] d \in Commands  -> <<Text(d, 0), Text("Yes", 0), Text("No", 0), NoText>>
      [] d \in Messages  -> [i \in 1 .. 4 |-> Text("report", 0)]

\* The rows are padded to 20 characters: a blank one is sent as well, and none is
\* what a menu shows
Padded(text) == <<text[1], text[2], "padded">>

Rows(d, edit) == [i \in 1 .. 4 |-> Op("line", i - 1, Padded(DialogLines(d, edit)[i]))]

DrawDialog(d, edit) == Clear \o Rows(d, edit) \o Cursor

\* (Mutant) the flag is reset and the timer is not set
StartTimerNot == UNCHANGED armed /\ timeout' = FALSE

\* startTimer(300)
StartTimer == armed' = TRUE /\ timeout' = FALSE

LeaveMenu ==
    /\ ui' = Status
    /\ todo' = Cursor \o Clear
    /\ lazy' = TRUE
    /\ armed' = FALSE

Idle(at) == ui.at = at /\ todo = << >>

\* A packet read while waiting for keys starts the timer again
ReadPacket(at) ==
    /\ Idle(at) /\ ~timeout
    /\ inbox # << >>
    /\ inbox' = Tail(inbox)
    /\ UNCHANGED <<cache, file, tmpfile, disp, held, link>>

----------------------------------------------------------------------------
(* run(): the status screen *)

ShowStatus ==
    /\ Idle("status")
    /\ inbox = << >>
    /\ \E check \in {lazy, TRUE}, alarms \in BOOLEAN : \* files in the alarm directory
          todo' = Line(0, Text("clock", 0)) \o
                  (IF check THEN Line(1, Text("mode", cfg.mode)) \o Line(3, Text(IF alarms THEN "ALARM" ELSE "OK", 0))
                                    \o LED(IF alarms THEN "red" ELSE "green")
                            ELSE << >>)
    /\ lazy' = FALSE
    /\ UNCHANGED <<ui, inbox, armed, timeout, cache, dark, cfg, file, tmpfile, disp,
                   held, link>>

\* The backlight goes off when displaytimeout has passed since it went on
BacklightOff ==
    /\ Idle("status")
    /\ cfg.timeout # 0 /\ ~dark
    /\ dark' = TRUE
    /\ todo' = Back(0)
    /\ UNCHANGED <<ui, inbox, armed, timeout, cache, cfg, file, tmpfile, disp,
                   lazy, held, link>>

StatusOther ==
    /\ Idle("status")
    /\ inbox # << >> /\ ~IsKey(Head(inbox))
    /\ inbox' = Tail(inbox)
    /\ UNCHANGED <<ui, todo, armed, timeout, cache, dark, cfg, file, tmpfile, disp,
                   lazy, held, link>>

\* Any key: light, then execMenu()
StatusKey ==
    /\ Idle("status")
    /\ inbox # << >> /\ IsKey(Head(inbox))
    /\ inbox' = Tail(inbox)
    /\ dark' = FALSE
    /\ ui' = InMenu(<<"main">>, 1)
    /\ todo' = (IF dark THEN Back(cfg.intensity) ELSE << >>)
                  \o Clear \o LED("off") \o Cursor \o DrawMenu(ui')
    /\ StartTimer
    /\ UNCHANGED <<cache, cfg, file, tmpfile, disp, lazy, held, link>>

----------------------------------------------------------------------------
(* execMenu() *)

\* An item that is not a menu: a dialog, or a display mode
ExecItem(item) ==
    IF item \in Modes
    THEN /\ cfg' = [cfg EXCEPT !.mode = Mode[item]]
         /\ todo' = (IF cfg.mode = Mode[item] THEN << >> ELSE Update("display mode", Mode[item]) \o Clear)
                        \o DrawMenu(ui)
         /\ UNCHANGED ui
    ELSE LET edit == IF item = "settings" THEN cfg.intensity
                     ELSE IF item = "backlight" THEN cfg.timeout ELSE 0
         IN  /\ ui' = [ui EXCEPT !.at = "dialog", !.dlg = item, !.edit = edit, !.focus = 1]
             /\ todo' = DrawDialog(item, edit)
             /\ UNCHANGED cfg

Stay == UNCHANGED <<ui, todo>>

MenuPacket ==
    /\ ReadPacket("menu")
    /\ UNCHANGED dark
    /\ LET k == Head(inbox).kind
           item == Items(ui)[ui.row]
       IN  \/ /\ k \in {"enter", "right"}
              /\ IF item \in DOMAIN Menus
                 THEN /\ ui' = InMenu(Append(ui.menus, item), 1)
                      /\ todo' = DrawMenu(ui')
                      /\ UNCHANGED cfg
                 ELSE ExecItem(item)
              /\ StartTimer
              /\ UNCHANGED lazy
           \/ /\ k \in {"up", "down"}
              /\ ui' = [ui EXCEPT !.row = IF k = "up" THEN (IF @ > 1 THEN @ - 1 ELSE @)
                                          ELSE IF @ < Len(Items(ui)) THEN @ + 1 ELSE @]
              /\ todo' = Cursor
              /\ StartTimer
              /\ UNCHANGED <<lazy, cfg>>
           \/ /\ k = "left" /\ Len(ui.menus) > 1
              /\ ui' = InMenu(Front(ui.menus), 1)
              /\ todo' = DrawMenu(ui')
              /\ StartTimer
              /\ UNCHANGED <<lazy, cfg>>
           \/ /\ k = "exit" \/ (k = "left" /\ Len(ui.menus) = 1)
              /\ LeaveMenu
              /\ UNCHANGED <<cfg, timeout>>
           \/ /\ k \in {"response", "press"}
              /\ Stay
              /\ StartTimer
              /\ UNCHANGED <<lazy, cfg>>

MenuTimeout ==
    /\ Idle("menu") /\ timeout
    /\ LeaveMenu
    /\ UNCHANGED <<inbox, timeout, cache, dark, cfg, file, tmpfile, disp, held, link>>

----------------------------------------------------------------------------
(* execDialog() and what its callers do afterwards *)

Widget(u) == Widgets(u.dlg)[u.focus]

Around(u, d) ==
    LET n == Len(Widgets(u.dlg)) IN [u EXCEPT !.focus = ((@ - 1 + d + n) % n) + 1]

\* Left and right move a slider, up and down a number; else they move the focus
Edits(u, k) ==
    \/ Widget(u) = "slider" /\ k \in {"left", "right"}
    \/ Widget(u) = "number" /\ k \in {"up", "down"}

Edited(u, k) ==
    LET v == u.edit + (IF k \in {"right", "up"} THEN 1 ELSE -1)
    IN  IF v \in (IF Widget(u) = "slider" THEN 1 .. MaxLevel ELSE Timeouts) THEN v ELSE u.edit

Accepts(u, k) ==
    \/ u.dlg \in Messages
    \/ k = "enter" /\ Widget(u) \in {"OK", "Yes", "slider", "number"} \* the first button takes it

\* (Mutant) the settings are given up, and the backlight stays as the slider had it
FinishAsSeen(ok, seen) ==
    LET u == InMenu(ui.menus, ui.row)
        changed == ok /\ ((ui.dlg = "settings" /\ ui.edit # cfg.intensity)
                            \/ (ui.dlg = "backlight" /\ ui.edit # cfg.timeout))
    IN  /\ ui' = u
        /\ cfg' = IF ~changed THEN cfg
                  ELSE IF ui.dlg = "settings" THEN [cfg EXCEPT !.intensity = ui.edit]
                  ELSE [cfg EXCEPT !.timeout = ui.edit]
        /\ todo' = (IF changed
                    THEN Update(IF ui.dlg = "settings" THEN "lcd intensity" ELSE "lcd timeout", ui.edit)
                    ELSE IF ui.dlg \in Commands /\ ok
                    THEN Clear \o <<Op("system", 0, seen)>>
                    ELSE << >>) \o DrawMenu(u)
        /\ StartTimer

Finish(ok, seen) ==
    LET u == InMenu(ui.menus, ui.row)
        changed == ok /\ ((ui.dlg = "settings" /\ ui.edit # cfg.intensity)
                            \/ (ui.dlg = "backlight" /\ ui.edit # cfg.timeout))
    IN  /\ ui' = u
        /\ cfg' = IF ~changed THEN cfg
                  ELSE IF ui.dlg = "settings" THEN [cfg EXCEPT !.intensity = ui.edit]
                  ELSE [cfg EXCEPT !.timeout = ui.edit]
        /\ todo' = (IF changed
                    THEN Update(IF ui.dlg = "settings" THEN "lcd intensity" ELSE "lcd timeout", ui.edit)
                    ELSE IF ui.dlg = "settings" /\ ~ok THEN Back(cfg.intensity)
                    ELSE IF ui.dlg \in Commands /\ ok
                    THEN Clear \o <<Op("system", 0, seen)>>
                    ELSE << >>) \o DrawMenu(u)
        /\ StartTimer

DialogPacket ==
    /\ ReadPacket("dialog")
    /\ UNCHANGED <<dark, lazy>>
    /\ LET k == Head(inbox).kind
       IN  \/ /\ k = "exit"
              /\ Finish(FALSE, NoText)
           \/ /\ k \in {"enter", "up", "down", "left", "right"}
              /\ Accepts(ui, k)
              /\ Finish(TRUE, Head(inbox).seen)
           \/ /\ k = "enter" /\ ~Accepts(ui, k)
              /\ Finish(FALSE, NoText)
           \/ /\ k \in {"up", "down", "left", "right"} /\ ~Accepts(ui, k)
              /\ IF Edits(ui, k)
                 THEN /\ ui' = [ui EXCEPT !.edit = Edited(ui, k)]
                      /\ todo' = (IF Widget(ui) = "slider" THEN Back(ui'.edit) ELSE << >>)
                                    \o Rows(ui.dlg, ui'.edit)
                                    \o Cursor
                 ELSE /\ ui' = Around(ui, IF k \in {"down", "right"} THEN 1 ELSE -1)
                      /\ todo' = Cursor
              /\ StartTimer
              /\ UNCHANGED cfg
           \/ /\ k \in {"response", "press"}
              /\ Stay
              /\ StartTimer
              /\ UNCHANGED cfg

DialogTimeout ==
    /\ Idle("dialog") /\ timeout
    /\ Finish(FALSE, NoText)
    /\ UNCHANGED <<inbox, cache, dark, file, tmpfile, disp, lazy, held, link>>

\* 300 s without a packet
Alarm ==
    /\ armed /\ ~timeout
    /\ Idle("menu") \/ Idle("dialog")
    /\ timeout' = TRUE /\ armed' = FALSE
    /\ UNCHANGED <<ui, todo, inbox, cache, dark, cfg, file, tmpfile, disp,
                   lazy, held, link>>

----------------------------------------------------------------------------
(* Start and end *)

Configured(f) ==
    LET list == ParseAsList(f)
    IN  [mode      |-> GetValue(list, "ui", "display mode", Mode["GPS"]),
         intensity |-> GetValue(list, "ui", "lcd intensity", MaxLevel),
         timeout   |-> GetValue(list, "ui", "lcd timeout", 0)]

Startup(c) == LED("off") \o Back(c.intensity) \o Clear

Unknown == [lines |-> Blank, led |-> Text("unknown", 0)]

Init ==
    /\ file \in Files
    /\ tmpfile = Missing
    /\ cfg = Configured(file)
    /\ ui = Status
    /\ todo = Startup(cfg)
    /\ cache = Unknown
    /\ inbox = << >>
    /\ armed = FALSE /\ timeout = FALSE
    /\ dark = FALSE
    /\ disp = [top |-> NoText, back |-> MaxLevel]
    /\ lazy = TRUE
    /\ held = FALSE
    /\ late = 0 /\ lost = FALSE

\* SIGTERM at any time: the display is cleared, if it gets the packet, and the program
\* gone.  So it is, and the display as it was, when getResponse() cannot open the port
\* again
Terminate ==
    /\ Running
    /\ ui' = [Status EXCEPT !.at = "down"]
    /\ todo' = << >> /\ inbox' = << >>
    /\ armed' = FALSE /\ timeout' = FALSE
    /\ disp' \in {disp, [disp EXCEPT !.top = NoText]}
    /\ cache' = Unknown /\ dark' = FALSE /\ lazy' = TRUE
    /\ UNCHANGED <<cfg, file, tmpfile, held, link>>

Restart ==
    /\ ui.at = "down"
    /\ IF file = Missing
       THEN /\ ui' = [Status EXCEPT !.at = "dead"]
            /\ UNCHANGED <<cfg, todo>>
       ELSE /\ ui' = Status
            /\ cfg' = Configured(file)
            /\ todo' = Startup(cfg')
    /\ UNCHANGED <<inbox, armed, timeout, cache, dark, file, tmpfile, disp, lazy, held, link>>

----------------------------------------------------------------------------
(* The user and the system *)

Send(p) ==
    /\ Receive(p)
    /\ UNCHANGED <<ui, todo, armed, timeout, cache, dark, cfg, file, tmpfile, disp,
                   lazy, link>>

Press ==
    /\ ~held
    /\ Len(inbox) < MaxInbox
    /\ held' = TRUE
    /\ Send([kind |-> "press", seen |-> NoText])

\* The top line is not what the program sent there: the packet was lost
Unshown == Text("unshown", 0)

\* The question on the display, as the user sees it
Asked == IF \E c \in Commands : disp.top = Padded(Text(c, 0)) THEN disp.top ELSE NoText

\* It is the release of a key that the program acts on, so which key it was matters
\* only then
Release(k) ==
    /\ held
    /\ Send([kind |-> k,
             seen |-> IF k # "enter" THEN NoText
                      ELSE IF disp.top # cache.lines[0] THEN Unshown ELSE Asked])
    /\ held' = FALSE

----------------------------------------------------------------------------
Program ==
    \/ Skip \/ Exchange \/ UpdateConfig \/ System
    \/ ShowStatus \/ StatusOther \/ StatusKey
    \/ MenuPacket \/ MenuTimeout \/ DialogPacket \/ DialogTimeout

Next ==
    \/ Program
    \/ BacklightOff \/ Alarm \/ LateAnswer
    \/ Terminate \/ Restart
    \/ Press
    \/ \E k \in KeyCodes : Release(k)

\* The process is scheduled, and the timer of the kernel goes off
Spec == Init /\ [][Next]_vars /\ WF_vars(Program \/ Alarm)

----------------------------------------------------------------------------
TypeOK ==
    /\ ui.at \in {"status", "menu", "dialog", "down", "dead"}
    /\ ui.at \in {"menu", "dialog"} => /\ ui.menus # << >> /\ ui.row \in DOMAIN Items(ui)
    /\ ui.at = "dialog" => ui.focus \in DOMAIN Widgets(ui.dlg)
    /\ cfg.mode \in {Mode[m] : m \in Modes} /\ cfg.intensity \in 1 .. MaxLevel /\ cfg.timeout \in Timeouts
    /\ \A r \in 0 .. 3 : r \in DOMAIN cache.lines

\* The level that the backlight should have
Want == IF dark THEN 0
        ELSE IF ui.at = "dialog" /\ ui.dlg = "settings" THEN ui.edit
        ELSE cfg.intensity

\* A slider that was moved and given up, by Cancel, EXIT or the timer, and a backlight
\* that went out are undone: when the program waits, the backlight is at the level it
\* should have, unless the last packet for it was lost
BacklightAsSet == Running /\ todo = << >> /\ ~lost => disp.back = Want

\* A command is run only for an ENTER given to the confirmation of that command, on
\* the display at the time, or else for one given when the packet with the question had
\* been lost: keys typed ahead while the panel was busy do not confirm, if no more than
\* five packets can wait
Confirmed ==
    \A i \in DOMAIN todo :
        todo[i].op = "system" => todo[i].text \in {Padded(Text(c, 0)) : c \in Commands} \cup {Unshown}

\* The settings in use are those that the next start will read - where the token is
\* in the file; and wherever configfile_update() is interrupted, the settings are in the
\* file or else in the temporary one (lcdmonitor does not look there: it does not start)
SomewhereSaved == file # Missing \/ tmpfile # Missing

Saved ==
  /\ SomewhereSaved
  /\ LET conf == Configured(file)
         Same(token, there, here) == there = here \/ ~Editable(file, "ui", token)
     IN  (Running /\ ~\E i \in DOMAIN todo : todo[i].op \in {"write", "unlink", "rename"}) =>
            /\ Same("display mode", conf.mode, cfg.mode)
            /\ Same("lcd intensity", conf.intensity, cfg.intensity)
            /\ Same("lcd timeout", conf.timeout, cfg.timeout)

\* An untouched panel returns to the status screen, from whatever depth
BackToStatus ==
    <>[](~held) => []<>(ui.at \in {"status", "down", "dead"})
=============================================================================
