------------------------------- MODULE Shell -------------------------------
(***************************************************************************)
(* What the user sees and types: the text of the boot, the menu and its    *)
(* command line (kernel/core/menu.c), the dashboard, and the screen of the *)
(* panic console with its restore (kernel/core/panic.c), over one screen   *)
(* memory that each of them writes in part.                                *)
(***************************************************************************)
EXTENDS Dashboard, SequencesExt

CONSTANTS
  CMD_MAX, LOG_LINES,
  Char,        \* the characters that a cell of the screen shows
  Letters,     \* the characters that are typed
  Stats,       \* the samples sysmon_get_stats may return
  Texts,       \* what vga_printf is given, at most MaxTexts times
  MaxTexts,
  Output,      \* by command line, what its command logs; a line that names no
               \* command is mapped to the "unknown" message
  Effect,      \* by command line, what its command then does
  ReadyMessages, RestoredMessage    \* logged by menu_init and by the restore

Lines == UNION {[1 .. n -> Letters] : n \in 0 .. CMD_MAX - 1}

ASSUME ShellAssumption ==
  /\ VGA_WIDTH = 80 /\ VGA_HEIGHT = 25
  /\ CMD_MAX \in 1 .. 64 /\ LOG_LINES \in 1 .. 8
  /\ Effect \in [Lines -> {"none", "clear", "dashboard", "halt", "fault"}]
  /\ DOMAIN Output = Lines
  /\ Effect[<< >>] = "none" /\ Output[<< >>] = << >>

\* No message that the kernel logs is wider than the log window.
Messages == {msg \in Seq(Char) : Len(msg) <= 76}

\* The samples of the system monitor are numbers.
Samples == [load : Nat, secs : Nat, ticks : Nat, used : Nat, total : Nat, heap : Nat,
            saved : Nat, ratio : Nat]

ASSUME ShellTextAssumption ==
  /\ {" ", "w", "+", "-", "|", "#", ".", "%", "/", ":", "?", "_", ">"} \subseteq Char
  /\ {"0", "1", "2", "3", "4", "5", "6", "7", "8", "9"} \subseteq Char
  /\ Letters \subseteq Char /\ Texts \subseteq Seq(Char \cup {Newline})
  /\ Output \in [Lines -> Seq(Messages)]
  /\ ReadyMessages \in Seq(Messages) /\ RestoredMessage \in Messages
  /\ U32 \in Nat \ {0} /\ Stats \subseteq Samples

VARIABLES
  pc,            \* "boot", "loop" (between two calls), "panic", "off"
  cmd_buf,       \* the first cmd_len characters of cmd_buf
  log_history, log_count, active_view,
  valid,         \* recovery_point.valid
  stats,         \* history: the sample drawn last
  printed,       \* history: what the boot has printed
  logged         \* history: what was logged since the log was cleared, the last
                 \* LOG_LINES messages of it

shellVars == <<cmd_buf, log_history, log_count, active_view>>
vars == <<vgaVars, pc, shellVars, valid, stats, printed, logged>>

Log == [lines |-> log_history, count |-> log_count]
-----------------------------------------------------------------------------
LogCut(msg) == SubSeq(msg, 1, IF Len(msg) < 78 THEN Len(msg) ELSE 78)

\* Mutant: a full log does not scroll.
log_print_Stuck(log, msg) ==
  IF log.count < LOG_LINES
  THEN [lines |-> [log.lines EXCEPT ![log.count + 1] = LogCut(msg)], count |-> log.count + 1]
  ELSE [log EXCEPT !.lines[LOG_LINES] = LogCut(msg)]

log_print(log, msg) ==
  IF log.count < LOG_LINES
  THEN [lines |-> [log.lines EXCEPT ![log.count + 1] = LogCut(msg)], count |-> log.count + 1]
  ELSE [log EXCEPT !.lines = [i \in 1 .. LOG_LINES |->
                                 IF i < LOG_LINES THEN log.lines[i + 1] ELSE LogCut(msg)]]

\* The messages msgs are logged one after another.
LogAll(log, msgs) ==
  LET after[i \in 0 .. Len(msgs)] == IF i = 0 THEN log ELSE log_print(after[i - 1], msgs[i])
  IN  after[Len(msgs)]

\* The same for the history.
Remember(h, msgs) ==
  LET all == h \o msgs
      skip == IF Len(all) > LOG_LINES THEN Len(all) - LOG_LINES ELSE 0
  IN  SubSeq(all, skip + 1, Len(all))

SetLog(log) == log_history' = log.lines /\ log_count' = log.count
-----------------------------------------------------------------------------
LogStrips(log) ==
  [i \in 1 .. LOG_LINES |->
     LET line == IF i <= log.count THEN log.lines[i] ELSE << >>
     IN  Strip(2, 7 + i, line \o Blanks(76 - Len(line)))]

PromptStrips(cmd) ==
  tui_draw_box(0, 20, 80, 3, Word(9))
  \o tui_printf_at(2, 21, Word(6) \o cmd)
  \o <<Strip(8 + Len(cmd), 21, <<"_">>), Strip(9 + Len(cmd), 21, Blanks(69 - Len(cmd)))>>

StatusStrips(st) ==
  tui_draw_box(0, 1, 80, 5, Word(15))
  \o tui_printf_at(2, 2, Word(10)) \o tui_printf_at(12, 2, Percent(st.load))
  \o tui_printf_at(20, 2, Word(8)) \o tui_printf_at(28, 2, Decimal[st.secs] \o Word(2))
  \o tui_printf_at(40, 2, Word(7)) \o tui_printf_at(47, 2, Decimal[st.ticks])
  \o tui_printf_at(60, 2, Word(5)) \o tui_printf_at(65, 2, Word(7))
  \o tui_printf_at(2, 3, Word(10)) \o tui_printf_at(12, 3, UsedOfTotal(st))
  \o tui_printf_at(30, 3, Word(6)) \o tui_printf_at(36, 3, Decimal[st.heap] \o Word(3))
  \o tui_printf_at(50, 3, Word(6)) \o tui_printf_at(56, 3, Word(12))

\* menu_render in the menu's view.
MenuStrips(st, log, cmd) ==
  tui_draw_header(Word(26), Word(6)) \o StatusStrips(st)
  \o tui_draw_box(0, 6, 80, 14, Word(16)) \o LogStrips(log)
  \o PromptStrips(cmd)
  \o tui_draw_footer(Word(59))

\* What menu_render draws in either view.
View(view, st, log, cmd) ==
  IF view = 1 THEN dashboard_render(st) ELSE MenuStrips(st, log, cmd)

\* menu_render, when the view, the log and the line have become these.
menu_render(mem, view, log, cmd) ==
  \E st \in Stats :
     /\ stats' = st
     /\ VGA_MEMORY' = Paint(mem, View(view, st, log, cmd))

\* aura_panic_interactive: the screen that it draws.
PanicStrips ==
  <<Strip(0, 0, Blanks(80)), Strip(2, 0, Word(39)), Strip(62, 0, Word(13))>>
  \o [y \in 1 .. 23 |-> Strip(0, y, Blanks(80))]
  \o tui_draw_box(2, 2, 76, 7, Word(24))
  \o tui_printf_at(4, 4, Word(10)) \o tui_printf_at(14, 4, Word(32))
  \o tui_printf_at(4, 6, Word(10)) \o tui_printf_at(14, 6, Word(37))
  \o tui_draw_box(2, 10, 76, 8, Word(29))
  \o tui_printf_at(4, 12, Word(44))
  \o [i \in 1 .. 3 |-> Strip(4, 12 + i, Word(29))] \o tui_printf_at(4, 16, Word(23))
  \o tui_draw_box(2, 19, 76, 4, Word(28))
  \o tui_printf_at(4, 20, Word(11)) \o tui_printf_at(16, 20, Word(44))
  \o tui_printf_at(4, 21, Word(10)) \o tui_printf_at(16, 21, Word(36))
  \o tui_printf_at(40, 21, Word(13)) \o tui_printf_at(54, 21, Word(16))
  \o <<Strip(0, 24, Blanks(80)), Strip(2, 24, Word(55))>>

aura_panic_interactive ==
  /\ pc' = "panic"
  /\ VGA_MEMORY' = Paint(VGA_MEMORY, PanicStrips)
  /\ UNCHANGED stats
-----------------------------------------------------------------------------
\* vga_init, at the start of kernel_main.
Init ==
  /\ VGA_MEMORY = BlankScreen /\ vga_row = 0 /\ vga_col = 0
  /\ pc = "boot" /\ valid = FALSE
  /\ cmd_buf = << >> /\ active_view = 0
  /\ log_history = [i \in 1 .. LOG_LINES |-> << >>] /\ log_count = 0
  /\ stats \in Stats
  /\ printed = << >> /\ logged = << >>

\* A line of the boot.  MaxTexts bounds the model.
vga_printf(text) ==
  /\ pc = "boot" /\ Len(printed) < MaxTexts
  /\ Becomes(vga_puts(Console, text))
  /\ printed' = Append(printed, text)
  /\ UNCHANGED <<pc, shellVars, valid, stats, logged>>

\* menu_init, menu_render, panic_set_recovery_point; what was printed does not matter
\* any more.
menu_init ==
  LET log == LogAll([lines |-> log_history, count |-> 0], ReadyMessages)
  IN  /\ pc = "boot"
      /\ pc' = "loop" /\ valid' = TRUE
      /\ cmd_buf' = << >> /\ active_view' = 0 /\ SetLog(log)
      /\ logged' = Remember(<< >>, ReadyMessages)
      /\ menu_render(VGA_MEMORY, 0, log, << >>)
      /\ printed' = << >>
      /\ UNCHANGED <<vga_row, vga_col>>

InMenu == pc = "loop" /\ active_view = 0
InDashboard == pc = "loop" /\ active_view = 1

\* execute_command after the line has been echoed: what it logs, then what it does.
\* A command that faults or halts does not come back to clear the line and draw.
Execute(line) ==
  LET msgs == <<<<">", " ">> \o line>> \o Output[line]
      log == LogAll(Log, msgs)
      after == IF Effect[line] = "clear" THEN [log EXCEPT !.count = 0] ELSE log
      view == IF Effect[line] = "dashboard" THEN 1 ELSE 0
  IN  /\ SetLog(after)
      /\ logged' = IF Effect[line] = "clear" THEN << >> ELSE Remember(logged, msgs)
      /\ active_view' = view
      /\ CASE Effect[line] = "fault" -> aura_panic_interactive /\ UNCHANGED cmd_buf
           [] Effect[line] = "halt"  -> pc' = "off" /\ UNCHANGED <<VGA_MEMORY, stats, cmd_buf>>
           [] OTHER -> /\ cmd_buf' = << >>
                       /\ menu_render(VGA_MEMORY, view, after, << >>)
                       /\ UNCHANGED pc

\* menu_handle_key for Enter.
Enter ==
  /\ InMenu
  /\ Execute(cmd_buf)
  /\ UNCHANGED <<vga_row, vga_col, valid, printed>>

Edit(line) ==
  /\ cmd_buf' = line
  /\ menu_render(VGA_MEMORY, 0, Log, line)
  /\ UNCHANGED <<vga_row, vga_col, pc, log_history, log_count, active_view, valid, printed,
                 logged>>

Backspace ==
  /\ InMenu /\ cmd_buf # << >>
  /\ Edit(SubSeq(cmd_buf, 1, Len(cmd_buf) - 1))

\* Mutant: a character that finds the line full is stored and not drawn.
Letter_Late(ch) ==
  /\ InMenu
  /\ IF Len(cmd_buf) < CMD_MAX - 2 THEN Edit(Append(cmd_buf, ch))
     ELSE /\ Len(cmd_buf) < CMD_MAX - 1
          /\ cmd_buf' = Append(cmd_buf, ch)
          /\ UNCHANGED <<vgaVars, pc, log_history, log_count, active_view, valid, stats,
                         printed, logged>>

Letter(ch) ==
  /\ InMenu /\ Len(cmd_buf) < CMD_MAX - 1
  /\ Edit(Append(cmd_buf, ch))

\* menu_handle_key in the dashboard, for q and for r.
DashboardKey(view) ==
  /\ InDashboard
  /\ active_view' = view
  /\ menu_render(VGA_MEMORY, view, Log, cmd_buf)
  /\ UNCHANGED <<vga_row, vga_col, pc, cmd_buf, log_history, log_count, valid, printed,
                 logged>>

LiveStrips(st) ==
  tui_printf_at(12, 2, Percent(st.load) \o Blanks(1))
  \o tui_printf_at(28, 2, Decimal[st.secs] \o Word(2) \o Blanks(2))
  \o tui_printf_at(47, 2, Decimal[st.ticks] \o Blanks(3))

menu_update ==
  /\ pc = "loop"
  /\ \E st \in Stats :
        /\ stats' = st
        /\ VGA_MEMORY' = Paint(VGA_MEMORY, IF active_view = 0 THEN LiveStrips(st)
                                           ELSE dashboard_render(st))
  /\ UNCHANGED <<vga_row, vga_col, pc, shellVars, valid, printed, logged>>

\* A fault of the kernel while it boots, or between two calls of the loop.
Fault ==
  /\ pc \in {"boot", "loop"}
  /\ aura_panic_interactive
  /\ printed' = << >>
  /\ UNCHANGED <<vga_row, vga_col, shellVars, valid, logged>>

\* panic_do_restore: vga_init, menu_log, menu_render, and back to the loop.
panic_do_restore ==
  LET log == LogAll(Log, <<RestoredMessage>>)
  IN  /\ pc = "panic" /\ valid
      /\ pc' = "loop"
      /\ SetLog(log) /\ logged' = Remember(logged, <<RestoredMessage>>)
      /\ vga_row' = 0 /\ vga_col' = 0
      /\ menu_render(BlankScreen, active_view, log, cmd_buf)
      /\ UNCHANGED <<cmd_buf, active_view, valid, printed>>

Notice(text) == VGA_MEMORY' = Paint(VGA_MEMORY, tui_printf_at(2, 23, text))

NoRestorePoint ==
  /\ pc = "panic" /\ ~ valid
  /\ Notice(Word(58))
  /\ UNCHANGED <<vga_row, vga_col, pc, shellVars, valid, stats, printed, logged>>

\* panic_do_poweroff on hardware that does not power off.
panic_do_poweroff ==
  /\ pc = "panic" /\ pc' = "off"
  /\ Notice(Word(58))
  /\ UNCHANGED <<vga_row, vga_col, shellVars, valid, stats, printed, logged>>

\* The machine is reset: the end of this model.
panic_do_reboot ==
  /\ pc = "panic" /\ pc' = "off"
  /\ UNCHANGED <<vgaVars, shellVars, valid, stats, printed, logged>>

Next ==
  \/ \E text \in Texts : vga_printf(text)
  \/ menu_init
  \/ Enter \/ Backspace
  \/ \E ch \in Letters : Letter(ch)
  \/ \E view \in {0, 1} : DashboardKey(view)
  \/ menu_update
  \/ Fault
  \/ panic_do_restore \/ NoRestorePoint \/ panic_do_poweroff \/ panic_do_reboot

Spec == Init /\ [][Next]_vars
-----------------------------------------------------------------------------
\* The types of the shell's variables.
TypeOK ==
  /\ pc \in {"boot", "loop", "panic", "off"}
  /\ \A y \in Rows : VGA_MEMORY[y] \in Seq(Char) /\ Len(VGA_MEMORY[y]) = VGA_WIDTH
  /\ vga_row \in Rows /\ vga_col \in 0 .. VGA_WIDTH - 1
  /\ cmd_buf \in Lines /\ active_view \in {0, 1}
  /\ DOMAIN log_history = 1 .. LOG_LINES /\ log_count \in 0 .. LOG_LINES
  /\ valid \in BOOLEAN /\ stats \in Stats

\* Everything the boot prints is on the screen as a reader would lay it out, scrolled
\* to its end: lines of exactly the width of the screen, empty lines and the row that
\* scrolling opens included (vga_putc, vga_newline, vga_scroll).
BootTextShown == pc = "boot" => ShowsTail(Console, FlattenSeq(printed))

\* The rows that a view draws and nothing draws over: not the row above the footer,
\* which is nobody's, and not the numbers that menu_update writes into row 2.
Owned == IF active_view = 1 THEN Rows \ {VGA_HEIGHT - 2} ELSE Rows \ {2, VGA_HEIGHT - 2}

\* Whatever was on the screen before (the boot's text, the other view, the panic
\* screen), nothing of it is left: the screen is the picture that the view draws on an
\* empty one.
NoLeftovers ==
  /\ TypeOK
  /\ pc = "loop" =>
       \E st \in Stats :
         LET picture == Paint(BlankScreen, View(active_view, st, Log, cmd_buf))
         IN  \A y \in Owned : VGA_MEMORY[y] = picture[y]

\* The status bar shows the load that was sampled last, as a percentage
\* (menu.c:285: "Update the live stats numbers without clearing the whole screen").
StatusBarShowsLoad ==
  InMenu => LET shown == Percent(stats.load)
            IN  SubSeq(VGA_MEMORY[2], 13, 20) = shown \o Blanks(8 - Len(shown))

\* The log window shows the last messages logged since it was cleared, oldest first,
\* and the rows below them are empty: also after a restore, after more lines than
\* there is room for, and back from the dashboard.
LogShown ==
  InMenu =>
    \A i \in 1 .. LOG_LINES :
      LET line == IF i <= Len(logged) THEN logged[i] ELSE << >>
      IN  SubSeq(VGA_MEMORY[7 + i], 3, 78) = line \o Blanks(76 - Len(line))

\* The line that Enter would run is the one that the user sees before the cursor, also
\* when it is the one whose command faulted.
RunsWhatIsShown ==
  InMenu => SubSeq(VGA_MEMORY[21], 9, 78) = cmd_buf \o <<"_">> \o Blanks(69 - Len(cmd_buf))
=============================================================================
