----------------------------- MODULE Dashboard -----------------------------
(***************************************************************************)
(* What the dashboard draws (kernel/core/dashboard.c) from a sample st of  *)
(* the system monitor.  The static table of tasks shows nothing that       *)
(* changes: its format has widths that tui_printf_at copies as they are.   *)
(***************************************************************************)
EXTENDS Tui

\* From 100 hours on '0' + h / 10 is no digit of the hours: "?" stands for it.
TwoDigits(n) == <<IF n < 100 THEN Digit[(n \div 10) + 1] ELSE "?", Digit[(n % 10) + 1]>>

format_uptime(secs) ==
  TwoDigits(secs \div 3600) \o <<":">> \o TwoDigits((secs % 3600) \div 60) \o <<":">>
    \o TwoDigits(secs % 60)

Percent(n) == Decimal[n] \o <<"%">>

UsedOfTotal(st) == Decimal[st.used] \o <<"/">> \o Decimal[st.total] \o Word(3)

draw_cpu_box(st) ==
  tui_draw_box(0, 1, 40, 8, Word(5))
  \o tui_printf_at(2, 3, Word(4)) \o tui_printf_at(8, 3, Percent(st.load))
  \o tui_printf_at(20, 3, Word(5)) \o tui_printf_at(27, 3, Decimal[st.ticks])
  \o tui_draw_bar(2, 5, 36, st.load, 100)
  \o tui_printf_at(17, 6, Percent(st.load))

draw_memory_box(st) ==
  tui_draw_box(40, 1, 40, 8, Word(5))
  \o tui_printf_at(42, 3, Word(3)) \o tui_printf_at(47, 3, UsedOfTotal(st))
  \o tui_printf_at(42, 4, Word(4)) \o tui_printf_at(48, 4, Decimal[st.heap] \o Word(8))
  \o tui_printf_at(42, 5, Word(4))
  \o tui_printf_at(48, 5, Decimal[st.saved] \o Word(10) \o Decimal[st.ratio \div 100]
                          \o <<".">> \o Decimal[(st.ratio % 100) \div 10] \o Word(2))
  \o tui_draw_bar(42, 7, 36, st.used, st.total)

PROCESS_COUNT == 4

draw_process_table ==
  tui_draw_box(0, 9, 80, 14, Word(7))
  \o tui_printf_at(2, 11, Word(47)) \o <<Strip(50, 11, Blanks(28))>>
  \o [i \in 1 .. PROCESS_COUNT |-> Strip(2, 11 + i, Word(30))]

dashboard_render(st) ==
  tui_draw_header(Word(15), format_uptime(st.secs))
  \o draw_cpu_box(st) \o draw_memory_box(st) \o draw_process_table
  \o tui_draw_footer(Word(22))
=============================================================================
