-------------------------------- MODULE Tui --------------------------------
(***************************************************************************)
(* The text user interface (kernel/drivers/tui.c), which writes cells of   *)
(* the screen by coordinates.  What a function of it draws is a sequence   *)
(* of strips, each a text at a place of one row, painted one over another. *)
(* Borders are one of four characters and words are w's of their length.   *)
(***************************************************************************)
EXTENDS Vga

CONSTANT U32    \* 2^32, or a smaller power of 2

Strip(x, y, text) == [x |-> x, y |-> y, text |-> text]

Word(n) == Rep("w", n)
Blanks(n) == Rep(" ", n)

\* The decimal digits of a number.
Digit == <<"0", "1", "2", "3", "4", "5", "6", "7", "8", "9">>
Decimal[n \in Nat] == IF n < 10 THEN <<Digit[n + 1]>>
                      ELSE Append(Decimal[n \div 10], Digit[(n % 10) + 1])

\* tui_putc_at and tui_puts_at on the row they name: the cells from x on are written,
\* up to the edge of the screen.
tui_puts_at(row, x, text) ==
  LET n == IF x + Len(text) > VGA_WIDTH THEN VGA_WIDTH - x ELSE Len(text)
  IN  SubSeq(row, 1, x) \o SubSeq(text, 1, n) \o SubSeq(row, x + n + 1, VGA_WIDTH)

\* Rows outside the screen are not written.
Paint(mem, strips) ==
  LET after[i \in 0 .. Len(strips)] ==
        IF i = 0 THEN mem
        ELSE LET s == strips[i]
             IN  IF s.y \in Rows /\ s.x < VGA_WIDTH
                 THEN [after[i - 1] EXCEPT ![s.y] = tui_puts_at(@, s.x, s.text)]
                 ELSE after[i - 1]
  IN  after[Len(strips)]

\* The text is built in a buffer of 80 characters.
tui_printf_at(x, y, text) ==
  <<Strip(x, y, SubSeq(text, 1, IF Len(text) < 80 THEN Len(text) ELSE 80))>>

\* Mutant: the rows inside keep what they show.
tui_draw_box_Hollow(x, y, w, h, title) ==
  LET Border == <<"+">> \o Rep("-", w - 2) \o <<"+">>
  IN  <<Strip(x, y, Border), Strip(x + 2, y, <<" ">> \o title \o <<" ">>)>>
      \o [j \in 1 .. h - 2 |-> Strip(x, y + j, <<"|">>)]
      \o <<Strip(x, y + h - 1, Border)>>

tui_draw_box(x, y, w, h, title) ==
  LET Border == <<"+">> \o Rep("-", w - 2) \o <<"+">>
      shown == SubSeq(title, 1, IF Len(title) < w - 5 THEN Len(title) ELSE w - 5)
  IN  IF w < 2 \/ h < 2 THEN << >>
      ELSE <<Strip(x, y, Border), Strip(x + 2, y, <<" ">> \o shown \o <<" ">>)>>
           \o [j \in 1 .. h - 2 |-> Strip(x, y + j, <<"|">> \o Blanks(w - 2) \o <<"|">>)]
           \o <<Strip(x, y + h - 1, Border)>>

tui_draw_bar(x, y, width, val, max) ==
  LET share == ((val * width) % U32) \div max
      filled == IF share > width THEN width ELSE share
  IN  IF width <= 0 \/ max = 0 THEN << >>
      ELSE <<Strip(x, y, Rep("#", filled) \o Rep(".", width - filled))>>

tui_draw_header(title, subtitle) ==
  <<Strip(0, 0, Blanks(VGA_WIDTH)), Strip(1, 0, title),
    Strip(VGA_WIDTH - Len(subtitle) - 2, 0, subtitle)>>

tui_draw_footer(hints) ==
  <<Strip(0, VGA_HEIGHT - 1, Blanks(VGA_WIDTH)), Strip(2, VGA_HEIGHT - 1, hints)>>
=============================================================================
