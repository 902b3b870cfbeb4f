-------------------------------- MODULE Vga --------------------------------
(***************************************************************************)
(* The VGA text console (kernel/drivers/vga.c): the cells at 0xB8000 and   *)
(* the cursor that vga_printf moves.  A row of cells is a sequence, a      *)
(* character a string of one character; colours are left out.              *)
(***************************************************************************)
EXTENDS Integers, Sequences, FiniteSets

CONSTANTS VGA_WIDTH, VGA_HEIGHT

ASSUME VgaAssumption == {VGA_WIDTH, VGA_HEIGHT} \subseteq Nat \ {0}

VARIABLES VGA_MEMORY, vga_row, vga_col

vgaVars == <<VGA_MEMORY, vga_row, vga_col>>

Rows == 0 .. VGA_HEIGHT - 1
Newline == "\n"

\* n times the character ch.
Rep(ch, n) == [i \in 1 .. n |-> ch]

BlankScreen == [y \in Rows |-> Rep(" ", VGA_WIDTH)]

Console == [mem |-> VGA_MEMORY, row |-> vga_row, col |-> vga_col]

Becomes(con) == /\ VGA_MEMORY' = con.mem
                /\ vga_row' = con.row
                /\ vga_col' = con.col

\* vga_init and vga_clear
Cleared == [mem |-> BlankScreen, row |-> 0, col |-> 0]

\* Mutant: the last row is not blanked.
vga_scroll_Dirty(mem) == [y \in Rows |-> IF y + 1 \in Rows THEN mem[y + 1] ELSE mem[y]]

vga_scroll(mem) ==
  [y \in Rows |-> IF y + 1 \in Rows THEN mem[y + 1] ELSE Rep(" ", VGA_WIDTH)]

vga_newline(con) ==
  IF con.row + 1 >= VGA_HEIGHT
  THEN [mem |-> vga_scroll(con.mem), row |-> VGA_HEIGHT - 1, col |-> 0]
  ELSE [con EXCEPT !.row = @ + 1, !.col = 0]

vga_putc(con, ch) ==
  LET put == [con EXCEPT !.mem[con.row][con.col + 1] = ch, !.col = @ + 1]
  IN  IF ch = Newline THEN vga_newline(con)
      ELSE IF put.col >= VGA_WIDTH THEN vga_newline(put)
      ELSE put

\* vga_puts, and vga_printf with the text it formats.
vga_puts(con, text) ==
  LET after[i \in 0 .. Len(text)] ==
        IF i = 0 THEN con ELSE vga_putc(after[i - 1], text[i])
  IN  after[Len(text)]
-----------------------------------------------------------------------------
(***************************************************************************)
(* What a reader of text should see: the text laid out on an endless page  *)
(* whose lines are broken at newlines and after VGA_WIDTH characters, and  *)
(* the screen at the end of it.                                            *)
(***************************************************************************)
Newlines(text) == {i \in 1 .. Len(text) : text[i] = Newline}

\* The column of the i-th character, counted from the newline before it.
PageCol(text, i) ==
  LET before == {n \in Newlines(text) : n < i}
      last == IF before = {} THEN 0 ELSE CHOOSE n \in before : \A m \in before : m <= n
  IN  (i - 1 - last) % VGA_WIDTH

\* Where the lines of the page end.
LineEnds(text) ==
  {i \in 1 .. Len(text) : text[i] = Newline \/ PageCol(text, i) = VGA_WIDTH - 1}

PageRow(text, i) == Cardinality({n \in LineEnds(text) : n < i})

\* The console shows the end of the page, nothing else, and the cursor is where the
\* next character will go.
ShowsTail(con, text) ==
  LET end == PageRow(text, Len(text) + 1)
      top == IF end < VGA_HEIGHT THEN 0 ELSE end - VGA_HEIGHT + 1
      seen == {i \in 1 .. Len(text) : text[i] # Newline /\ PageRow(text, i) >= top}
      At(i) == <<PageRow(text, i) - top, PageCol(text, i) + 1>>
      cells == {At(i) : i \in seen}
  IN  /\ con.row = end - top /\ con.col = PageCol(text, Len(text) + 1)
      /\ \A i \in seen : con.mem[At(i)[1]][At(i)[2]] = text[i]
      /\ \A y \in Rows, x \in 1 .. VGA_WIDTH : con.mem[y][x] # " " => <<y, x>> \in cells
=============================================================================
