-------------------------------- MODULE Screen ------------------------------
(***************************************************************************)
(* The console's screen: graphic_putc() of console.c, which keeps a cursor *)
(* and draws a character at it, and graphic_scroll_up() of graphic.c.  A   *)
(* character cell stands for its FONT_WIDTH x FONT_HEIGHT pixels, and the  *)
(* frame buffer ends with the last row of cells.                           *)
(***************************************************************************)
EXTENDS Strings

CONSTANTS
    COLUMNS, ROWS,     \* CONSOLE_HORIZONTAL_MAX, CONSOLE_VERTICAL_MAX
    Glyphs,            \* characters that are drawn
    MaxOutput          \* bound on the characters written

VARIABLES
    console_pos,
    vram,              \* the cells, row by row
    paper,             \* history: the output on a paper that does not end,
    pen,               \* and where it is written next
    written            \* characters so far

screenVars == <<console_pos, vram, paper, pen, written>>

Blank == " "
Cells == COLUMNS * ROWS

ScreenInit ==
    /\ console_pos = Cells
    /\ vram = [i \in 0 .. Cells - 1 |-> Blank]
    /\ paper = [i \in 0 .. Cells - 1 |-> Blank]
    /\ pen = Cells
    /\ written = 0
-----------------------------------------------------------------------------
\* The rows move up by one, and the last one is cleared.
graphic_scroll_up(cells) ==
    LET moved == memmove(cells, 0, COLUMNS, Cells - COLUMNS)
    IN  [i \in 0 .. Cells - 1 |-> IF i >= Cells - COLUMNS THEN Blank ELSE moved[i]]

\* A mutant: one cell too late.
ScrollsLate(pos) == pos > Cells

\* Whether the cursor has left the screen.
Scrolls(pos) == pos >= Cells

\* The paper, unrolled as far as place p.
OnPaper(p) == [i \in DOMAIN paper \cup 0 .. p |-> IF i \in DOMAIN paper THEN paper[i] ELSE Blank]

PutNewline ==
    /\ LET pos == console_pos + (COLUMNS - (console_pos % COLUMNS))
       IN  IF Scrolls(pos)
           THEN console_pos' = pos - COLUMNS /\ vram' = graphic_scroll_up(vram)
           ELSE console_pos' = pos /\ UNCHANGED vram
    /\ pen' = pen + (COLUMNS - (pen % COLUMNS))
    /\ UNCHANGED paper

PutBackspace ==
    /\ console_pos' = IF console_pos > 0 THEN console_pos - 1 ELSE console_pos
    /\ pen' = IF console_pos > 0 THEN pen - 1 ELSE pen
    /\ UNCHANGED <<vram, paper>>

PutGlyph(c) ==
    /\ LET scroll == Scrolls(console_pos)
           pos == IF scroll THEN console_pos - COLUMNS ELSE console_pos
           cells == IF scroll THEN graphic_scroll_up(vram) ELSE vram
       IN  /\ vram' = [cells EXCEPT ![pos] = c]
           /\ console_pos' = pos + 1
    /\ paper' = [OnPaper(pen) EXCEPT ![pen] = c]
    /\ pen' = pen + 1

ScreenNext ==
    /\ written < MaxOutput /\ written' = written + 1
    /\ PutNewline \/ PutBackspace \/ \E c \in Glyphs : PutGlyph(c)
-----------------------------------------------------------------------------
\* What the paper shows at place p.
PaperAt(p) == IF p \in DOMAIN paper THEN paper[p] ELSE Blank

\* The screen is a window on what was written, at the row where the pen is or
\* the one above it (console.c:173-192): it never shows a row twice, loses one
\* or draws outside, however newlines, full rows and backspaces follow on each
\* other, and the cursor is where the next character of the paper belongs.
ShowsOutput ==
    /\ console_pos \in 0 .. Cells
    /\ (pen - console_pos) % COLUMNS = 0
    /\ \A i \in 0 .. Cells - 1 : vram[i] = PaperAt(pen - console_pos + i)
=============================================================================
