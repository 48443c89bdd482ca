------------------------------- MODULE Screen -------------------------------
(***************************************************************************)
(* The text screen (lib.c) as the programs and the keyboard handler use it *)
(* (keyboard.c) and as switch_terminal swaps it (scheduling.c).  There is  *)
(* one position and one video page; behind the page, which is 48 cells     *)
(* longer than the screen, lie the pages that keep the hidden terminals.   *)
(*                                                                         *)
(* A call of putc is one action, a key is one action.  The zero and the    *)
(* space that clear the screen look the same: "blank".  The line buffer is *)
(* the subject of Terminal; here only its index counts.  A store outside   *)
(* the page and the copies is a page fault, and the message of its handler *)
(* faults at the same place, over and over: there the processor is lost.   *)
(***************************************************************************)
EXTENDS Integers, Sequences

CONSTANTS
  NumTerms,   \* terminals the user visits (at most 3)
  Cols, Rows, \* NUM_COLS, NUM_ROWS (80 and 25 in the code)
  PageCells,  \* cells in 4 KB (2048 in the code)
  Word,       \* values of the uint16_t that keeps a column (2^16)
  Glyphs,     \* characters that are printed and typed
  TabWidth,   \* blanks a Tab shows (4 in the code)
  BufLen,     \* characters in a line buffer (128 in the code)
  MaxY,       \* rows that newlines go below the screen before we stop
  MaxMess     \* calls we follow once the text has become a mess

ASSUME ConstantsAssumption ==
  /\ NumTerms \in 1 .. 3
  /\ Cols \in Nat /\ Cols > 1
  /\ Rows \in Nat /\ Rows > 1
  /\ PageCells \in Nat /\ PageCells > Cols * Rows
  /\ "blank" \notin Glyphs /\ "nl" \notin Glyphs
  /\ TabWidth \in Nat \ {0}
  /\ BufLen \in Nat /\ BufLen > 2
  /\ Word \in Nat /\ Word >= 4 * PageCells + Cols
  /\ MaxY \in Nat /\ MaxY > Rows /\ MaxY < Word
  /\ MaxMess \in Nat

VARIABLES
  screen,        \* screen_x, screen_y, and memory from video_mem on
  cur_terminal,
  cursors,       \* cursor_x and cursor_y of each terminal
  running,       \* terminals that have been visited
  inds,          \* kb_ind1, kb_ind2, kb_ind3
  tab,
  up,            \* no fault has stopped the processor
  left,          \* history: what each terminal showed when it was left
  mess,          \* history: calls since text passed the end of a row, or left
                 \* the screen, or was erased where there was none
  spilled        \* history: a character has been written behind the page

vars == <<screen, cur_terminal, cursors, running, inds, tab, up, left, mess,
          spilled>>

Terms == 0 .. NumTerms - 1
Visible == 0 .. Rows * Cols - 1
Page == 0 .. PageCells - 1
PageOf(t) == (t + 1) * PageCells
\* The pages that paging makes present, whatever terminals are visited.
Memory == 0 .. PageOf(3) - 1
Shades == Glyphs \cup {"blank", "nl"}

\* The column of a terminal is kept as a uint16_t, so -1 comes back as Word - 1.
Kept(n) == n % Word
Columns == (1 - Cols .. Cols - 1) \cup (Word + 1 - Cols .. Word - 1)

TypeOK ==
  /\ screen.x \in Columns
  /\ screen.y \in 0 .. MaxY
  /\ screen.mem \in [Memory -> Shades]
  /\ cur_terminal \in Terms
  /\ cursors \in [Terms -> [x : Columns \cap Nat, y : 0 .. MaxY]]
  /\ running \subseteq Terms
  /\ inds \in [Terms -> -1 .. BufLen]
  /\ tab \in BOOLEAN /\ up \in BOOLEAN
  /\ mess \in 0 .. MaxMess /\ spilled \in BOOLEAN

-----------------------------------------------------------------------------
\* The division of C: the remainder has the sign of the dividend.
Rem(a, b) == IF a < 0 THEN -((-a) % b) ELSE a % b

Cell(s) == Cols * s.y + s.x

\* Only a call that faults stores elsewhere, and we do not follow it.
Store(s, i, c) == IF i \in Memory THEN [s EXCEPT !.mem[i] = c] ELSE s
\* Mutant: without the remainder.
Right_Unwrapped(s) == [s EXCEPT !.x = @ + 1, !.y = @ % Rows]
Right(s) == [s EXCEPT !.x = Rem(@ + 1, Cols), !.y = @ % Rows]

\* newline
Newline(s, c) == Right(Store(s, Cell(s), c))

\* scrolldown; the mutant leaves the last row.
ScrollRows_KeepsLast(m) ==
  [i \in Memory |-> IF i \in Visible /\ i + Cols \in Visible
                    THEN m[i + Cols] ELSE m[i]]
ScrollRows(m) ==
  [i \in Memory |-> IF i \notin Visible THEN m[i]
                    ELSE IF i + Cols \in Visible THEN m[i + Cols] ELSE "blank"]
Scrolldown(s) ==
  IF s.y = Rows - 1 THEN [s EXCEPT !.mem = ScrollRows(@), !.x = 0] ELSE s

\* Mutant: the test for the row below the last comes after the character.
Putc_Unscrolled(s, c) ==
  IF c = "nl" THEN [s EXCEPT !.x = 0, !.y = @ + 1] ELSE Newline(s, c)
Putc(s, c) ==
  IF c = "nl" THEN [s EXCEPT !.x = 0, !.y = @ + 1]
  ELSE IF s.y = Rows THEN Newline(Scrolldown([s EXCEPT !.y = Rows - 1]), c)
  ELSE Newline(s, c)

\* backspace.  The row above is meant for x = Cols - 1, which C's remainder
\* never yields here.
Backspace(s) ==
  IF s.x = 0 /\ s.y = 0 THEN s
  ELSE [Store(s, Cell(s) - 1, "blank") EXCEPT !.x = Rem(@ - 1, Cols),
                                              !.y = @ % Rows]

Blank(m) == [i \in Memory |-> IF i \in Visible THEN "blank" ELSE m[i]]
Clearscreen(s) == [x |-> 0, y |-> 0, mem |-> Blank(s.mem)]

Times(n, F(_), s) ==
  LET f[i \in 0 .. n] == IF i = 0 THEN s ELSE F(f[i - 1]) IN f[n]
Spaces(s) == LET Space(z) == Putc(z, "blank") IN Times(TabWidth, Space, s)
Backspaces(s) == Times(TabWidth, Backspace, s)

\* The calls that fault: in front of the page and far behind it.
NewlineFaults(s) == Cell(s) \notin Memory
PutcFaults(s, c) == c # "nl" /\ s.y # Rows /\ NewlineFaults(s)
BackspaceFaults(s) == ~ (s.x = 0 /\ s.y = 0) /\ Cell(s) - 1 \notin Memory
SpacesFault(s) ==
  LET Space(z) == Putc(z, "blank")
  IN  \E n \in 0 .. TabWidth - 1 : PutcFaults(Times(n, Space, s), "blank")
BackspacesFault(s) ==
  \E n \in 0 .. TabWidth - 1 : BackspaceFaults(Times(n, Backspace, s))

-----------------------------------------------------------------------------
\* Where n characters, or erasing n, would not do what it should.
Passes(n) ==
  IF screen.y = Rows THEN n >= Cols
  ELSE screen.y > Rows \/ screen.x + n >= Cols
Misses(n) == screen.x < n \/ screen.y >= Rows

Note(bad) ==
  /\ mess' = IF mess > 0 \/ bad THEN mess + 1 ELSE 0
  /\ mess' <= MaxMess
  /\ spilled' = (spilled \/ screen.y > Rows)

View == [x |-> screen.x, y |-> screen.y,
         page |-> [i \in Visible |-> screen.mem[i]]]

Init ==
  /\ screen = [x |-> 0, y |-> 0, mem |-> [i \in Memory |-> "blank"]]
  /\ cur_terminal = 0
  /\ cursors = [t \in Terms |-> [x |-> 0, y |-> 0]]
  /\ running = {0}
  /\ inds = [t \in Terms |-> 0]
  /\ tab = FALSE /\ up = TRUE
  /\ left = [t \in Terms |-> IF t = 0 THEN <<>> ELSE View]
  /\ mess = 0 /\ spilled = FALSE

Ind == inds[cur_terminal]
SetInd(i) == inds' = [inds EXCEPT ![cur_terminal] = i]
Hidden == <<cur_terminal, cursors, running, left>>

\* The processor runs, and the call under way does not stop it.
Returns(faults) == up /\ ~faults /\ UNCHANGED up

\* terminal_write starts the line again, ...
Write(c) ==
  /\ Returns(PutcFaults(screen, c))
  /\ c = "nl" => screen.y < MaxY
  /\ screen' = Putc(screen, c)
  /\ SetInd(0)
  /\ Note(IF c = "nl" THEN screen.y >= Rows ELSE Passes(1))
  /\ UNCHANGED <<Hidden, tab>>

\* ... the handler continues it.  A character, a newline too, that is number
\* Cols of the line goes through newline.
Echo(c) == IF Ind + 1 = Cols THEN Newline(screen, c) ELSE Putc(screen, c)
EchoFaults(c) ==
  IF Ind + 1 = Cols THEN NewlineFaults(screen) ELSE PutcFaults(screen, c)

CharKey(c) ==
  /\ Returns(Ind < BufLen - 1 /\ EchoFaults(c))
  /\ tab' = FALSE
  /\ IF Ind >= BufLen - 1
     THEN UNCHANGED <<screen, inds, mess, spilled>>
     ELSE screen' = Echo(c) /\ SetInd(Ind + 1) /\ Note(Passes(1))
  /\ UNCHANGED Hidden

TabKey ==
  /\ Returns(SpacesFault(screen))
  /\ tab' = TRUE
  /\ screen' = Spaces(screen)
  /\ IF Ind + 1 >= BufLen - 1 THEN UNCHANGED inds ELSE SetInd(Ind + 1)
  /\ Note(Passes(TabWidth))
  /\ UNCHANGED Hidden

\* Once the index is before the line buffer, which is Terminal's subject, we
\* stop erasing.
EraseFaults == IF tab THEN BackspacesFault(screen)
               ELSE Ind # 0 /\ BackspaceFaults(screen)

BackspaceKey ==
  /\ Ind >= 0
  /\ Returns(EraseFaults)
  /\ tab' = FALSE
  /\ \/ /\ tab
        /\ screen' = Backspaces(screen)
        /\ SetInd(Ind - 1)
        /\ Note(Misses(TabWidth))
     \/ /\ ~tab /\ Ind # 0
        /\ screen' = Backspace(screen)
        /\ SetInd(Ind - 1)
        /\ Note(Misses(1))
     \/ /\ ~tab /\ Ind = 0
        /\ UNCHANGED <<screen, inds, mess, spilled>>
  /\ UNCHANGED Hidden

\* On the last row Enter scrolls and keeps the index; elsewhere it is echoed.
EnterKey ==
  /\ Returns(screen.y # Rows - 1 /\ EchoFaults("nl"))
  /\ tab' = FALSE
  /\ \/ /\ screen.y = Rows - 1
        /\ screen' = Scrolldown(screen)
        /\ UNCHANGED <<inds, mess, spilled>>
     \/ /\ screen.y # Rows - 1 /\ screen.y < MaxY
        /\ screen' = Echo("nl")
        /\ SetInd(0)
        /\ Note(screen.y >= Rows \/ Ind + 1 = Cols)
  /\ UNCHANGED Hidden

\* Control-L: the letter is shown, and the screen cleared again.
ClearKey ==
  /\ Returns(FALSE)
  /\ tab' = FALSE
  /\ screen' = Clearscreen(screen)
  /\ SetInd(0)
  /\ UNCHANGED <<Hidden, mess, spilled>>

\* The two copies of switch_terminal.  The copy that has been shown again will
\* be written before it is read, so it is forgotten here, and so is the cursor.
\* The mutant copies in the other order.
Copied(m, src, dst) ==
  [i \in Memory |-> IF i - dst \in Page THEN m[i - dst + src] ELSE m[i]]
Forgotten(m, p) == [i \in Memory |-> IF i - p \in Page THEN "blank" ELSE m[i]]
Swapped_LoadsFirst(m, from, to) ==
  Forgotten(Copied(Copied(m, PageOf(to), 0), 0, PageOf(from)), PageOf(to))
Swapped(m, from, to) ==
  Forgotten(Copied(Copied(m, 0, PageOf(from)), PageOf(to), 0), PageOf(to))

SwitchTerminal(t) ==
  /\ Returns(FALSE)
  /\ t # cur_terminal
  /\ LET m == Swapped(screen.mem, cur_terminal, t)
     IN  screen' = [x |-> cursors[t].x, y |-> cursors[t].y,
                    mem |-> IF t \in running \/ t = 0 THEN m ELSE Blank(m)]
  /\ cursors' = [cursors EXCEPT ![t] = [x |-> 0, y |-> 0],
                                 ![cur_terminal] = [x |-> Kept(screen.x),
                                                    y |-> Kept(screen.y)]]
  /\ cur_terminal' = t
  /\ running' = running \cup {t}
  /\ left' = [left EXCEPT ![t] = <<>>, ![cur_terminal] = View]
  /\ tab' = FALSE
  /\ UNCHANGED <<inds, mess, spilled>>

\* A call faults; what it has shown until then is left out.
Fault ==
  /\ up
  /\ \/ \E c \in Glyphs : PutcFaults(screen, c)
     \/ \E c \in Glyphs : Ind < BufLen - 1 /\ EchoFaults(c)
     \/ SpacesFault(screen)
     \/ Ind >= 0 /\ EraseFaults
     \/ screen.y # Rows - 1 /\ EchoFaults("nl")
  /\ up' = FALSE
  /\ UNCHANGED <<screen, Hidden, inds, tab, mess, spilled>>

Next ==
  \/ \E c \in Glyphs \cup {"nl"} : Write(c)
  \/ \E c \in Glyphs : CharKey(c)
  \/ TabKey \/ BackspaceKey \/ EnterKey \/ ClearKey
  \/ \E t \in Terms : SwitchTerminal(t)
  \/ Fault

Spec == Init /\ [][Next]_vars
-----------------------------------------------------------------------------
\* The text of a page: its rows down to the cursor.
Nonblank(l) == {i \in 1 .. Len(l) : l[i] # "blank"}
Trim(l) == SubSeq(l, 1, CHOOSE n \in 0 .. Len(l) :
                         /\ n = 0 \/ n \in Nonblank(l)
                         /\ \A i \in Nonblank(l) : i <= n)

TextAt(base, x, y) ==
  LET row(r, n) == [i \in 1 .. n |-> screen.mem[base + Cols * r + i - 1]]
      above == IF y < Rows THEN y ELSE Rows
  IN  [r \in 1 .. above + 1 |->
         IF r <= above THEN Trim(row(r - 1, Cols))
         ELSE IF y < Rows THEN row(y, x) ELSE <<>>]

Text ==
  [t \in Terms |->
     IF t = cur_terminal THEN TextAt(0, screen.x, screen.y)
     ELSE TextAt(PageOf(t), cursors[t].x, cursors[t].y)]

Promise == INSTANCE TextScreen WITH at <- cur_terminal, text <- Text

\* What is printed and typed is shown as TextScreen promises, on every
\* terminal, as long as no row is filled, no empty line is printed at the
\* bottom and nothing is erased that is not there.
TextShown == Promise!Init /\ [][mess' > 0 \/ Promise!Next]_(Promise!vars)

\* Until then, nothing is shown behind the cursor, which is on the screen or
\* at the start of the row below it.
Clean == mess = 0 =>
  /\ screen.x \in 0 .. Cols - 1 /\ screen.y \in 0 .. Rows
  /\ screen.y = Rows => screen.x = 0
  /\ \A i \in Visible : i >= Cell(screen) => screen.mem[i] = "blank"

\* A terminal the user comes back to looks as it did when the user left it,
\* one visited for the first time is empty; whatever has been shown meanwhile,
\* unless some of it went behind the page.  The column comes back too, unless
\* it was negative.
Returned(now, was) ==
  /\ now.page = was.page /\ now.y = was.y
  /\ was.x >= 0 => now.x = was.x
Restored ==
  [][\A t \in Terms :
       SwitchTerminal(t) /\ ~spilled => Returned(View', left[t])]_vars

\* "Added a check in putc in lib.c if at end of line to print on next line".
\* It does not hold: putc writes the last character of a row and goes back to
\* the start of the same row.
NextLine ==
  [][\A c \in Glyphs : Write(c) /\ mess = 0 /\ screen.x = Cols - 1
       => screen'.y = screen.y + 1]_vars
=============================================================================
