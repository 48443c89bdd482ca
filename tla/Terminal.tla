------------------------------ MODULE Terminal ------------------------------
(***************************************************************************)
(* The line discipline (keyboard.c).  keyboard_handler edits the line of   *)
(* the displayed terminal in kb_buf1..3 and announces Enter in kb_flag;    *)
(* terminal_read spins on kb_flag, with interrupts enabled, and copies     *)
(* read_ind characters; terminal_write starts the line again.  kb_buf,     *)
(* kb_ind, kb_flag and read_ind are single variables, whatever the         *)
(* terminal.                                                               *)
(*                                                                         *)
(* What the handler shows on the screen is left out.  Of the screen it     *)
(* uses one thing: whether the cursor is on the last row when Enter is     *)
(* pressed.  A handler runs to its end, because it acknowledges the        *)
(* interrupt last; it may come between any two steps of terminal_read.     *)
(***************************************************************************)
EXTENDS Integers, Sequences

CONSTANTS
  Terms,      \* terminals visited: {0}, {0, 1}, ...
  Keys,       \* keys the user presses
  BufLen,     \* characters in a line buffer (128 in the code)
  LastRow,    \* values of "the cursor is on the last row"
  Patient,    \* whether the user types only while a program reads
  Roomy,      \* whether the user presses Tab only where there is room for it
  Prompts     \* whether programs write before each read, as the shell does

Chars == {"a", "A", "l", "L", "1"}

ASSUME ConstantsAssumption ==
  /\ 0 \in Terms /\ Terms \subseteq 0 .. 2
  /\ Keys \subseteq {"a", "l", "1", "tab", "bs", "enter", "caps", "shift", "ctrl"}
  /\ BufLen \in Nat /\ BufLen > 2
  /\ LastRow \subseteq BOOLEAN
  /\ Patient \in BOOLEAN
  /\ Roomy \in BOOLEAN
  /\ Prompts \in BOOLEAN

VARIABLES
  cur_terminal,  \* the displayed terminal
  buffers,       \* kb_buf1, kb_buf2, kb_buf3
  inds,          \* kb_ind1, kb_ind2, kb_ind3
  kb_buf,        \* the terminal whose buffer the pointer names
  kb_ind,
  read_ind,
  kb_flag,
  caps, ctrl, tab,
  programs,      \* programs, the last of which runs
  typed,         \* history: the keys of the line the user types, less erased
  entered        \* history: the line entered on each terminal and not read yet

keyboard == <<buffers, inds, kb_buf, kb_ind, read_ind, caps, ctrl, tab>>
vars == <<keyboard, cur_terminal, kb_flag, programs, typed, entered>>

\* home is the terminal a program was started on, got what its read copied.
Program == [home : Terms, pc : {"user", "prompted", "wait", "clear", "copy"},
            got : Seq(Chars \cup {"tab", "enter", "nul"})]
Fresh(t) == [home |-> t, pc |-> "user", got |-> <<>>]

TypeOK ==
  /\ cur_terminal \in Terms
  /\ buffers \in [Terms -> [0 .. BufLen - 1 ->
                              Chars \cup {"tab", "enter", "nul"}]]
  /\ inds \in [Terms -> Int]
  /\ kb_buf \in Terms
  /\ kb_ind \in Int
  /\ read_ind \in Int
  /\ kb_flag \in BOOLEAN /\ caps \in BOOLEAN /\ ctrl \in BOOLEAN
  /\ tab \in BOOLEAN
  /\ programs \in Seq(Program) /\ programs # <<>>
  /\ typed \in [Terms -> Seq(Chars \cup {"tab"})]
  /\ entered \in [Terms -> Seq(Seq(Chars \cup {"tab"}))]

Init ==
  /\ cur_terminal = 0
  /\ buffers = [t \in Terms |-> [i \in 0 .. BufLen - 1 |-> "nul"]]
  /\ inds = [t \in Terms |-> 0]
  /\ kb_buf = 0 /\ kb_ind = 0 /\ read_ind = 0
  /\ kb_flag = FALSE
  /\ caps = FALSE /\ ctrl = FALSE /\ tab = FALSE
  /\ programs = <<Fresh(0)>>
  /\ typed = [t \in Terms |-> <<>>]
  /\ entered = [t \in Terms |-> <<>>]

-----------------------------------------------------------------------------
Top == programs[Len(programs)]
SetTop(p) == programs' = [programs EXCEPT ![Len(programs)] = p]
GoOn(pc) == SetTop([Top EXCEPT !.pc = pc])

Typing == Patient => Top.pc = "wait" /\ ~kb_flag

\* keyboard_handler begins with the line of the displayed terminal.
Line == inds[cur_terminal]
Begin == kb_buf' = cur_terminal /\ UNCHANGED <<cur_terminal, programs>>

\* It ends with the index stored, or returns early and leaves it.
Store(i) == kb_ind' = i /\ inds' = [inds EXCEPT ![cur_terminal] = i]
Leave(i) == kb_ind' = i /\ UNCHANGED inds

\* An index below 0 or above the buffer writes elsewhere.  The mutant uses
\* the pointer an earlier interrupt left.
Put_Stale(i, c) ==
  buffers' = IF i \in 0 .. BufLen - 1
             THEN [buffers EXCEPT ![kb_buf][i] = c] ELSE buffers
Put(i, c) ==
  buffers' = IF i \in 0 .. BufLen - 1
             THEN [buffers EXCEPT ![cur_terminal][i] = c] ELSE buffers

Full == Line >= BufLen - 1

Show(s) == typed' = [typed EXCEPT ![cur_terminal] = s] /\ UNCHANGED entered
Seen == typed[cur_terminal]

Upper == [c \in {"a", "l"} |-> IF c = "a" THEN "A" ELSE "L"]
\* Only letters have an upper case.  The mutant subtracts 32 from anything.
Char_All(k) == IF ~caps THEN k ELSE IF k \in DOMAIN Upper THEN Upper[k] ELSE "^"
Char(k) == IF caps /\ k \in DOMAIN Upper THEN Upper[k] ELSE k

Clears(k) == k = "l" /\ ctrl

\* A character goes into the buffer, unless it is full.  The mutant fills the
\* last place, which is for Enter.
CharKey_Last(k) ==
  /\ IF Line >= BufLen
     THEN Leave(Line) /\ UNCHANGED <<buffers, typed, entered>>
     ELSE Put(Line, Char(k)) /\ Store(Line + 1) /\ Show(Append(Seen, Char(k)))
  /\ tab' = FALSE
  /\ UNCHANGED <<read_ind, kb_flag, caps, ctrl>>
CharKey(k) ==
  /\ IF Full
     THEN Leave(Line) /\ UNCHANGED <<buffers, typed, entered>>
     ELSE Put(Line, Char(k)) /\ Store(Line + 1) /\ Show(Append(Seen, Char(k)))
  /\ tab' = FALSE
  /\ UNCHANGED <<read_ind, kb_flag, caps, ctrl>>

\* Control-L clears screen, line and flag, though the letter has gone into
\* the buffer meanwhile.
ClearKey ==
  /\ Put(0, Char("l"))
  /\ Store(0)
  /\ Show(<<>>)
  /\ kb_flag' = FALSE
  /\ tab' = FALSE
  /\ UNCHANGED <<read_ind, caps, ctrl>>

\* Tab goes into the buffer and onto the screen before the test for a full
\* buffer, which returns early and forgets it.
TabKey ==
  /\ Roomy => Line + 1 < BufLen - 1
  /\ Put(Line, "tab")
  /\ tab' = TRUE
  /\ IF Line + 1 >= BufLen - 1 THEN Leave(Line + 1) ELSE Store(Line + 1)
  /\ Show(Append(Seen, "tab"))
  /\ UNCHANGED <<read_ind, kb_flag, caps, ctrl>>

\* Backspace.  After a Tab the index is decremented without a test; in the
\* mutant always.
Erased_Untested == Line - 1
Erased == IF tab \/ Line # 0 THEN Line - 1 ELSE Line

BackspaceKey ==
  /\ IF Erased >= BufLen - 1 THEN Leave(Erased) ELSE Store(Erased)
  /\ Show(IF Seen = <<>> THEN <<>> ELSE SubSeq(Seen, 1, Len(Seen) - 1))
  /\ tab' = FALSE
  /\ UNCHANGED <<buffers, read_ind, kb_flag, caps, ctrl>>

\* Enter on the last row scrolls and returns early: the index stays.
EnterScrolls ==
  /\ TRUE \in LastRow
  /\ read_ind' = Line
  /\ Leave(0)
  /\ UNCHANGED buffers

\* Enter elsewhere puts a newline into the buffer.
EnterStores ==
  /\ FALSE \in LastRow
  /\ Put(Line, "enter")
  /\ read_ind' = Line + 1
  /\ Store(0)

EnterKey ==
  /\ EnterScrolls \/ EnterStores
  /\ kb_flag' = TRUE
  /\ tab' = FALSE
  /\ entered' = [entered EXCEPT ![cur_terminal] = <<Seen>>]
  /\ typed' = [typed EXCEPT ![cur_terminal] = <<>>]
  /\ UNCHANGED <<caps, ctrl>>

\* Shift and Control toggle when pressed and when released; only a press
\* gets as far as the Tab flag.
Toggle(k) ==
  /\ caps' = IF k = "shift" THEN ~caps ELSE caps
  /\ ctrl' = IF k = "ctrl" THEN ~ctrl ELSE ctrl
  /\ tab' \in {FALSE, tab}
  /\ kb_ind' = Line
  /\ UNCHANGED <<buffers, inds, read_ind, kb_flag, typed, entered>>

\* Caps Lock comes after the test for a full buffer.
CapsKey ==
  /\ caps' = IF Full THEN caps ELSE ~caps
  /\ tab' = FALSE
  /\ kb_ind' = Line
  /\ UNCHANGED <<buffers, inds, read_ind, kb_flag, ctrl, typed, entered>>

\* keyboard_handler
Key(k) ==
  /\ Typing
  /\ Begin
  /\ \/ k \in {"a", "l", "1"} /\ ~Clears(k) /\ CharKey(k)
     \/ Clears(k) /\ ClearKey
     \/ k = "tab" /\ TabKey
     \/ k = "bs" /\ BackspaceKey
     \/ k = "enter" /\ EnterKey
     \/ k \in {"shift", "ctrl"} /\ Toggle(k)
     \/ k = "caps" /\ CapsKey

\* Alt, which clears the Tab flag, and a function key: switch_terminal.  A
\* terminal visited for the first time gets a shell; otherwise whatever was
\* interrupted goes on.
AltFn(t) ==
  /\ t # cur_terminal
  /\ Typing
  /\ kb_buf' = cur_terminal /\ kb_ind' = Line
  /\ tab' = FALSE
  /\ cur_terminal' = t
  /\ programs' = IF \E n \in 1 .. Len(programs) : programs[n].home = t
                 THEN programs ELSE Append(programs, Fresh(t))
  /\ UNCHANGED <<buffers, inds, read_ind, kb_flag, caps, ctrl, typed, entered>>

-----------------------------------------------------------------------------
\* terminal_write starts the line of the displayed terminal again.
Write ==
  /\ Top.pc \in {"user", "prompted"}
  /\ kb_ind' = 0
  /\ inds' = [inds EXCEPT ![cur_terminal] = 0]
  /\ GoOn("prompted")
  /\ UNCHANGED <<cur_terminal, buffers, kb_buf, read_ind, kb_flag, caps, ctrl,
                 tab, typed, entered>>

\* terminal_read is called.
ReadCall ==
  /\ IF Prompts THEN Top.pc = "prompted" ELSE Top.pc \in {"user", "prompted"}
  /\ kb_buf' = cur_terminal
  /\ kb_ind' = inds[cur_terminal]
  /\ SetTop([Top EXCEPT !.pc = "wait", !.got = <<>>])
  /\ UNCHANGED <<cur_terminal, buffers, inds, read_ind, kb_flag, caps, ctrl,
                 tab, typed, entered>>

\* The loop finds the flag set ...
ReadPass ==
  /\ Top.pc = "wait" /\ kb_flag
  /\ GoOn("clear")
  /\ UNCHANGED <<keyboard, cur_terminal, kb_flag, typed, entered>>

\* ... it is cleared ...  Mutants: it is not; it is tested once more.
ReadClear_Keeps ==
  /\ Top.pc = "clear"
  /\ GoOn("copy")
  /\ UNCHANGED <<keyboard, cur_terminal, kb_flag, typed, entered>>
ReadClear_Again ==
  /\ Top.pc = "clear"
  /\ kb_flag' = FALSE
  /\ GoOn("wait")
  /\ UNCHANGED <<keyboard, cur_terminal, typed, entered>>
ReadClear ==
  /\ Top.pc = "clear"
  /\ kb_flag' = FALSE
  /\ GoOn("copy")
  /\ UNCHANGED <<keyboard, cur_terminal, typed, entered>>

\* ... and character by character the line is copied.  The caller's buffer is
\* as long as the line buffer.  The mutant stops one short.
More_OneShort == Len(Top.got) < read_ind - 1
More == Len(Top.got) < read_ind /\ Len(Top.got) < BufLen

ReadCopy ==
  /\ Top.pc = "copy" /\ More
  /\ SetTop([Top EXCEPT !.got = Append(@, buffers[kb_buf][Len(@)])])
  /\ UNCHANGED <<keyboard, cur_terminal, kb_flag, typed, entered>>

ReadReturn ==
  /\ Top.pc = "copy" /\ ~More
  /\ GoOn("user")
  /\ entered' = [entered EXCEPT ![cur_terminal] = <<>>]
  /\ UNCHANGED <<keyboard, cur_terminal, kb_flag, typed>>

Reading == ReadPass \/ ReadClear \/ ReadCopy \/ ReadReturn

Next ==
  \/ \E k \in Keys : Key(k)
  \/ \E t \in Terms : AltFn(t)
  \/ Write \/ ReadCall \/ Reading

Spec == Init /\ [][Next]_vars

\* The processor goes on executing terminal_read.
FairSpec == Spec /\ WF_vars(Reading)

-----------------------------------------------------------------------------
\* The indexes never pass the end of the line buffer, ...
NotAbove ==
  /\ \A t \in Terms : inds[t] <= BufLen - 1
  /\ kb_ind <= BufLen /\ read_ind <= BufLen

\* ... nor its start: "127 if valid indexes".  The handler and the reader
\* stay in the buffer.
InBuffer ==
  /\ NotAbove
  /\ \A t \in Terms : inds[t] >= 0
  /\ kb_ind >= 0 /\ read_ind >= 0

\* A newline at the end of a line is there or not.
Text(s) ==
  IF s # <<>> /\ s[Len(s)] = "enter" THEN SubSeq(s, 1, Len(s) - 1) ELSE s

\* A read returns the line that has been entered on the terminal the program
\* belongs to, as the user typed it, and returns it once.  It holds on one
\* terminal and fails on two, because kb_flag belongs to none.
Delivers == [][ReadReturn => entered[Top.home] = <<Text(Top.got)>>]_vars

\* Without regard to that terminal: a read returns the line entered on the
\* displayed one, once, and nothing of the line begun on the other.
DeliversShown ==
  [][ReadReturn => entered[cur_terminal] = <<Text(Top.got)>>]_vars

\* Once Enter has been pressed the read that waits returns.
EnterReturns == (Top.pc = "wait" /\ kb_flag) ~> (Top.pc = "user")

\* While a program waits for Enter, the line the user has typed is the line in
\* the buffer of the displayed terminal.
Faithful ==
  Top.pc = "wait" /\ ~kb_flag =>
    /\ Line = Len(Seen)
    /\ \A i \in 1 .. Len(Seen) : buffers[cur_terminal][i - 1] = Seen[i]
=============================================================================
