--------------------------- MODULE Devices_proofs ---------------------------
(***************************************************************************)
(* Theorems about the two devices a program waits for and prints to: RTC,  *)
(* for every width of int, every set of requests and every depth of        *)
(* nesting, and Screen, for every size of the screen and of its page.      *)
(*                                                                         *)
(* About Screen: ScreenTypeCorrect, ComesBack, StaysClean, and ShowsText,  *)
(* that the screen implements TextScreen.  Each rests on the invariant of  *)
(* the one before: Typed, where the position is; Keeping, that the pages   *)
(* of the hidden terminals are as they were left; Tidying, that what lies  *)
(* behind the position is blank.                                           *)
(***************************************************************************)
EXTENDS RTC, Screen, SequenceTheorems, WellFoundedInduction, TLAPS

-----------------------------------------------------------------------------
\* A program record stays one when its fields are set to values in range.
LEMMA ProgramSet ==
  ASSUME NEW p \in Program
  PROVE  /\ \A b \in BOOLEAN : [p EXCEPT !.opened = b] \in Program
         /\ [p EXCEPT !.pc = "reset"] \in Program
         /\ [p EXCEPT !.waited = @ + 1] \in Program
         /\ \A f \in Divisors :
              [p EXCEPT !.pc = "wait", !.waited = 0, !.need = f] \in Program
         /\ [p EXCEPT !.pc = "user", !.waited = 0, !.need = 1] \in Program
<1>1. /\ \A b \in BOOLEAN : [p EXCEPT !.opened = b] \in Program
      /\ [p EXCEPT !.pc = "reset"] \in Program
  BY DEF Program
<1>2. [p EXCEPT !.waited = @ + 1] \in Program
  BY DEF Program
<1>3. \A f \in Divisors :
        [p EXCEPT !.pc = "wait", !.waited = 0, !.need = f] \in Program
  BY DEF Program
<1>4. 1 \in Divisors
  BY DEF Divisors
<1>5. [p EXCEPT !.pc = "user", !.waited = 0, !.need = 1] \in Program
  BY <1>4 DEF Program
<1>6. QED
  BY <1>1, <1>2, <1>3, <1>5

\* What rtc_write looks up is a divisor.
LEMMA Lookup ==
  ASSUME NEW hz
  PROVE  Rate(hz) \in Divisors
<1>1. \A h \in DOMAIN RateTable : RateTable[h] \in Divisors
  BY DEF RateTable, Divisors
<1>2. QED
  BY <1>1 DEF Rate, Divisors

LEMMA TypeInit == ClockInit => ClockTypeOK
  BY ClockAssumption DEF ClockInit, ClockTypeOK, Fresh, Program, Divisors

LEMMA TypeStep == ClockTypeOK /\ [ClockNext]_clockVars => ClockTypeOK'
<1> SUFFICES ASSUME ClockTypeOK, [ClockNext]_clockVars PROVE ClockTypeOK'
  OBVIOUS
<1> USE ClockAssumption
<1>0. Top \in Program /\ depth \in Nat
  BY DEF ClockTypeOK, Top
<1>t. ASSUME NEW p \in Program, SetTop(p)
      PROVE  programs' \in [1 .. MaxDepth -> Program]
  BY <1>t DEF SetTop, ClockTypeOK
<1>1. CASE Tick
  <2>1. virtual_counter' \in -Half .. Half - 1
    BY <1>1 DEF Tick, ClockTypeOK, Increment
  <2>2. programs' \in [1 .. MaxDepth -> Program]
    <3>1. \A d \in 1 .. MaxDepth :
            /\ programs[d] \in Program
            /\ [programs[d] EXCEPT !.waited = @ + 1] \in Program
      BY ProgramSet DEF ClockTypeOK
    <3>2. QED
      BY <1>1, <3>1 DEF Tick
  <2>3. QED
    BY <1>1, <2>1, <2>2 DEF Tick, ClockTypeOK
<1>2. CASE Open
  BY <1>0, <1>2, <1>t, ProgramSet DEF Open, ClockTypeOK
<1>3. CASE Close
  BY <1>0, <1>3, <1>t, ProgramSet DEF Close, ClockTypeOK
<1>4. ASSUME NEW hz \in Requests, RtcWrite(hz) PROVE ClockTypeOK'
  BY <1>4, Lookup DEF RtcWrite, ClockTypeOK
<1>5. CASE ReadCall
  BY <1>0, <1>5, <1>t, ProgramSet DEF ReadCall, ClockTypeOK
<1>6. CASE ReadPass
  BY <1>0, <1>6, <1>t, ProgramSet DEF ReadPass, ClockTypeOK
<1>7. CASE ReadReset
  <2>1. [Top EXCEPT !.pc = "user", !.waited = 0, !.need = 1] \in Program
    BY <1>0, ProgramSet
  <2>2. programs' \in [1 .. MaxDepth -> Program]
    BY <1>7, <1>t, <2>1, Zenon DEF ReadReset
  <2>3. virtual_counter' = 0 /\ UNCHANGED <<virtual_frequency, depth>>
    BY <1>7 DEF ReadReset
  <2>4. QED
    BY <2>2, <2>3 DEF ClockTypeOK
<1>8. CASE Start
  <2>1. Fresh \in Program
    BY DEF Fresh, Program, Divisors
  <2>2. QED
    BY <1>8, <2>1 DEF Start, ClockTypeOK
<1>9. CASE End
  BY <1>9 DEF End, ClockTypeOK
<1>10. CASE UNCHANGED clockVars
  BY <1>10 DEF clockVars, ClockTypeOK
<1>11. QED
  BY <1>1, <1>2, <1>3, <1>4, <1>5, <1>6, <1>7, <1>8, <1>9, <1>10
     DEF ClockNext, Reading

\* ClockTypeOK is an invariant of the clock, overflow of the counter included.
THEOREM Typing == ClockSpec => []ClockTypeOK
  BY TypeInit, TypeStep, PTL DEF ClockSpec

-----------------------------------------------------------------------------
\* The environment of the theorems below: no program is suspended inside
\* rtc_read, and a read comes before the counter overflows.
Undisturbed == ~Preempt /\ MaxCount < Half

LEMMA CountingStep ==
  ASSUME Undisturbed, ClockTypeOK, Counting, [ClockNext]_clockVars
  PROVE  Counting'
<1> USE ClockAssumption DEF Undisturbed
<1>0. Top \in Program /\ depth \in 1 .. MaxDepth /\ depth \in Nat
        /\ virtual_counter \in Int /\ virtual_frequency \in Divisors
  BY DEF ClockTypeOK, Top
<1>t. ASSUME NEW p \in Program, SetTop(p), UNCHANGED depth
      PROVE  Top' = p /\ \A d \in 1 .. depth' - 1 : programs'[d].pc = "user"
  BY <1>0, <1>t DEF SetTop, Top, ClockTypeOK, Counting
<1>1. CASE Tick
  <2>1. virtual_counter' = virtual_counter + 1
    BY <1>0, <1>1 DEF Tick, Increment
  <2>2. \A d \in 1 .. depth :
          /\ programs'[d].pc = programs[d].pc
          /\ programs'[d].need = programs[d].need
          /\ programs'[d].waited =
               IF programs[d].pc = "wait" THEN programs[d].waited + 1
                                          ELSE programs[d].waited
    <3>1. \A d \in 1 .. depth : d \in 1 .. MaxDepth /\ programs[d] \in Program
      BY <1>0 DEF ClockTypeOK
    <3>2. QED
      BY <1>0, <1>1, <3>1 DEF Tick, Program
  <2>3. depth' = depth /\ virtual_frequency' = virtual_frequency
    BY <1>1 DEF Tick
  <2>4. Top'.pc = Top.pc /\ Top'.need = Top.need
          /\ (Top.pc = "wait" => Top'.waited = Top.waited + 1)
    BY <1>0, <2>2, <2>3 DEF Top
  <2>5. Top.waited \in Nat
    BY <1>0 DEF Program
  <2>6. \A d \in 1 .. depth - 1 : programs'[d].pc = "user"
    BY <1>0, <2>2 DEF Counting
  <2>7. virtual_frequency \in Int
    BY <1>0 DEF Divisors
  <2>8. QED
    BY <1>0, <2>1, <2>3, <2>4, <2>5, <2>6, <2>7 DEF Counting
<1>2. CASE Open \/ Close
  <2>1. PICK b \in BOOLEAN : SetTop([Top EXCEPT !.opened = b])
    BY <1>2 DEF Open, Close
  <2>2. [Top EXCEPT !.opened = b] \in Program
          /\ [Top EXCEPT !.opened = b].pc = Top.pc
    BY <1>0 DEF Program
  <2>3. UNCHANGED <<virtual_counter, virtual_frequency, depth>>
          /\ Top.pc = "user"
    BY <1>2 DEF Open, Close
  <2>4. Top'.pc = "user" /\ \A d \in 1 .. depth' - 1 : programs'[d].pc = "user"
    BY <1>t, <2>1, <2>2, <2>3
  <2>5. QED
    BY <2>3, <2>4 DEF Counting
<1>3. ASSUME NEW hz \in Requests, RtcWrite(hz) PROVE Counting'
  <2>1. Top' = Top /\ Top.pc = "user"
          /\ UNCHANGED <<virtual_counter, depth, programs>>
    BY <1>3 DEF RtcWrite, Top
  <2>2. QED
    BY <2>1 DEF Counting
<1>4. CASE ReadCall
  <2> DEFINE p == [Top EXCEPT !.pc = "wait", !.waited = 0,
                              !.need = virtual_frequency]
  <2>1. p \in Program /\ p.pc = "wait" /\ p.waited = 0
          /\ p.need = virtual_frequency
    BY <1>0 DEF Program
  <2>2. SetTop(p) /\ UNCHANGED <<virtual_counter, virtual_frequency, depth>>
    BY <1>4 DEF ReadCall
  <2> HIDE DEF p
  <2>3. Top' = p /\ \A d \in 1 .. depth' - 1 : programs'[d].pc = "user"
    BY <1>t, <2>1, <2>2
  <2>4. QED
    BY <2>1, <2>2, <2>3 DEF Counting
<1>5. CASE ReadPass
  <2> DEFINE p == [Top EXCEPT !.pc = "reset"]
  <2>1. p \in Program /\ p.pc = "reset" /\ p.need = Top.need
    BY <1>0 DEF Program
  <2>2. SetTop(p) /\ UNCHANGED <<virtual_counter, virtual_frequency, depth>>
          /\ Top.pc = "wait" /\ virtual_counter >= virtual_frequency
    BY <1>5 DEF ReadPass
  <2> HIDE DEF p
  <2>3. Top' = p /\ \A d \in 1 .. depth' - 1 : programs'[d].pc = "user"
    BY <1>t, <2>1, <2>2
  <2>4. QED
    BY <2>1, <2>2, <2>3 DEF Counting
<1>6. CASE ReadReset
  <2> DEFINE p == [Top EXCEPT !.pc = "user", !.waited = 0, !.need = 1]
  <2>1. p \in Program /\ p.pc = "user"
    BY <1>0 DEF Program, Divisors
  <2>2. SetTop(p) /\ UNCHANGED <<virtual_frequency, depth>>
          /\ virtual_counter' = 0
    BY <1>6 DEF ReadReset
  <2> HIDE DEF p
  <2>3. Top' = p /\ \A d \in 1 .. depth' - 1 : programs'[d].pc = "user"
    BY <1>t, <2>1, <2>2
  <2>4. QED
    BY <2>1, <2>2, <2>3 DEF Counting
<1>7. CASE Start
  <2>1. /\ depth' = depth + 1 /\ depth + 1 \in 1 .. MaxDepth
        /\ programs' = [programs EXCEPT ![depth + 1] = Fresh]
        /\ UNCHANGED <<virtual_counter, virtual_frequency>>
        /\ Top.pc = "user"
    BY <1>0, <1>7 DEF Start
  <2>2. Top' = Fresh /\ Fresh.pc = "user"
    BY <2>1 DEF Top, ClockTypeOK, Fresh
  <2>3. \A d \in 1 .. depth' - 1 : programs'[d].pc = "user"
    BY <1>0, <2>1 DEF Top, ClockTypeOK, Counting
  <2>4. QED
    BY <2>1, <2>2, <2>3 DEF Counting
<1>8. CASE End
  <2>1. /\ depth' = depth - 1 /\ depth - 1 \in 1 .. depth - 1
        /\ UNCHANGED <<virtual_counter, virtual_frequency, programs>>
    BY <1>0, <1>8 DEF End
  <2>2. \A d \in 1 .. depth - 1 : programs[d].pc = "user"
    BY DEF Counting
  <2>3. Top'.pc = "user"
    BY <2>1, <2>2 DEF Top
  <2>4. \A d \in 1 .. depth' - 1 : programs'[d].pc = "user"
    BY <1>0, <2>1, <2>2
  <2>5. QED
    BY <2>1, <2>3, <2>4 DEF Counting
<1>9. CASE UNCHANGED clockVars
  BY <1>9 DEF clockVars, Counting, Top
<1>10. QED
  BY <1>1, <1>2, <1>3, <1>4, <1>5, <1>6, <1>7, <1>8, <1>9 DEF ClockNext, Reading

\* Nothing is subtracted from the ticks a waiting program has seen.
THEOREM Counted == Undisturbed => (ClockSpec => []Counting)
<1> SUFFICES ASSUME Undisturbed PROVE ClockSpec => []Counting
  OBVIOUS
<1>1. ClockInit => Counting
  BY ClockAssumption DEF ClockInit, Counting, Top, Fresh
<1>2. ClockTypeOK /\ Counting /\ [ClockNext]_clockVars => Counting'
  BY CountingStep
<1>3. QED
  BY <1>1, <1>2, Typing, PTL DEF ClockSpec

\* A read waits for no more ticks than the divisor in force when it began.
THEOREM Bounded == Undisturbed => (ClockSpec => []WaitBound)
<1>1. ASSUME ClockTypeOK, Counting PROVE WaitBound
  <2>1. Top \in Program /\ virtual_counter \in Int /\ virtual_frequency \in Int
    BY <1>1 DEF ClockTypeOK, Top, Divisors
  <2>2. Top.waited \in Int
    BY <2>1 DEF Program
  <2>3. QED
    BY <1>1, <2>1, <2>2 DEF WaitBound, Counting
<1>2. QED
  BY <1>1, Counted, Typing, PTL

\* A read returns after a whole period that no other read has consumed.
THEOREM Whole == Undisturbed => (ClockSpec => WholePeriod)
<1> SUFFICES ASSUME Undisturbed PROVE ClockSpec => WholePeriod
  OBVIOUS
<1>1. Counting /\ [ClockNext]_clockVars =>
        [ReadReset => virtual_counter >= Top.need]_clockVars
  BY DEF Counting, ReadReset
<1>2. QED
  BY <1>1, Counted, PTL DEF ClockSpec, WholePeriod

-----------------------------------------------------------------------------
(***************************************************************************)
(* Numbers.                                                                *)
(***************************************************************************)
\* Every set of numbers that is not empty has a least one.
LEMMA LeastNumber ==
  ASSUME NEW T, T \subseteq Nat, T # {}
  PROVE  \E x \in T : \A y \in T : x <= y
<1> DEFINE R == OpToRel(<, Nat)
<1>1. IsWellFoundedOn(R, Nat)
  BY NatLessThanWellFounded
<1>2. \A x, y \in Nat : y < x => <<y, x>> \in R
  BY DEF OpToRel
<1> HIDE DEF R
<1>3. PICK x \in T : \A y \in T : ~ (<<y, x>> \in R)
  BY <1>1, WFMin
<1>4. \A y \in T : x \in Nat /\ y \in Nat /\ ~(y < x)
  BY <1>2, <1>3
<1>5. \A y \in T : x <= y
  BY <1>4
<1>6. QED
  BY <1>5

\* Remainders: of a number below the divisor, of a multiple of it, their
\* range, and the remainder of C.
LEMMA ModSmall ==
  ASSUME NEW d \in Nat \ {0}, NEW a \in 0 .. d - 1
  PROVE  a % d = a
  OBVIOUS

LEMMA ModWhole ==
  ASSUME NEW d \in Nat \ {0}
  PROVE  d % d = 0
  OBVIOUS

LEMMA ModTyped ==
  ASSUME NEW d \in Nat \ {0}, NEW a \in Nat
  PROVE  a % d \in 0 .. d - 1
  OBVIOUS

LEMMA ModBelow ==
  ASSUME NEW d \in Nat \ {0}, NEW a \in 1 - d .. -1
  PROVE  a % d = a + d
  OBVIOUS

LEMMA RemIs ==
  ASSUME NEW d \in Nat \ {0}, NEW a \in Int
  PROVE  /\ Rem(a, d) \in 1 - d .. d - 1
         /\ a \in 0 .. d - 1 => Rem(a, d) = a
         /\ a = d => Rem(a, d) = 0
<1>1. CASE a >= 0
  <2>1. Rem(a, d) = a % d
    BY <1>1 DEF Rem
  <2>2. a \in Nat
    BY <1>1
  <2>3. a % d \in 0 .. d - 1
    BY <2>2, ModTyped
  <2>4. a \in 0 .. d - 1 => a % d = a
    BY ModSmall
  <2>5. a = d => a % d = 0
    BY ModWhole
  <2>6. QED
    BY <2>1, <2>3, <2>4, <2>5
<1>2. CASE a < 0
  <2>1. Rem(a, d) = -((-a) % d) /\ -a \in Nat
    BY <1>2 DEF Rem
  <2>2. (-a) % d \in 0 .. d - 1
    BY <2>1, ModTyped
  <2>3. QED
    BY <1>2, <2>1, <2>2
<1>3. QED
  BY <1>1, <1>2

\* What the assumption on the constants says in numbers.
LEMMA Sizes ==
  /\ Cols \in Nat \ {0} /\ Rows \in Nat \ {0} /\ Cols > 1 /\ Rows > 1
  /\ PageCells \in Nat \ {0} /\ Cols * Rows \in Nat /\ Rows * Cols = Cols * Rows
  /\ PageCells > Cols * Rows
  /\ TabWidth \in Nat \ {0} /\ BufLen \in Nat /\ BufLen > 2
  /\ MaxY \in Nat /\ MaxY > Rows /\ MaxMess \in Nat
  /\ Word \in Nat \ {0} /\ Word >= 4 * PageCells + Cols /\ MaxY < Word
BY ConstantsAssumption

\* The cells of a row, and of the last one, are on the screen.
LEMMA RowCells ==
  ASSUME NEW y \in Nat
  PROVE  /\ Cols * y \in Nat
         /\ y <= Rows - 1 => Cols * y + Cols <= Cols * Rows
         /\ y = Rows => Cols * y = Cols * Rows
         /\ y = Rows - 1 => Cols * y = Cols * Rows - Cols
         /\ Cols * (y + 1) = Cols * y + Cols
<1>1. Cols * y \in Nat /\ Cols * (y + 1) = Cols * y + Cols
  BY Sizes
<1>2. y <= Rows - 1 => Cols * (y + 1) <= Cols * Rows
  BY Sizes
<1>3. y = Rows - 1 => Cols * (y + 1) = Cols * Rows
  BY Sizes
<1>4. QED
  BY <1>1, <1>2, <1>3, Sizes

\* What a uint16_t makes of a position.
LEMMA KeptIs ==
  ASSUME NEW x \in Columns, NEW y \in 0 .. MaxY
  PROVE  /\ Kept(y) = y
         /\ x >= 0 => Kept(x) = x
         /\ Kept(x) \in Columns \cap Nat
<1>1. Kept(y) = y
  BY ModSmall, Sizes DEF Kept
<1>2. CASE x >= 0
  <2>1. x \in 0 .. Word - 1
    BY <1>2, Sizes DEF Columns
  <2>2. Kept(x) = x
    BY <2>1, ModSmall, Sizes DEF Kept
  <2>3. QED
    BY <1>1, <2>1, <2>2
<1>3. CASE x < 0
  <2>1. x \in 1 - Cols .. -1 /\ x \in 1 - Word .. -1
    BY <1>3, Sizes DEF Columns
  <2>2. Kept(x) = x + Word
    BY <2>1, ModBelow, Sizes DEF Kept
  <2>3. QED
    BY <1>1, <1>3, <2>1, <2>2, Sizes DEF Columns
<1>4. QED
  BY <1>2, <1>3, Sizes DEF Columns

-----------------------------------------------------------------------------
(***************************************************************************)
(* Pages.                                                                  *)
(***************************************************************************)
LEMMA PageStarts ==
  /\ PageOf(0) = PageCells
  /\ PageOf(1) = PageCells + PageCells
  /\ PageOf(2) = PageCells + PageCells + PageCells
  /\ PageOf(3) = PageCells + PageCells + PageCells + PageCells
BY Sizes DEF PageOf

\* There are at most three terminals.
LEMMA TermCases ==
  /\ Terms \subseteq {0, 1, 2}
  /\ NumTerms = 1 \/ NumTerms = 2 \/ NumTerms = 3
  /\ \A t \in Terms : t < NumTerms
  /\ 0 \in Terms
BY ConstantsAssumption DEF Terms

\* Every cell of the page, and of the copies, is in memory; the copies lie
\* apart from each other and from the page.
LEMMA Pages ==
  /\ Visible \subseteq Page /\ Page \subseteq Memory
  /\ Memory \subseteq Nat
  /\ \A t \in Terms : PageOf(t) \in Nat /\ PageOf(t) >= PageCells
  /\ \A t \in Terms : \A i \in Page : PageOf(t) + i \in Memory
  /\ \A t, u \in Terms : t # u =>
       \/ PageOf(t) >= PageOf(u) + PageCells
       \/ PageOf(u) >= PageOf(t) + PageCells
<1>1. PageOf(3) \in Nat /\ PageOf(3) >= PageCells
  BY PageStarts, Sizes
<1>2. Visible \subseteq Page /\ Page \subseteq Memory /\ Memory \subseteq Nat
  BY <1>1, Sizes DEF Visible, Page, Memory
<1>3. \A t \in Terms : /\ PageOf(t) \in Nat /\ PageOf(t) >= PageCells
                       /\ PageOf(t) + PageCells <= PageOf(3)
  BY PageStarts, TermCases, Sizes
<1>4. \A t \in Terms : \A i \in Page : PageOf(t) + i \in Memory
  BY <1>1, <1>3, Sizes DEF Page, Memory
<1>5. \A t, u \in Terms : t # u =>
        \/ PageOf(t) >= PageOf(u) + PageCells
        \/ PageOf(u) >= PageOf(t) + PageCells
  BY PageStarts, TermCases, Sizes
<1>6. QED
  BY <1>2, <1>3, <1>4, <1>5

-----------------------------------------------------------------------------
(***************************************************************************)
(* What the operators of lib.c do to a position and a memory.              *)
(***************************************************************************)
Frame == [x : Columns, y : 0 .. MaxY, mem : [Memory -> Shades]]

\* Nothing behind the page has been written.
Ahead(m, n) == \A i \in Memory : i >= PageCells => n[i] = m[i]

\* A frame field by field; one is made from its fields, and changed in one.
LEMMA FrameIs ==
  ASSUME NEW s \in Frame
  PROVE  /\ s.x \in Columns /\ s.y \in 0 .. MaxY
         /\ s.mem \in [Memory -> Shades]
         /\ s.x \in Int /\ s.y \in Nat /\ Cell(s) \in Int
         /\ s = [x |-> s.x, y |-> s.y, mem |-> s.mem]
BY Sizes DEF Frame, Cell, Columns

LEMMA FrameMade ==
  ASSUME NEW x \in Columns, NEW y \in 0 .. MaxY,
         NEW m \in [Memory -> Shades]
  PROVE  [x |-> x, y |-> y, mem |-> m] \in Frame
BY DEF Frame

LEMMA FrameSet ==
  ASSUME NEW s \in Frame, NEW a, NEW b
  PROVE  [s EXCEPT !.x = a, !.y = b] = [x |-> a, y |-> b, mem |-> s.mem]
<1> DEFINE d == [s EXCEPT !.x = a]
           e == [d EXCEPT !.y = b]
<1>1. d = [x |-> a, y |-> s.y, mem |-> s.mem]
  BY DEF Frame
<1>2. [s EXCEPT !.x = a, !.y = b] = e
  OBVIOUS
<1> HIDE DEF d
<1>3. e = [x |-> a, y |-> b, mem |-> s.mem]
  BY <1>1
<1>4. QED
  BY <1>2, <1>3

\* Each routine of lib.c keeps a frame a frame, and what it does to it.
LEMMA StoreIs ==
  ASSUME NEW s \in Frame, NEW i \in Int, NEW c \in Shades
  PROVE  /\ Store(s, i, c) \in Frame
         /\ Store(s, i, c).x = s.x /\ Store(s, i, c).y = s.y
         /\ \A j \in Memory :
              Store(s, i, c).mem[j] = IF j = i THEN c ELSE s.mem[j]
<1>1. s.mem \in [Memory -> Shades]
  BY FrameIs
<1>2. [s.mem EXCEPT ![i] = c] \in [Memory -> Shades]
  BY <1>1
<1>3. i \notin Memory => [s.mem EXCEPT ![i] = c] = s.mem
  BY <1>1
<1>4. Store(s, i, c) = [x |-> s.x, y |-> s.y, mem |-> [s.mem EXCEPT ![i] = c]]
  BY <1>3 DEF Store, Frame
<1>5. QED
  BY <1>1, <1>2, <1>4, FrameIs, FrameMade

LEMMA RightIs ==
  ASSUME NEW s \in Frame
  PROVE  /\ Right(s) \in Frame
         /\ Right(s).mem = s.mem
         /\ Right(s).x = Rem(s.x + 1, Cols) /\ Right(s).y = s.y % Rows
         /\ Right(s).y \in 0 .. Rows - 1
<1> DEFINE a == Rem(s.x + 1, Cols)
           b == s.y % Rows
<1>0. Right(s) = [s EXCEPT !.x = a, !.y = b]
  BY DEF Right
<1> HIDE DEF a, b
<1>1. Right(s) = [x |-> a, y |-> b, mem |-> s.mem]
  BY <1>0, FrameSet
<1> USE DEF a, b
<1>2. Rem(s.x + 1, Cols) \in Columns
  BY RemIs, Sizes, FrameIs DEF Columns
<1>3. s.y % Rows \in 0 .. Rows - 1
  BY ModTyped, Sizes, FrameIs
<1>4. s.y % Rows \in 0 .. MaxY
  BY <1>3, Sizes
<1>5. QED
  BY <1>1, <1>2, <1>3, <1>4, FrameIs, FrameMade

LEMMA NewlineIs ==
  ASSUME NEW s \in Frame, NEW c \in Shades
  PROVE  /\ Newline(s, c) \in Frame
         /\ Newline(s, c).x = Rem(s.x + 1, Cols)
         /\ Newline(s, c).y = s.y % Rows
         /\ Newline(s, c).y \in 0 .. Rows - 1
         /\ \A j \in Memory :
              Newline(s, c).mem[j] = IF j = Cell(s) THEN c ELSE s.mem[j]
<1> DEFINE i == Cell(s)
           z == Store(s, i, c)
<1>0. i \in Int
  BY FrameIs
<1> HIDE DEF i
<1>1. /\ z \in Frame /\ z.x = s.x /\ z.y = s.y
      /\ \A j \in Memory : z.mem[j] = IF j = i THEN c ELSE s.mem[j]
  BY <1>0, StoreIs
<1> USE DEF i
<1>2. Newline(s, c) = Right(z)
  BY DEF Newline
<1> HIDE DEF z
<1>3. QED
  BY <1>1, <1>2, RightIs

LEMMA ScrolldownIs ==
  ASSUME NEW s \in Frame
  PROVE  /\ Scrolldown(s) \in Frame
         /\ Scrolldown(s).y = s.y
         /\ Scrolldown(s).x = IF s.y = Rows - 1 THEN 0 ELSE s.x
         /\ \A j \in Memory :
              Scrolldown(s).mem[j] =
                IF s.y = Rows - 1 THEN ScrollRows(s.mem)[j] ELSE s.mem[j]
         /\ Ahead(s.mem, Scrolldown(s).mem)
<1>1. ScrollRows(s.mem) \in [Memory -> Shades]
  BY FrameIs, Pages DEF ScrollRows, Visible, Page, Shades
<1>2. \A j \in Memory : j >= PageCells => ScrollRows(s.mem)[j] = s.mem[j]
  <2>1. \A j \in Memory : j >= PageCells => j \notin Visible
    BY Pages, Sizes DEF Visible
  <2>2. QED
    BY <2>1 DEF ScrollRows
<1>3. CASE s.y = Rows - 1
  <2>1. Scrolldown(s) = [x |-> 0, y |-> s.y, mem |-> ScrollRows(s.mem)]
    BY <1>3 DEF Scrolldown, Frame
  <2>2. 0 \in Columns
    BY Sizes DEF Columns
  <2>3. QED
    BY <1>1, <1>2, <1>3, <2>1, <2>2, FrameIs, FrameMade DEF Ahead
<1>4. CASE s.y # Rows - 1
  BY <1>4 DEF Scrolldown, Ahead
<1>5. QED
  BY <1>3, <1>4

\* Where putc puts a character: on the last row when a newline has left it.
PutAt(s) == IF s.y = Rows THEN Scrolldown([s EXCEPT !.y = Rows - 1]) ELSE s

LEMMA PutAtIs ==
  ASSUME NEW s \in Frame
  PROVE  /\ PutAt(s) \in Frame
         /\ s.y = Rows =>
              /\ PutAt(s).x = 0 /\ PutAt(s).y = Rows - 1
              /\ \A j \in Memory : PutAt(s).mem[j] = ScrollRows(s.mem)[j]
         /\ s.y # Rows => PutAt(s) = s
         /\ Ahead(s.mem, PutAt(s).mem)
<1>1. CASE s.y = Rows
  <2> DEFINE w == [s EXCEPT !.y = Rows - 1]
  <2>1. w = [x |-> s.x, y |-> Rows - 1, mem |-> s.mem]
    BY DEF Frame
  <2>2. Rows - 1 \in 0 .. MaxY
    BY Sizes
  <2>3. w \in Frame
    BY <2>1, <2>2, FrameIs, FrameMade
  <2>4. w.y = Rows - 1 /\ w.mem = s.mem
    BY <2>1
  <2>5. PutAt(s) = Scrolldown(w)
    BY <1>1 DEF PutAt
  <2> HIDE DEF w
  <2>6. QED
    BY <1>1, <2>3, <2>4, <2>5, ScrolldownIs
<1>2. CASE s.y # Rows
  BY <1>2 DEF PutAt, Ahead
<1>3. QED
  BY <1>1, <1>2

LEMMA PutcIs ==
  ASSUME NEW s \in Frame, NEW c \in Shades, c # "nl"
  PROVE  /\ Putc(s, c) = Newline(PutAt(s), c)
         /\ Putc(s, c) \in Frame
         /\ Putc(s, c).x = Rem(PutAt(s).x + 1, Cols)
         /\ Putc(s, c).y = PutAt(s).y % Rows
         /\ Putc(s, c).y \in 0 .. Rows - 1
         /\ \A j \in Memory : Putc(s, c).mem[j] =
              IF j = Cell(PutAt(s)) THEN c ELSE PutAt(s).mem[j]
<1>1. Putc(s, c) = Newline(PutAt(s), c)
  BY DEF Putc, PutAt
<1>2. PutAt(s) \in Frame
  BY PutAtIs
<1>3. QED
  BY <1>1, <1>2, NewlineIs

LEMMA PutcNewline ==
  ASSUME NEW s \in Frame, s.y < MaxY
  PROVE  /\ Putc(s, "nl") \in Frame
         /\ Putc(s, "nl") = [x |-> 0, y |-> s.y + 1, mem |-> s.mem]
<1> DEFINE b == s.y + 1
<1>1. Putc(s, "nl") = [s EXCEPT !.x = 0, !.y = b]
  BY DEF Putc
<1> HIDE DEF b
<1>2. Putc(s, "nl") = [x |-> 0, y |-> b, mem |-> s.mem]
  BY <1>1, FrameSet
<1>3. 0 \in Columns /\ b \in 0 .. MaxY
  BY Sizes, FrameIs DEF b, Columns
<1>4. QED
  BY <1>2, <1>3, FrameIs, FrameMade DEF b

LEMMA BackspaceIs ==
  ASSUME NEW s \in Frame, ~ (s.x = 0 /\ s.y = 0)
  PROVE  /\ Backspace(s) \in Frame
         /\ Backspace(s).x = Rem(s.x - 1, Cols)
         /\ Backspace(s).y = s.y % Rows /\ Backspace(s).y \in 0 .. Rows - 1
         /\ \A j \in Memory : Backspace(s).mem[j] =
              IF j = Cell(s) - 1 THEN "blank" ELSE s.mem[j]
<1> DEFINE i == Cell(s) - 1
           z == Store(s, i, "blank")
           a == Rem(z.x - 1, Cols)
           b == z.y % Rows
<1>1. i \in Int /\ "blank" \in Shades
  BY FrameIs DEF Shades
<1>2. Backspace(s) = [z EXCEPT !.x = a, !.y = b]
  BY DEF Backspace
<1> HIDE DEF i
<1>3. /\ z \in Frame /\ z.x = s.x /\ z.y = s.y
      /\ \A j \in Memory : z.mem[j] = IF j = i THEN "blank" ELSE s.mem[j]
  BY <1>1, StoreIs
<1> HIDE DEF z
<1>4. a \in Columns
  BY <1>3, RemIs, Sizes, FrameIs DEF Columns
<1>5. b \in 0 .. Rows - 1
  BY <1>3, ModTyped, Sizes, FrameIs
<1>6. a = Rem(s.x - 1, Cols) /\ b = s.y % Rows
  BY <1>3
<1> HIDE DEF a, b
<1>7. Backspace(s) = [x |-> a, y |-> b, mem |-> z.mem]
  BY <1>2, <1>3, FrameSet
<1>8. b \in 0 .. MaxY /\ z.mem \in [Memory -> Shades]
  BY <1>3, <1>5, Sizes, FrameIs
<1>9. Backspace(s) \in Frame
  BY <1>4, <1>7, <1>8, FrameMade
<1>10. QED
  BY <1>3, <1>5, <1>6, <1>7, <1>9 DEF i

LEMMA ClearscreenIs ==
  ASSUME NEW s \in Frame
  PROVE  /\ Clearscreen(s) \in Frame
         /\ Clearscreen(s) = [x |-> 0, y |-> 0, mem |-> Blank(s.mem)]
         /\ Ahead(s.mem, Clearscreen(s).mem)
<1>1. Blank(s.mem) \in [Memory -> Shades]
  BY FrameIs DEF Blank, Shades
<1>2. 0 \in Columns /\ 0 \in 0 .. MaxY
  BY Sizes DEF Columns
<1>3. Clearscreen(s) = [x |-> 0, y |-> 0, mem |-> Blank(s.mem)]
  BY DEF Clearscreen
<1>4. \A j \in Memory : j >= PageCells => Blank(s.mem)[j] = s.mem[j]
  <2>1. \A j \in Memory : j >= PageCells => j \notin Visible
    BY Pages, Sizes DEF Visible
  <2>2. QED
    BY <2>1 DEF Blank
<1>5. QED
  BY <1>1, <1>2, <1>3, <1>4, FrameMade DEF Ahead

-----------------------------------------------------------------------------
(***************************************************************************)
(* Spaces and Backspaces: what each of several steps leads to.             *)
(***************************************************************************)
\* A function that takes m steps exists, ...
Walks(S, F, s, m) ==
  {f \in [0 .. m -> S] : f[0] = s /\ \A i \in 1 .. m : f[i] = F[f[i - 1]]}

\* Times follows a chain of steps, if each step has one.  The recursive
\* function is unfolded once per step, and the least number of steps that is
\* not reached is the contradiction.
LEMMA Iterates ==
  ASSUME NEW S, NEW F \in [S -> S], NEW s \in S, NEW m \in Nat
  PROVE  Walks(S, F, s, m) # {}
<1> DEFINE Is(f, n) == f[0] = s /\ \A i \in 1 .. n : f[i] = F[f[i - 1]]
           Bad == {n \in Nat : ~ \E f \in [0 .. n -> S] : Is(f, n)}
<1>0. Bad \subseteq Nat
  OBVIOUS
<1>00. \A n \in Nat : n \notin Bad <=> \E f \in [0 .. n -> S] : Is(f, n)
  OBVIOUS
<1> HIDE DEF Bad
<1>1. Bad = {}
  <2> SUFFICES ASSUME Bad # {} PROVE FALSE
    OBVIOUS
  <2>1. PICK n \in Bad : \A k \in Bad : n <= k
    BY <1>0, LeastNumber
  <2>2. CASE n = 0
    <3>1. [i \in 0 .. 0 |-> s] \in [0 .. 0 -> S] /\ Is([i \in 0 .. 0 |-> s], 0)
      OBVIOUS
    <3>2. QED
      BY <1>0, <1>00, <2>2, <3>1
  <2>3. CASE n # 0
    <3>0. n \in Nat
      BY <1>0
    <3>1. n - 1 \in Nat /\ n - 1 \notin Bad
      BY <2>1, <2>3, <3>0
    <3>2. PICK f \in [0 .. n - 1 -> S] : Is(f, n - 1)
      BY <1>00, <3>1
    <3> DEFINE g == [i \in 0 .. n |-> IF i = n THEN F[f[n - 1]] ELSE f[i]]
    <3>3. g \in [0 .. n -> S]
      BY <3>0, <3>1
    <3>4. \A i \in 0 .. n - 1 : g[i] = f[i]
      BY <3>0
    <3>5. g[n] = F[g[n - 1]]
      BY <3>0, <3>1
    <3> HIDE DEF g
    <3>6. g[0] = s
      BY <3>1, <3>2, <3>4
    <3>7. \A i \in 1 .. n - 1 : g[i] = F[g[i - 1]]
      BY <3>0, <3>2, <3>4
    <3>8. Is(g, n)
      BY <3>0, <3>5, <3>6, <3>7
    <3>9. QED
      BY <1>00, <3>0, <3>3, <3>8
  <2>4. QED
    BY <2>2, <2>3
<1>2. \E f \in [0 .. m -> S] : Is(f, m)
  BY <1>00, <1>1
<1>3. QED
  BY <1>2 DEF Walks

\* ... and leads where each of its steps leads.
LEMMA StepsReach ==
  ASSUME NEW m \in Nat, NEW f, NEW S, f[0] \in S[0],
         \A i \in 1 .. m : f[i - 1] \in S[i - 1] => f[i] \in S[i]
  PROVE  f[m] \in S[m]
<1> DEFINE Bad == {i \in 0 .. m : f[i] \notin S[i]}
<1>1. Bad = {}
  <2> SUFFICES ASSUME Bad # {} PROVE FALSE
    OBVIOUS
  <2>1. Bad \subseteq Nat
    OBVIOUS
  <2>2. PICK n \in Bad : \A k \in Bad : n <= k
    BY <2>1, LeastNumber
  <2>3. n \in 1 .. m /\ f[n] \notin S[n]
    OBVIOUS
  <2>4. n - 1 \in 0 .. m /\ n - 1 \notin Bad
    BY <2>2, <2>3
  <2>5. f[n - 1] \in S[n - 1]
    BY <2>4
  <2>6. QED
    BY <2>3, <2>5
<1>2. QED
  BY <1>1

\* Where blanks that are shown lead, ...
LEMMA SpacesReach ==
  ASSUME NEW s \in Frame, NEW S, s \in S[0],
         \A i \in 1 .. TabWidth : \A z \in S[i - 1] :
           z \in Frame => Putc(z, "blank") \in S[i]
  PROVE  Spaces(s) \in S[TabWidth] /\ Spaces(s) \in Frame
<1> DEFINE Is(f) == f = [i \in 0 .. TabWidth |->
                           IF i = 0 THEN s ELSE Putc(f[i - 1], "blank")]
           F == [z \in Frame |-> Putc(z, "blank")]
           f == CHOOSE g : Is(g)
<1>1. "blank" \in Shades /\ "blank" # "nl"
  BY DEF Shades
<1>2. F \in [Frame -> Frame]
  BY <1>1, PutcIs
<1>3. TabWidth \in Nat
  BY Sizes
<1>4. \A z \in Frame : F[z] = Putc(z, "blank")
  OBVIOUS
<1> HIDE DEF F, Is, f
<1>5. PICK g \in Walks(Frame, F, s, TabWidth) : TRUE
  BY <1>2, <1>3, Iterates
<1> USE DEF Is, f
<1>6. \A i \in 0 .. TabWidth :
        g[i] = IF i = 0 THEN s ELSE Putc(g[i - 1], "blank")
  BY <1>3, <1>4, <1>5 DEF Walks
<1>7. Is(g)
  BY <1>5, <1>6 DEF Walks
<1>8. Is(f)
  BY <1>7
<1>9. Spaces(s) = f[TabWidth]
  BY DEF Spaces, Times
<1> HIDE DEF f
<1>10. f[0] = s /\ \A i \in 1 .. TabWidth : f[i] = Putc(f[i - 1], "blank")
  BY <1>3, <1>8
<1> HIDE DEF Is
<1> DEFINE R == [i \in 0 .. TabWidth |-> S[i] \cap Frame]
<1>11. f[0] \in R[0]
  BY <1>3, <1>10
<1>12. \A i \in 1 .. TabWidth : f[i - 1] \in R[i - 1] => f[i] \in R[i]
  BY <1>1, <1>3, <1>10, PutcIs
<1> HIDE DEF R
<1>13. f[TabWidth] \in R[TabWidth]
  BY <1>3, <1>11, <1>12, StepsReach
<1>14. QED
  BY <1>3, <1>9, <1>13 DEF R

\* Erasing, once and as often as Tab needs.
LEMMA BackspaceTyped ==
  ASSUME NEW s \in Frame
  PROVE  Backspace(s) \in Frame
<1>1. CASE s.x = 0 /\ s.y = 0
  BY <1>1 DEF Backspace
<1>2. QED
  BY <1>1, BackspaceIs

\* ... and blanks that are erased.
LEMMA BackspacesReach ==
  ASSUME NEW s \in Frame, NEW S, s \in S[0],
         \A i \in 1 .. TabWidth : \A z \in S[i - 1] :
           z \in Frame => Backspace(z) \in S[i]
  PROVE  Backspaces(s) \in S[TabWidth] /\ Backspaces(s) \in Frame
<1> DEFINE Is(f) == f = [i \in 0 .. TabWidth |->
                           IF i = 0 THEN s ELSE Backspace(f[i - 1])]
           F == [z \in Frame |-> Backspace(z)]
           f == CHOOSE g : Is(g)
<1>1. F \in [Frame -> Frame]
  BY BackspaceTyped
<1>2. TabWidth \in Nat
  BY Sizes
<1>3. \A z \in Frame : F[z] = Backspace(z)
  OBVIOUS
<1> HIDE DEF F, Is, f
<1>4. PICK g \in Walks(Frame, F, s, TabWidth) : TRUE
  BY <1>1, <1>2, Iterates
<1> USE DEF Is, f
<1>5. \A i \in 0 .. TabWidth :
        g[i] = IF i = 0 THEN s ELSE Backspace(g[i - 1])
  BY <1>2, <1>3, <1>4 DEF Walks
<1>6. Is(g)
  BY <1>4, <1>5 DEF Walks
<1>7. Is(f)
  BY <1>6
<1>8. Backspaces(s) = f[TabWidth]
  BY DEF Backspaces, Times
<1> HIDE DEF f
<1>9. f[0] = s /\ \A i \in 1 .. TabWidth : f[i] = Backspace(f[i - 1])
  BY <1>2, <1>7
<1> HIDE DEF Is
<1> DEFINE R == [i \in 0 .. TabWidth |-> S[i] \cap Frame]
<1>10. f[0] \in R[0]
  BY <1>2, <1>9
<1>11. \A i \in 1 .. TabWidth : f[i - 1] \in R[i - 1] => f[i] \in R[i]
  BY <1>2, <1>9, BackspaceTyped
<1> HIDE DEF R
<1>12. f[TabWidth] \in R[TabWidth]
  BY <1>2, <1>10, <1>11, StepsReach
<1>13. QED
  BY <1>2, <1>8, <1>12 DEF R

-----------------------------------------------------------------------------
(***************************************************************************)
(* Types.                                                                  *)
(***************************************************************************)
Typed == screen \in Frame /\ TypeOK

\* Typed is inductive; below it, one lemma for each thing a key can do.
LEMMA TypedInit == Init => Typed
<1> SUFFICES ASSUME Init PROVE Typed
  OBVIOUS
<1>1. screen \in Frame
  BY Sizes DEF Init, Frame, Shades, Columns
<1>2. cursors \in [Terms -> [x : Columns \cap Nat, y : 0 .. MaxY]]
  BY Sizes DEF Init, Columns
<1>3. 0 \in Terms /\ running \subseteq Terms
  BY TermCases DEF Init
<1>4. inds \in [Terms -> -1 .. BufLen] /\ mess \in 0 .. MaxMess
  BY Sizes DEF Init
<1>5. QED
  BY <1>1, <1>2, <1>3, <1>4, FrameIs DEF Init, Typed, TypeOK

LEMMA NoteTyped ==
  ASSUME TypeOK, NEW b, Note(b)
  PROVE  mess' \in 0 .. MaxMess /\ spilled' \in BOOLEAN
BY Sizes DEF TypeOK, Note

LEMMA IndTyped ==
  ASSUME TypeOK
  PROVE  /\ Ind \in -1 .. BufLen
         /\ \A i \in -1 .. BufLen :
              SetInd(i) => inds' \in [Terms -> -1 .. BufLen]
         /\ 0 \in -1 .. BufLen
BY Sizes DEF TypeOK, Ind, SetInd

LEMMA SpacesTyped ==
  ASSUME NEW s \in Frame
  PROVE  Spaces(s) \in Frame
<1> DEFINE S == [i \in 0 .. TabWidth |-> Frame]
<1>1. "blank" \in Shades /\ "blank" # "nl"
  BY DEF Shades
<1>2. s \in S[0] /\ \A i \in 1 .. TabWidth : \A z \in S[i - 1] :
        z \in Frame => Putc(z, "blank") \in S[i]
  BY <1>1, Sizes, PutcIs
<1> HIDE DEF S
<1>3. QED
  BY <1>2, SpacesReach

LEMMA BackspacesTyped ==
  ASSUME NEW s \in Frame
  PROVE  Backspaces(s) \in Frame
<1> DEFINE S == [i \in 0 .. TabWidth |-> Frame]
<1>1. s \in S[0] /\ \A i \in 1 .. TabWidth : \A z \in S[i - 1] :
        z \in Frame => Backspace(z) \in S[i]
  BY Sizes, BackspaceTyped
<1> HIDE DEF S
<1>2. QED
  BY <1>1, BackspacesReach

LEMMA EchoTyped ==
  ASSUME screen \in Frame, NEW c \in Shades, c = "nl" => screen.y < MaxY
  PROVE  Echo(c) \in Frame
<1>1. Newline(screen, c) \in Frame
  BY NewlineIs
<1>2. CASE c = "nl"
  BY <1>1, <1>2, PutcNewline DEF Echo
<1>3. CASE c # "nl"
  BY <1>1, <1>3, PutcIs DEF Echo
<1>4. QED
  BY <1>2, <1>3

\* What the copies of switch_terminal leave.
LEMMA SwappedIs ==
  ASSUME NEW m \in [Memory -> Shades], NEW from \in Terms, NEW to \in Terms,
         from # to
  PROVE  /\ Swapped(m, from, to) \in [Memory -> Shades]
         /\ \A i \in Page : Swapped(m, from, to)[i] = m[PageOf(to) + i]
         /\ \A i \in Page : Swapped(m, from, to)[PageOf(from) + i] = m[i]
         /\ \A t \in Terms \ {from, to} : \A i \in Page :
              Swapped(m, from, to)[PageOf(t) + i] = m[PageOf(t) + i]
<1> DEFINE p == PageOf(from)
           q == PageOf(to)
           a == Copied(m, 0, p)
           b == Copied(a, q, 0)
           r == Forgotten(b, q)
<1>1. /\ p \in Nat /\ q \in Nat /\ p >= PageCells /\ q >= PageCells
      /\ p >= q + PageCells \/ q >= p + PageCells
      /\ \A i \in Page : p + i \in Memory /\ q + i \in Memory
  BY Pages
<1>2. Page \subseteq Memory /\ Memory \subseteq Nat /\ PageCells \in Nat
  BY Pages, Sizes
<1>3. \A i : i \in Page <=> i \in Int /\ 0 <= i /\ i < PageCells
  BY Sizes DEF Page
<1>4. Swapped(m, from, to) = r
  BY DEF Swapped
<1> HIDE DEF p, q
<1>5. \A i \in Memory : a[i] = IF i - p \in Page THEN m[i - p] ELSE m[i]
  BY <1>1, <1>2, <1>3 DEF Copied
<1>6. a \in [Memory -> Shades]
  BY <1>1, <1>2, <1>3 DEF Copied
<1> HIDE DEF a
<1>7. \A i \in Memory : b[i] = IF i \in Page THEN a[i + q] ELSE a[i]
  BY <1>1, <1>2, <1>3 DEF Copied
<1>8. b \in [Memory -> Shades]
  BY <1>1, <1>2, <1>3, <1>6 DEF Copied
<1> HIDE DEF b
<1>9. \A i \in Memory : r[i] = IF i - q \in Page THEN "blank" ELSE b[i]
  BY <1>1, <1>2 DEF Forgotten
<1>10. r \in [Memory -> Shades]
  BY <1>8 DEF Forgotten, Shades
<1> HIDE DEF r
<1>11. \A i \in Page : r[i] = m[q + i]
  <2> SUFFICES ASSUME NEW i \in Page PROVE r[i] = m[q + i]
    OBVIOUS
  <2>1. i \in Memory /\ i - q \notin Page /\ q + i \in Memory /\ q + i = i + q
    BY <1>1, <1>2, <1>3
  <2>2. (q + i) - p \notin Page
    BY <1>1, <1>2, <1>3
  <2>3. QED
    BY <1>5, <1>7, <1>9, <2>1, <2>2
<1>12. \A i \in Page : r[p + i] = m[i]
  <2> SUFFICES ASSUME NEW i \in Page PROVE r[p + i] = m[i]
    OBVIOUS
  <2>1. p + i \in Memory /\ p + i \notin Page /\ (p + i) - p = i
    BY <1>1, <1>2, <1>3
  <2>2. (p + i) - q \notin Page
    BY <1>1, <1>2, <1>3
  <2>3. QED
    BY <1>5, <1>7, <1>9, <2>1, <2>2
<1>13. \A t \in Terms \ {from, to} : \A i \in Page :
         r[PageOf(t) + i] = m[PageOf(t) + i]
  <2> SUFFICES ASSUME NEW t \in Terms \ {from, to}, NEW i \in Page
               PROVE  r[PageOf(t) + i] = m[PageOf(t) + i]
    OBVIOUS
  <2> DEFINE k == PageOf(t)
  <2>1. /\ k \in Nat /\ k >= PageCells /\ k + i \in Memory
        /\ k >= p + PageCells \/ p >= k + PageCells
        /\ k >= q + PageCells \/ q >= k + PageCells
    BY Pages DEF p, q
  <2> HIDE DEF k
  <2>2. k + i \notin Page /\ (k + i) - p \notin Page /\ (k + i) - q \notin Page
    BY <1>1, <1>2, <1>3, <2>1
  <2>3. r[k + i] = m[k + i]
    BY <1>5, <1>7, <1>9, <2>1, <2>2
  <2>4. QED
    BY <2>3 DEF k
<1>14. QED
  BY <1>4, <1>10, <1>11, <1>12, <1>13 DEF p, q

\* The screen switch_terminal shows.
Shown(t) ==
  LET m == Swapped(screen.mem, cur_terminal, t)
  IN  [x |-> cursors[t].x, y |-> cursors[t].y,
       mem |-> IF t \in running \/ t = 0 THEN m ELSE Blank(m)]

\* What a terminal switch shows and keeps, page by page.
LEMMA ShownIs ==
  ASSUME Typed, NEW t \in Terms, t # cur_terminal
  PROVE  /\ Shown(t) \in Frame
         /\ Shown(t).x = cursors[t].x /\ Shown(t).y = cursors[t].y
         /\ \A i \in Visible : Shown(t).mem[i] =
              IF t \in running \/ t = 0 THEN screen.mem[PageOf(t) + i]
              ELSE "blank"
         /\ \A i \in Page :
              Shown(t).mem[PageOf(cur_terminal) + i] = screen.mem[i]
         /\ \A u \in Terms \ {t, cur_terminal} : \A i \in Page :
              Shown(t).mem[PageOf(u) + i] = screen.mem[PageOf(u) + i]
<1> DEFINE m == screen.mem
           r == Swapped(m, cur_terminal, t)
           n == IF t \in running \/ t = 0 THEN r ELSE Blank(r)
<1>1. m \in [Memory -> Shades] /\ cur_terminal \in Terms
  BY FrameIs DEF Typed, TypeOK
<1> HIDE DEF m
<1>2. /\ r \in [Memory -> Shades]
      /\ \A i \in Page : r[i] = m[PageOf(t) + i]
      /\ \A i \in Page : r[PageOf(cur_terminal) + i] = m[i]
      /\ \A u \in Terms \ {t, cur_terminal} : \A i \in Page :
           r[PageOf(u) + i] = m[PageOf(u) + i]
  BY <1>1, SwappedIs
<1> HIDE DEF r
<1>3. n \in [Memory -> Shades]
  BY <1>2 DEF Blank, Shades
<1>4. \A i \in Visible : n[i] = IF t \in running \/ t = 0 THEN m[PageOf(t) + i]
                              ELSE "blank"
  BY <1>2, Pages DEF Blank
<1>5. \A u \in Terms : \A i \in Page :
        /\ PageOf(u) + i \in Memory /\ PageOf(u) + i \notin Visible
  BY Pages, Sizes DEF Page, Visible
<1>6. \A u \in Terms : \A i \in Page : n[PageOf(u) + i] = r[PageOf(u) + i]
  BY <1>5 DEF Blank
<1>7. Shown(t) = [x |-> cursors[t].x, y |-> cursors[t].y, mem |-> n]
  BY DEF Shown, r, m
<1> HIDE DEF n
<1>8. cursors[t].x \in Columns /\ cursors[t].y \in 0 .. MaxY
  BY DEF Typed, TypeOK
<1>9. Shown(t) \in Frame
  BY <1>3, <1>7, <1>8, FrameMade
<1>10. \A u \in Terms : \A i \in Page :
         n[PageOf(u) + i] = IF u = t THEN n[PageOf(u) + i] ELSE
                            IF u = cur_terminal THEN m[i] ELSE m[PageOf(u) + i]
  BY <1>2, <1>6
<1>11. /\ Shown(t).x = cursors[t].x /\ Shown(t).y = cursors[t].y
       /\ Shown(t).mem = n
  BY <1>7
<1>12. QED
  BY <1>1, <1>4, <1>9, <1>10, <1>11 DEF m

\* Every call and key keeps the position and the memory in range.
LEMMA TypedStep == Typed /\ [Next]_vars => Typed'
<1> SUFFICES ASSUME Typed, [Next]_vars PROVE Typed'
  OBVIOUS
<1>1. /\ screen \in Frame /\ TypeOK /\ screen.y \in 0 .. MaxY
      /\ screen.x \in Columns /\ screen.mem \in [Memory -> Shades]
      /\ cur_terminal \in Terms /\ running \subseteq Terms
      /\ cursors \in [Terms -> [x : Columns \cap Nat, y : 0 .. MaxY]]
      /\ inds \in [Terms -> -1 .. BufLen] /\ tab \in BOOLEAN /\ up \in BOOLEAN
      /\ mess \in 0 .. MaxMess /\ spilled \in BOOLEAN
  BY FrameIs DEF Typed, TypeOK
<1>u. up' \in BOOLEAN
  BY <1>1 DEF Next, vars, Returns, Write, CharKey, TabKey, BackspaceKey,
              EnterKey, ClearKey, SwitchTerminal, Fault
<1>t. ASSUME screen' \in Frame, UNCHANGED Hidden,
             inds' \in [Terms -> -1 .. BufLen], tab' \in BOOLEAN,
             mess' \in 0 .. MaxMess, spilled' \in BOOLEAN
      PROVE  Typed'
  <2>1. /\ screen'.x \in Columns /\ screen'.y \in 0 .. MaxY
        /\ screen'.mem \in [Memory -> Shades]
    BY <1>t DEF Frame
  <2>2. QED
    BY <1>1, <1>t, <1>u, <2>1 DEF Typed, TypeOK, Hidden
<1>i. \A b : Note(b) => mess' \in 0 .. MaxMess /\ spilled' \in BOOLEAN
  BY <1>1, NoteTyped
<1>j. \A i \in -1 .. BufLen : SetInd(i) => inds' \in [Terms -> -1 .. BufLen]
  BY <1>1, IndTyped
<1>k. Ind \in -1 .. BufLen /\ 0 \in -1 .. BufLen
  BY <1>1, IndTyped
<1>2. ASSUME NEW c \in Glyphs \cup {"nl"}, Write(c) PROVE Typed'
  <2>1. c \in Shades
    BY DEF Shades
  <2>2. Putc(screen, c) \in Frame
    <3>1. CASE c = "nl"
      BY <1>1, <1>2, <3>1, PutcNewline DEF Write
    <3>2. CASE c # "nl"
      BY <1>1, <2>1, <3>2, PutcIs
    <3>3. QED
      BY <3>1, <3>2
  <2>3. inds' \in [Terms -> -1 .. BufLen]
    BY <1>2, <1>j, <1>k DEF Write
  <2>4. mess' \in 0 .. MaxMess /\ spilled' \in BOOLEAN
    BY <1>2, <1>i DEF Write
  <2>5. QED
    BY <1>1, <1>2, <1>t, <2>2, <2>3, <2>4 DEF Write
<1>3. ASSUME NEW c \in Glyphs, CharKey(c) PROVE Typed'
  <2>1. CASE Ind >= BufLen - 1
    BY <1>1, <1>3, <1>t, <2>1 DEF CharKey
  <2>2. CASE ~ (Ind >= BufLen - 1)
    <3>1. c \in Shades /\ c # "nl"
      BY ConstantsAssumption DEF Shades
    <3>2. Echo(c) \in Frame
      BY <1>1, <3>1, EchoTyped
    <3>3. Ind + 1 \in -1 .. BufLen
      BY <1>k, <2>2, Sizes
    <3>4. inds' \in [Terms -> -1 .. BufLen]
      BY <1>3, <1>j, <2>2, <3>3 DEF CharKey
    <3>5. mess' \in 0 .. MaxMess /\ spilled' \in BOOLEAN
      BY <1>3, <1>i, <2>2 DEF CharKey
    <3>6. QED
      BY <1>3, <1>t, <2>2, <3>2, <3>4, <3>5 DEF CharKey
  <2>3. QED
    BY <2>1, <2>2
<1>4. CASE TabKey
  <2>1. Spaces(screen) \in Frame
    BY <1>1, SpacesTyped
  <2>2. inds' \in [Terms -> -1 .. BufLen]
    <3>1. CASE Ind + 1 >= BufLen - 1
      BY <1>1, <1>4, <3>1 DEF TabKey
    <3>2. CASE ~ (Ind + 1 >= BufLen - 1)
      <4>1. Ind + 1 \in -1 .. BufLen
        BY <1>k, <3>2, Sizes
      <4>2. QED
        BY <1>4, <1>j, <3>2, <4>1 DEF TabKey
    <3>3. QED
      BY <3>1, <3>2
  <2>3. mess' \in 0 .. MaxMess /\ spilled' \in BOOLEAN
    BY <1>4, <1>i DEF TabKey
  <2>4. QED
    BY <1>4, <1>t, <2>1, <2>2, <2>3 DEF TabKey
<1>5. CASE BackspaceKey
  <2>1. Ind - 1 \in -1 .. BufLen
    BY <1>5, <1>k, Sizes DEF BackspaceKey
  <2>2. Backspace(screen) \in Frame /\ Backspaces(screen) \in Frame
    BY <1>1, BackspaceTyped, BackspacesTyped
  <2>3. CASE UNCHANGED <<screen, inds, mess, spilled>>
    BY <1>1, <1>5, <1>t, <2>3 DEF BackspaceKey
  <2>4. CASE /\ screen' = Backspaces(screen) \/ screen' = Backspace(screen)
             /\ SetInd(Ind - 1) /\ \E b : Note(b)
    <3>1. inds' \in [Terms -> -1 .. BufLen]
      BY <1>j, <2>1, <2>4
    <3>2. mess' \in 0 .. MaxMess /\ spilled' \in BOOLEAN
      BY <1>i, <2>4
    <3>3. QED
      BY <1>5, <1>t, <2>2, <2>4, <3>1, <3>2 DEF BackspaceKey
  <2>5. QED
    BY <1>5, <2>3, <2>4 DEF BackspaceKey
<1>6. CASE EnterKey
  <2>1. CASE screen.y = Rows - 1
    <3>1. Scrolldown(screen) \in Frame
      BY <1>1, ScrolldownIs
    <3>2. QED
      BY <1>1, <1>6, <1>t, <2>1, <3>1 DEF EnterKey
  <2>2. CASE screen.y # Rows - 1
    <3>1. "nl" \in Shades
      BY DEF Shades
    <3>2. screen.y < MaxY
      BY <1>6, <2>2 DEF EnterKey
    <3>3. Echo("nl") \in Frame
      BY <1>1, <3>1, <3>2, EchoTyped
    <3>4. inds' \in [Terms -> -1 .. BufLen]
      BY <1>6, <1>j, <1>k, <2>2 DEF EnterKey
    <3>5. mess' \in 0 .. MaxMess /\ spilled' \in BOOLEAN
      BY <1>6, <1>i, <2>2 DEF EnterKey
    <3>6. QED
      BY <1>6, <1>t, <2>2, <3>3, <3>4, <3>5 DEF EnterKey
  <2>3. QED
    BY <2>1, <2>2
<1>7. CASE ClearKey
  <2>1. Clearscreen(screen) \in Frame
    BY <1>1, ClearscreenIs
  <2>2. inds' \in [Terms -> -1 .. BufLen]
    BY <1>7, <1>j, <1>k DEF ClearKey
  <2>3. QED
    BY <1>1, <1>7, <1>t, <2>1, <2>2 DEF ClearKey
<1>8. ASSUME NEW t \in Terms, SwitchTerminal(t) PROVE Typed'
  <2>1. screen' = Shown(t) /\ t # cur_terminal
    BY <1>8 DEF SwitchTerminal, Shown
  <2>2. screen' \in Frame
    BY <2>1, ShownIs
  <2>3. /\ screen'.x \in Columns /\ screen'.y \in 0 .. MaxY
        /\ screen'.mem \in [Memory -> Shades]
    BY <2>2 DEF Frame
  <2>4. cursors' \in [Terms -> [x : Columns \cap Nat, y : 0 .. MaxY]]
    <3> DEFINE P == [x : Columns \cap Nat, y : 0 .. MaxY]
    <3>a. Kept(screen.x) \in Columns \cap Nat /\ Kept(screen.y) \in 0 .. MaxY
      BY <1>1, KeptIs
    <3>b. 0 \in Columns \cap Nat /\ 0 \in 0 .. MaxY
      BY Sizes DEF Columns
    <3>1. /\ [x |-> 0, y |-> 0] \in P
          /\ [x |-> Kept(screen.x), y |-> Kept(screen.y)] \in P
      BY <3>a, <3>b
    <3>2. cursors' = [cursors EXCEPT ![t] = [x |-> 0, y |-> 0],
                                     ![cur_terminal] = [x |-> Kept(screen.x),
                                                        y |-> Kept(screen.y)]]
      BY <1>8 DEF SwitchTerminal
    <3>3. cursors \in [Terms -> P]
      BY <1>1
    <3> HIDE DEF P
    <3>4. cursors' \in [Terms -> P]
      BY <3>1, <3>2, <3>3
    <3>5. QED
      BY <3>4 DEF P
  <2>5. cur_terminal' \in Terms /\ running' \subseteq Terms
    BY <1>1, <1>8 DEF SwitchTerminal
  <2>6. QED
    BY <1>1, <1>8, <1>u, <2>2, <2>3, <2>4, <2>5
       DEF SwitchTerminal, Typed, TypeOK
<1>9. CASE Fault
  BY <1>1, <1>9, <1>t DEF Fault
<1>10. CASE UNCHANGED vars
  BY <1>10 DEF vars, Typed, TypeOK
<1>11. QED
  BY <1>2, <1>3, <1>4, <1>5, <1>6, <1>7, <1>8, <1>9, <1>10 DEF Next

\* The type invariant of Screen: whatever is printed, typed and switched to,
\* the column stays within a row; but backspace can make it negative, and a
\* terminal comes back with what a uint16_t makes of that.
THEOREM ScreenTypeCorrect == Spec => []TypeOK
<1>1. Typed => TypeOK
  BY DEF Typed
<1>2. QED
  BY <1>1, TypedInit, TypedStep, PTL DEF Spec

-----------------------------------------------------------------------------
(***************************************************************************)
(* What a terminal comes back to.                                          *)
(***************************************************************************)
\* Below the screen the position is at the start of its row.
Low(s) == s.y >= Rows => s.x = 0

\* The terminals whose page has been kept are those that have been visited.
Visited(at, r, c) ==
  /\ 0 \in r /\ at \in r
  /\ \A t \in Terms \ r : c[t] = [x |-> 0, y |-> 0]

\* What switch_terminal will show of a hidden terminal.
PageKept(m, r, t) ==
  [i \in Visible |-> IF t \in r THEN m[PageOf(t) + i] ELSE "blank"]
KeptAs(m, r, c, t) ==
  [x |-> c[t].x, y |-> c[t].y, page |-> PageKept(m, r, t)]

\* The invariant: unless a character was written behind the page, each hidden
\* terminal is kept as it was left.
Keeping ==
  /\ Low(screen) /\ \A t \in Terms : Low(cursors[t])
  /\ Visited(cur_terminal, running, cursors)
  /\ DOMAIN left = Terms
  /\ ~spilled => \A t \in Terms \ {cur_terminal} :
                   Returned(KeptAs(screen.mem, running, cursors, t), left[t])

\* While the row is no more than one below the screen, a character is written
\* inside the page, or so far behind it that there is no memory.
LEMMA InPage ==
  ASSUME NEW s \in Frame, Low(s), s.y <= Rows
  PROVE  \A i \in Memory : i >= PageCells => i # Cell(s) /\ i # Cell(s) - 1
<1>1. /\ s.x \in Int /\ s.y \in Nat
      /\ s.x <= Cols - 1 \/ s.x >= Word + 1 - Cols
  BY FrameIs, Sizes DEF Columns
<1>0. Cols * s.y \in Nat
  BY <1>1, RowCells
<1>2. CASE s.y = Rows
  <2>1. Cell(s) \in Int /\ Cell(s) < PageCells
    BY <1>1, <1>2, RowCells, Sizes DEF Low, Cell
  <2>2. QED
    BY <2>1, Pages, Sizes
<1>3. CASE s.y < Rows /\ s.x <= Cols - 1
  <2>1. Cols * s.y + Cols <= Cols * Rows
    BY <1>1, <1>3, RowCells, Sizes
  <2>2. Cell(s) \in Int /\ Cell(s) < PageCells
    BY <1>0, <1>1, <1>3, <2>1, Sizes DEF Cell
  <2>3. QED
    BY <2>2, Pages, Sizes
<1>4. CASE s.x >= Word + 1 - Cols
  <2>1. \A i \in Memory : i \in Nat /\ i < 4 * PageCells
    BY PageStarts, Sizes DEF Memory
  <2>2. Cell(s) \in Int /\ Cell(s) - 1 >= 4 * PageCells
    BY <1>0, <1>1, <1>4, Sizes DEF Cell
  <2>3. QED
    BY <2>1, <2>2, Sizes
<1>5. QED
  BY <1>1, <1>2, <1>3, <1>4, Sizes

\* So nothing that is printed or erased changes what lies behind the page.
LEMMA AheadTwice ==
  ASSUME NEW m, NEW n, NEW o, Ahead(m, n), Ahead(n, o)
  PROVE  Ahead(m, o)
BY DEF Ahead

LEMMA NewlineAhead ==
  ASSUME NEW s \in Frame, NEW c \in Shades
  PROVE  /\ Low(Newline(s, c))
         /\ Low(s) /\ s.y <= Rows => Ahead(s.mem, Newline(s, c).mem)
<1>1. Newline(s, c).y < Rows /\ Newline(s, c).y \in Int
  BY NewlineIs, Sizes
<1>2. ASSUME Low(s), s.y <= Rows
      PROVE  Ahead(s.mem, Newline(s, c).mem)
  <2>1. \A i \in Memory : i >= PageCells => i # Cell(s)
    BY <1>2, InPage
  <2>2. QED
    BY <2>1, NewlineIs DEF Ahead
<1>3. QED
  BY <1>1, <1>2, Sizes DEF Low

LEMMA PutcAhead ==
  ASSUME NEW s \in Frame, NEW c \in Shades, c = "nl" => s.y < MaxY
  PROVE  /\ Low(Putc(s, c))
         /\ Low(s) /\ s.y <= Rows => Ahead(s.mem, Putc(s, c).mem)
<1>1. CASE c = "nl"
  BY <1>1, PutcNewline DEF Low, Ahead
<1>2. CASE c # "nl"
  <2> DEFINE z == PutAt(s)
  <2>1. z \in Frame /\ Ahead(s.mem, z.mem) /\ Putc(s, c) = Newline(z, c)
    BY <1>2, PutAtIs, PutcIs
  <2>2. s.y = Rows => z.x = 0 /\ z.y = Rows - 1
    BY PutAtIs
  <2>3. s.y # Rows => z = s
    BY PutAtIs
  <2> HIDE DEF z
  <2>4. Low(Newline(z, c)) /\ (Low(z) /\ z.y <= Rows => Ahead(z.mem, Newline(z, c).mem))
    BY <2>1, NewlineAhead
  <2>5. Low(s) /\ s.y <= Rows => Low(z) /\ z.y <= Rows
    BY <2>2, <2>3, Sizes DEF Low
  <2>6. QED
    BY <2>1, <2>4, <2>5, AheadTwice
<1>3. QED
  BY <1>1, <1>2

LEMMA BackspaceAhead ==
  ASSUME NEW s \in Frame, Low(s)
  PROVE  /\ Low(Backspace(s))
         /\ s.y <= Rows => Ahead(s.mem, Backspace(s).mem) /\ Backspace(s).y <= Rows
<1>1. CASE s.x = 0 /\ s.y = 0
  BY <1>1, Sizes DEF Backspace, Ahead
<1>2. CASE ~ (s.x = 0 /\ s.y = 0)
  <2>1. Backspace(s).y < Rows /\ Backspace(s).y \in Int
    BY <1>2, BackspaceIs, Sizes
  <2>2. ASSUME s.y <= Rows
        PROVE  Ahead(s.mem, Backspace(s).mem)
    <3>1. \A i \in Memory : i >= PageCells => i # Cell(s) - 1
      BY <2>2, InPage
    <3>2. QED
      BY <1>2, <3>1, BackspaceIs DEF Ahead
  <2>3. QED
    BY <2>1, <2>2, Sizes DEF Low
<1>3. QED
  BY <1>1, <1>2

LEMMA ScrolldownAhead ==
  ASSUME NEW s \in Frame, Low(s)
  PROVE  Low(Scrolldown(s)) /\ Ahead(s.mem, Scrolldown(s).mem)
BY ScrolldownIs DEF Low

LEMMA SpacesAhead ==
  ASSUME NEW s \in Frame, Low(s)
  PROVE  /\ Low(Spaces(s))
         /\ s.y <= Rows => Ahead(s.mem, Spaces(s).mem)
<1> DEFINE R == {z \in Frame : Low(z) /\ (s.y <= Rows =>
                                          Ahead(s.mem, z.mem) /\ z.y <= Rows)}
           S == [i \in 0 .. TabWidth |-> R]
<1>1. "blank" \in Shades /\ "blank" # "nl"
  BY DEF Shades
<1>2. s \in R
  BY DEF Ahead
<1>3. ASSUME NEW z \in R PROVE Putc(z, "blank") \in R
  <2> DEFINE w == Putc(z, "blank")
  <2>1. w \in Frame /\ w.y \in 0 .. Rows - 1
    BY <1>1, <1>3, PutcIs
  <2>2. Low(w) /\ (Low(z) /\ z.y <= Rows => Ahead(z.mem, w.mem))
    BY <1>1, <1>3, PutcAhead
  <2> HIDE DEF w
  <2>3. w.y <= Rows
    BY <2>1, Sizes
  <2>4. s.y <= Rows => Ahead(s.mem, w.mem)
    BY <1>3, <2>2, AheadTwice
  <2>5. w \in R
    BY <2>1, <2>2, <2>3, <2>4
  <2>6. QED
    BY <2>5 DEF w
<1> HIDE DEF R
<1>4. s \in S[0] /\ \A i \in 1 .. TabWidth : \A z \in S[i - 1] :
        z \in Frame => Putc(z, "blank") \in S[i]
  BY <1>2, <1>3, Sizes
<1>5. S[TabWidth] = R
  BY Sizes
<1> HIDE DEF S
<1>6. Spaces(s) \in R
  BY <1>4, <1>5, SpacesReach
<1>7. QED
  BY <1>6 DEF R

LEMMA BackspacesAhead ==
  ASSUME NEW s \in Frame, Low(s)
  PROVE  /\ Low(Backspaces(s))
         /\ s.y <= Rows => Ahead(s.mem, Backspaces(s).mem)
<1> DEFINE R == {z \in Frame : Low(z) /\ (s.y <= Rows =>
                                          Ahead(s.mem, z.mem) /\ z.y <= Rows)}
           S == [i \in 0 .. TabWidth |-> R]
<1>1. s \in R
  BY DEF Ahead
<1>2. ASSUME NEW z \in R PROVE Backspace(z) \in R
  <2> DEFINE w == Backspace(z)
  <2>1. w \in Frame
    BY <1>2, BackspaceTyped
  <2>2. Low(w) /\ (z.y <= Rows => Ahead(z.mem, w.mem) /\ w.y <= Rows)
    BY <1>2, BackspaceAhead
  <2> HIDE DEF w
  <2>3. s.y <= Rows => Ahead(s.mem, w.mem)
    BY <1>2, <2>2, AheadTwice
  <2>4. w \in R
    BY <1>2, <2>1, <2>2, <2>3
  <2>5. QED
    BY <2>4 DEF w
<1> HIDE DEF R
<1>3. s \in S[0] /\ \A i \in 1 .. TabWidth : \A z \in S[i - 1] :
        z \in Frame => Backspace(z) \in S[i]
  BY <1>1, <1>2, Sizes
<1>4. S[TabWidth] = R
  BY Sizes
<1> HIDE DEF S
<1>5. Backspaces(s) \in R
  BY <1>3, <1>4, BackspacesReach
<1>6. QED
  BY <1>5 DEF R

LEMMA EchoAhead ==
  ASSUME screen \in Frame, Low(screen), NEW c \in Shades,
         c = "nl" => screen.y < MaxY
  PROVE  /\ Low(Echo(c))
         /\ screen.y <= Rows => Ahead(screen.mem, Echo(c).mem)
<1>1. CASE Ind + 1 = Cols
  BY <1>1, NewlineAhead DEF Echo
<1>2. CASE Ind + 1 # Cols
  BY <1>2, PutcAhead DEF Echo
<1>3. QED
  BY <1>1, <1>2

\* Keeping is inductive, given Typed.
LEMMA KeepingInit == Init => Keeping
<1> SUFFICES ASSUME Init PROVE Keeping
  OBVIOUS
<1>1. /\ screen = [x |-> 0, y |-> 0, mem |-> [i \in Memory |-> "blank"]]
      /\ cursors = [t \in Terms |-> [x |-> 0, y |-> 0]]
      /\ cur_terminal = 0 /\ running = {0}
  BY DEF Init
<1>2. View = [x |-> 0, y |-> 0, page |-> [i \in Visible |-> "blank"]]
  BY <1>1, Pages DEF View
<1>3. \A t \in Terms \ {0} : left[t] = View
  BY DEF Init
<1>4. \A t \in Terms \ {0} : PageKept(screen.mem, running, t) = [i \in Visible |-> "blank"]
  BY <1>1 DEF PageKept
<1>5. \A t \in Terms \ {0} :
        Returned(KeptAs(screen.mem, running, cursors, t), left[t])
  BY <1>1, <1>2, <1>3, <1>4 DEF KeptAs, Returned
<1>6. DOMAIN left = Terms
  BY DEF Init
<1>7. QED
  BY <1>1, <1>5, <1>6 DEF Keeping, Low, Visited

\* A page that has been kept is not written by what is shown.
LEMMA KeptAhead ==
  ASSUME NEW m, NEW n, Ahead(m, n), NEW r, NEW c, NEW t \in Terms
  PROVE  /\ PageKept(n, r, t) = PageKept(m, r, t)
         /\ KeptAs(n, r, c, t) = KeptAs(m, r, c, t)
<1>1. \A i \in Visible : /\ PageOf(t) + i \in Memory
                        /\ PageOf(t) + i >= PageCells
  BY Pages, Sizes DEF Page, Visible
<1>2. \A i \in Visible : n[PageOf(t) + i] = m[PageOf(t) + i]
  BY <1>1 DEF Ahead
<1>3. PageKept(n, r, t) = PageKept(m, r, t)
  BY <1>2 DEF PageKept
<1>4. QED
  BY <1>3 DEF KeptAs

\* Nothing is written behind the page while the position is on it.
LEMMA NotePage ==
  ASSUME Typed, NEW b, Note(b)
  PROVE  ~spilled' => ~spilled /\ screen.y <= Rows
<1>1. spilled' = (spilled \/ screen.y > Rows)
  BY DEF Note
<1>2. ~spilled' => ~spilled /\ ~ (screen.y > Rows)
  BY <1>1, Zenon
<1>3. screen.y \in Nat
  BY FrameIs DEF Typed
<1>4. ~ (screen.y > Rows) => screen.y <= Rows
  BY <1>3, Sizes
<1>5. QED
  BY <1>2, <1>4

\* The steps on the shown terminal keep what is behind the page, and a switch
\* stores one page and brings another back.
LEMMA KeepingStep == Typed /\ Keeping /\ [Next]_vars => Keeping'
<1> SUFFICES ASSUME Typed, Keeping, [Next]_vars PROVE Keeping'
  OBVIOUS
<1>1. screen \in Frame /\ Low(screen) /\ cur_terminal \in Terms
  BY DEF Typed, TypeOK, Keeping
<1>t. ASSUME Low(screen'), UNCHANGED Hidden,
             ~spilled' => ~spilled /\ Ahead(screen.mem, screen'.mem)
      PROVE  Keeping'
  <2>1. /\ cur_terminal' = cur_terminal /\ cursors' = cursors
        /\ running' = running /\ left' = left
    BY <1>t DEF Hidden
  <2>2. ASSUME ~spilled', NEW t \in Terms \ {cur_terminal}
        PROVE  Returned(KeptAs(screen'.mem, running, cursors, t), left[t])
    <3>1. Returned(KeptAs(screen.mem, running, cursors, t), left[t])
      BY <1>t, <2>2 DEF Keeping
    <3>2. QED
      BY <1>t, <2>2, <3>1, KeptAhead
  <2>3. QED
    BY <1>t, <2>1, <2>2 DEF Keeping
<1>a. Ahead(screen.mem, screen.mem)
  BY DEF Ahead
<1>2. ASSUME NEW c \in Glyphs \cup {"nl"}, Write(c) PROVE Keeping'
  <2>1. c \in Shades /\ (c = "nl" => screen.y < MaxY)
    BY <1>2 DEF Shades, Write
  <2>2. \E b : Note(b)
    BY <1>2 DEF Write
  <2>3. screen' = Putc(screen, c) /\ UNCHANGED Hidden
    BY <1>2 DEF Write
  <2>4. QED
    BY <1>1, <1>t, <2>1, <2>2, <2>3, NotePage, PutcAhead
<1>3. ASSUME NEW c \in Glyphs, CharKey(c) PROVE Keeping'
  <2>1. CASE Ind >= BufLen - 1
    BY <1>1, <1>3, <1>a, <1>t, <2>1 DEF CharKey
  <2>2. CASE ~ (Ind >= BufLen - 1)
    <3>1. c \in Shades /\ c # "nl"
      BY ConstantsAssumption DEF Shades
    <3>2. screen' = Echo(c) /\ Note(Passes(1)) /\ UNCHANGED Hidden
      BY <1>3, <2>2 DEF CharKey
    <3>3. QED
      BY <1>1, <1>t, <3>1, <3>2, NotePage, EchoAhead
  <2>3. QED
    BY <2>1, <2>2
<1>4. CASE TabKey
  BY <1>1, <1>4, <1>t, NotePage, SpacesAhead DEF TabKey
<1>5. CASE BackspaceKey
  <2>1. CASE UNCHANGED <<screen, inds, mess, spilled>>
    BY <1>1, <1>5, <1>a, <1>t, <2>1 DEF BackspaceKey
  <2>2. CASE /\ screen' = Backspaces(screen) \/ screen' = Backspace(screen)
             /\ \E b : Note(b)
    <3>1. Low(screen') /\ (screen.y <= Rows => Ahead(screen.mem, screen'.mem))
      BY <1>1, <2>2, BackspaceAhead, BackspacesAhead
    <3>2. QED
      BY <1>5, <1>t, <2>2, <3>1, NotePage DEF BackspaceKey
  <2>3. QED
    BY <1>5, <2>1, <2>2 DEF BackspaceKey
<1>6. CASE EnterKey
  <2>1. CASE screen.y = Rows - 1
    BY <1>1, <1>6, <1>t, <2>1, ScrolldownAhead DEF EnterKey
  <2>2. CASE screen.y # Rows - 1
    <3>1. "nl" \in Shades
      BY DEF Shades
    <3>2. /\ screen.y < MaxY /\ screen' = Echo("nl") /\ UNCHANGED Hidden
          /\ \E b : Note(b)
      BY <1>6, <2>2 DEF EnterKey
    <3>3. QED
      BY <1>1, <1>t, <3>1, <3>2, NotePage, EchoAhead
  <2>3. QED
    BY <2>1, <2>2
<1>7. CASE ClearKey
  <2>1. Low(Clearscreen(screen))
    BY <1>1, ClearscreenIs DEF Low
  <2>2. QED
    BY <1>1, <1>7, <1>t, <2>1, ClearscreenIs DEF ClearKey
<1>8. ASSUME NEW t \in Terms, SwitchTerminal(t) PROVE Keeping'
  <2> DEFINE u == cur_terminal
             here == [x |-> Kept(screen.x), y |-> Kept(screen.y)]
             none == [x |-> 0, y |-> 0]
             V == View
             w == Shown(t)
  <2>1. /\ t # u /\ u \in Terms
        /\ screen' = w
        /\ cursors' = [cursors EXCEPT ![t] = none, ![u] = here]
        /\ cur_terminal' = t /\ running' = running \cup {t}
        /\ left' = [left EXCEPT ![t] = <<>>, ![u] = V]
        /\ spilled' = spilled
    BY <1>1, <1>8 DEF SwitchTerminal, Shown
  <2>2. /\ cursors \in [Terms -> [x : Columns \cap Nat, y : 0 .. MaxY]]
    BY DEF Typed, TypeOK
  <2>3. V = [x |-> screen.x, y |-> screen.y,
             page |-> [i \in Visible |-> screen.mem[i]]]
    BY DEF View
  <2>4. /\ w.x = cursors[t].x /\ w.y = cursors[t].y
        /\ \A i \in Page : w.mem[PageOf(u) + i] = screen.mem[i]
        /\ \A v \in Terms \ {t, u} : \A i \in Page :
             w.mem[PageOf(v) + i] = screen.mem[PageOf(v) + i]
    BY <2>1, ShownIs
  <2>5. Low(cursors[t]) /\ Low(screen) /\ \A v \in Terms : Low(cursors[v])
    BY DEF Keeping
  <2> HIDE DEF V, w, u
  <2>6. \A v \in Terms : cursors'[v] = IF v = u THEN here ELSE
                                       IF v = t THEN none ELSE cursors[v]
    BY <2>1, <2>2
  <2>7. Low(screen')
    BY <2>1, <2>4, <2>5 DEF Low
  <2>8. \A v \in Terms : Low(cursors'[v])
    <3>1. screen.y \in 0 .. MaxY /\ screen.x \in Columns
      BY <1>1, FrameIs
    <3>2. /\ Kept(screen.y) = screen.y
          /\ screen.x = 0 => Kept(screen.x) = 0
      BY <3>1, KeptIs
    <3>3. Low(here) /\ Low(none)
      BY <2>5, <3>2, Sizes DEF Low
    <3>4. QED
      BY <2>5, <2>6, <3>3
  <2>9. Visited(t, running', cursors')
    BY <2>1, <2>6 DEF Visited, Keeping, u
  <2>10. ASSUME ~spilled, NEW v \in Terms \ {t}
         PROVE  Returned(KeptAs(w.mem, running', cursors', v), left'[v])
    <3>1. \A i \in Visible : i \in Page
      BY Pages
    <3>2. left'[v] = IF v = u THEN V ELSE left[v]
      BY <2>1 DEF Keeping
    <3>3. CASE v = u
      <4>1. v \in running'
        BY <2>1, <3>3 DEF Keeping, Visited, u
      <4>2. PageKept(w.mem, running', v) = [i \in Visible |-> screen.mem[i]]
        BY <2>4, <3>1, <3>3, <4>1 DEF PageKept
      <4>3. /\ cursors'[v].x = Kept(screen.x) /\ cursors'[v].y = screen.y
            /\ screen.x >= 0 => Kept(screen.x) = screen.x
        BY <1>1, <2>6, <3>3, FrameIs, KeptIs
      <4>4. Returned(KeptAs(w.mem, running', cursors', v), V)
        BY <2>3, <4>2, <4>3 DEF KeptAs, Returned
      <4>5. QED
        BY <3>2, <3>3, <4>4
    <3>4. CASE v # u
      <4>1. \A i \in Visible : w.mem[PageOf(v) + i] = screen.mem[PageOf(v) + i]
        BY <2>4, <3>1, <3>4
      <4>2. v \in running' <=> v \in running
        BY <2>1, <2>10
      <4>3. PageKept(w.mem, running', v) = PageKept(screen.mem, running, v)
        BY <4>1, <4>2 DEF PageKept
      <4>4. cursors'[v] = cursors[v]
        BY <2>6, <2>10, <3>4
      <4>5. KeptAs(w.mem, running', cursors', v)
              = KeptAs(screen.mem, running, cursors, v)
        BY <4>3, <4>4 DEF KeptAs
      <4>6. Returned(KeptAs(screen.mem, running, cursors, v), left[v])
        BY <2>10, <3>4 DEF Keeping, u
      <4>7. QED
        BY <3>2, <3>4, <4>5, <4>6
    <3>5. QED
      BY <3>3, <3>4
  <2>11. DOMAIN left' = Terms
    BY <2>1 DEF Keeping
  <2>12. QED
    BY <2>1, <2>7, <2>8, <2>9, <2>10, <2>11 DEF Keeping
<1>9. CASE Fault
  BY <1>1, <1>9, <1>a, <1>t DEF Fault
<1>10. CASE UNCHANGED vars
  BY <1>10 DEF vars, Keeping
<1>11. QED
  BY <1>2, <1>3, <1>4, <1>5, <1>6, <1>7, <1>8, <1>9, <1>10 DEF Next

\* A terminal that switch_terminal brings back shows what it showed when it was
\* left, and the position is where it was, unless the column was negative.
THEOREM ComesBack == Spec => Restored
<1>1. ASSUME Typed, Keeping, [Next]_vars
      PROVE  [\A t \in Terms : SwitchTerminal(t) /\ ~spilled => Returned(View', left[t])]_vars
  <2>1. ASSUME NEW t \in Terms, SwitchTerminal(t), ~spilled
        PROVE  Returned(View', left[t])
    <3>1. screen' = Shown(t) /\ t # cur_terminal
      BY <2>1 DEF SwitchTerminal, Shown
    <3>2. Returned(KeptAs(screen.mem, running, cursors, t), left[t])
      BY <1>1, <2>1, <3>1 DEF Keeping
    <3>3. /\ screen'.x = cursors[t].x /\ screen'.y = cursors[t].y
          /\ \A i \in Visible : screen'.mem[i] =
               IF t \in running \/ t = 0 THEN screen.mem[PageOf(t) + i]
               ELSE "blank"
      BY <1>1, <3>1, ShownIs
    <3>4. t = 0 => t \in running
      BY <1>1 DEF Keeping, Visited
    <3>5. [i \in Visible |-> screen'.mem[i]] = PageKept(screen.mem, running, t)
      BY <3>3, <3>4 DEF PageKept
    <3>6. View' = KeptAs(screen.mem, running, cursors, t)
      BY <3>3, <3>5 DEF View, KeptAs
    <3>7. QED
      BY <3>2, <3>6
  <2>2. QED
    BY <2>1
<1>2. QED
  BY <1>1, TypedInit, TypedStep, KeepingInit, KeepingStep, PTL
     DEF Spec, Restored

-----------------------------------------------------------------------------
(***************************************************************************)
(* What is shown while no row is filled.                                   *)
(***************************************************************************)
\* A page with nothing behind its cursor, which is on the screen or at the
\* start of the row below.
Tidy(x, y, p) ==
  /\ x \in 0 .. Cols - 1 /\ y \in 0 .. Rows
  /\ y = Rows => x = 0
  /\ \A i \in Visible : i >= Cols * y + x => p[i] = "blank"

\* The invariant: while no row has been filled and nothing erased that is not
\* there, nothing is shown behind the position of any terminal, and below the
\* screen no line has been begun.
Tidying ==
  mess = 0 =>
    /\ Tidy(screen.x, screen.y, screen.mem)
    /\ screen.y = Rows => Ind = 0
    /\ \A t \in Terms \ {cur_terminal} :
         /\ Tidy(cursors[t].x, cursors[t].y, PageKept(screen.mem, running, t))
         /\ cursors[t].y = Rows => inds[t] = 0

\* The same of the screen, and what it means for the cells.
TidyOn(s) == Tidy(s.x, s.y, s.mem)

LEMMA TidyIs ==
  ASSUME NEW s \in Frame, TidyOn(s)
  PROVE  /\ s.x \in Nat /\ s.x < Cols /\ s.y \in Nat /\ s.y <= Rows
         /\ Cell(s) = Cols * s.y + s.x /\ Cell(s) \in Nat
         /\ s.y = Rows => s.x = 0
         /\ s.y < Rows => Cell(s) \in Visible /\ Cell(s) < Cols * s.y + Cols
         /\ \A i \in Visible : i >= Cell(s) => s.mem[i] = "blank"
         /\ Low(s)
<1>1. s.x \in Nat /\ s.x < Cols /\ s.y \in Nat /\ s.y <= Rows
  BY Sizes DEF TidyOn, Tidy
<1>2. Cell(s) = Cols * s.y + s.x /\ Cols * s.y \in Nat
  BY <1>1, RowCells DEF Cell
<1>3. s.y < Rows => Cols * s.y + Cols <= Cols * Rows
  BY <1>1, RowCells, Sizes
<1>4. s.y < Rows => Cell(s) \in Visible /\ Cell(s) < Cols * s.y + Cols
  BY <1>1, <1>2, <1>3, Sizes DEF Visible
<1>5. \A i \in Visible : i >= Cell(s) => s.mem[i] = "blank"
  BY <1>2 DEF TidyOn, Tidy
<1>6. s.y = Rows => s.x = 0
  BY DEF TidyOn, Tidy
<1>7. Low(s)
  BY <1>1, <1>6, Sizes DEF Low
<1>8. Cell(s) \in Nat
  BY <1>1, <1>2
<1>9. QED
  BY <1>1, <1>2, <1>4, <1>5, <1>6, <1>7, <1>8

LEMMA TidyMade ==
  ASSUME NEW s \in Frame, s.x \in 0 .. Cols - 1, s.y \in 0 .. Rows,
         s.y = Rows => s.x = 0,
         \A i \in Visible : i >= Cols * s.y + s.x => s.mem[i] = "blank"
  PROVE  TidyOn(s)
BY DEF TidyOn, Tidy

\* A scroll leaves the last row empty.
LEMMA LastRowEmpty ==
  ASSUME NEW m \in [Memory -> Shades], NEW i \in Visible, i >= Cols * (Rows - 1)
  PROVE  ScrollRows(m)[i] = "blank"
<1>1. Rows - 1 \in Nat
  BY Sizes
<1>2. Cols * (Rows - 1) = Cols * Rows - Cols
  BY <1>1, RowCells
<1>3. i + Cols \notin Visible /\ i \in Memory
  BY <1>2, Pages, Sizes DEF Visible
<1>4. QED
  BY <1>3 DEF ScrollRows

\* What putc, Tab, Backspace and Enter do to a tidy screen.
LEMMA PutAtTidy ==
  ASSUME NEW s \in Frame, TidyOn(s)
  PROVE  /\ PutAt(s) \in Frame /\ TidyOn(PutAt(s))
         /\ PutAt(s).y \in 0 .. Rows - 1
         /\ s.y = Rows => PutAt(s).x = 0
<1>1. CASE s.y = Rows
  <2> DEFINE z == PutAt(s)
  <2>1. /\ z \in Frame /\ z.x = 0 /\ z.y = Rows - 1
        /\ \A j \in Memory : z.mem[j] = ScrollRows(s.mem)[j]
    BY <1>1, PutAtIs
  <2> HIDE DEF z
  <2>2. \A i \in Visible : i >= Cols * z.y + z.x => z.mem[i] = "blank"
    <3>1. Cols * z.y + z.x = Cols * (Rows - 1)
      BY <2>1, Sizes
    <3>2. \A i \in Visible : i \in Memory
      BY Pages
    <3>3. QED
      BY <2>1, <3>1, <3>2, FrameIs, LastRowEmpty
  <2>3. z.x \in 0 .. Cols - 1 /\ z.y \in 0 .. Rows /\ z.y # Rows /\ z.y \in 0 .. Rows - 1
    BY <2>1, Sizes
  <2>4. TidyOn(z)
    BY <2>1, <2>2, <2>3, TidyMade
  <2>5. QED
    BY <2>1, <2>3, <2>4 DEF z
<1>2. CASE s.y # Rows
  BY <1>2, PutAtIs, TidyIs, Sizes
<1>3. QED
  BY <1>1, <1>2

\* A character that does not fill its row.
LEMMA PutcTidy ==
  ASSUME NEW s \in Frame, TidyOn(s), s.y < Rows, s.x + 1 < Cols,
         NEW c \in Shades
  PROVE  /\ Newline(s, c) \in Frame /\ TidyOn(Newline(s, c))
         /\ Newline(s, c).x = s.x + 1 /\ Newline(s, c).y = s.y
         /\ \A j \in Memory :
              Newline(s, c).mem[j] = IF j = Cell(s) THEN c ELSE s.mem[j]
<1> DEFINE z == Newline(s, c)
<1>1. /\ s.x \in Nat /\ s.y \in Nat /\ Cell(s) = Cols * s.y + s.x
      /\ Cell(s) \in Visible /\ Cell(s) \in Nat
      /\ \A i \in Visible : i >= Cell(s) => s.mem[i] = "blank"
  BY TidyIs
<1>2. /\ z \in Frame /\ z.x = Rem(s.x + 1, Cols) /\ z.y = s.y % Rows
      /\ \A j \in Memory : z.mem[j] = IF j = Cell(s) THEN c ELSE s.mem[j]
  BY NewlineIs
<1> HIDE DEF z
<1>3. s.x + 1 \in 0 .. Cols - 1 /\ s.x + 1 \in Int
  BY <1>1, Sizes
<1>4. Rem(s.x + 1, Cols) = s.x + 1
  BY <1>3, RemIs, Sizes
<1>5. s.y \in 0 .. Rows - 1
  BY <1>1, Sizes
<1>6. s.y % Rows = s.y
  BY <1>5, ModSmall, Sizes
<1>7. \A i \in Visible : i >= Cols * s.y + (s.x + 1) => z.mem[i] = "blank"
  <2>1. Cols * s.y \in Nat
    BY <1>1, RowCells
  <2>2. \A i \in Visible : i \in Memory /\ i \in Int
    BY Pages
  <2>3. QED
    BY <1>1, <1>2, <2>1, <2>2
<1>8. z.x = s.x + 1 /\ z.y = s.y
  BY <1>2, <1>4, <1>6
<1>9. TidyOn(z)
  BY <1>2, <1>3, <1>5, <1>7, <1>8, TidyMade, Sizes
<1>10. QED
  BY <1>2, <1>8, <1>9 DEF z

LEMMA SpacesTidy ==
  ASSUME NEW s \in Frame, TidyOn(s), PutAt(s).x + TabWidth < Cols
  PROVE  /\ Spaces(s) \in Frame /\ TidyOn(Spaces(s))
         /\ Spaces(s).x = PutAt(s).x + TabWidth /\ Spaces(s).y = PutAt(s).y
         /\ \A j \in Memory : Spaces(s).mem[j] = PutAt(s).mem[j]
<1> DEFINE p == PutAt(s)
           Is(z, i) == /\ TidyOn(z) /\ z.x = p.x + i /\ z.y = p.y
                       /\ \A j \in Memory : z.mem[j] = p.mem[j]
           S == [i \in 0 .. TabWidth |->
                   IF i = 0 THEN {s} ELSE {z \in Frame : Is(z, i)}]
<1>1. /\ p \in Frame /\ TidyOn(p) /\ p.y \in 0 .. Rows - 1 /\ p.x \in Nat
      /\ p.x + TabWidth < Cols
  BY PutAtTidy, TidyIs
<1>2. "blank" \in Shades /\ "blank" # "nl"
  BY DEF Shades
<1>3. Putc(s, "blank") = Newline(p, "blank")
  BY <1>2, PutcIs
<1> HIDE DEF p
<1>4. ASSUME NEW z \in Frame, NEW i \in 0 .. TabWidth - 1, Is(z, i)
      PROVE  Newline(z, "blank") \in Frame /\ Is(Newline(z, "blank"), i + 1)
  <2> DEFINE w == Newline(z, "blank")
  <2>1. z.y < Rows /\ z.x + 1 < Cols
    BY <1>1, <1>4, Sizes
  <2>2. /\ w \in Frame /\ TidyOn(w) /\ w.x = z.x + 1 /\ w.y = z.y
        /\ \A j \in Memory : w.mem[j] = IF j = Cell(z) THEN "blank" ELSE z.mem[j]
    BY <1>2, <1>4, <2>1, PutcTidy
  <2>3. z.mem[Cell(z)] = "blank"
    BY <1>4, <2>1, TidyIs
  <2> HIDE DEF w
  <2>4. \A j \in Memory : w.mem[j] = p.mem[j]
    BY <1>4, <2>2, <2>3
  <2>5. w.x = p.x + (i + 1)
    BY <1>1, <1>4, <2>2, Sizes
  <2>6. QED
    BY <1>4, <2>2, <2>4, <2>5 DEF w
<1>5. Is(p, 0)
  BY <1>1
<1>6. ASSUME NEW i \in 1 .. TabWidth, NEW z \in S[i - 1], z \in Frame
      PROVE  Putc(z, "blank") \in S[i]
  <2>1. i - 1 \in 0 .. TabWidth - 1 /\ (i - 1) + 1 = i /\ i # 0
    BY Sizes
  <2>2. CASE i = 1
    <3>1. z = s
      BY <2>2, Sizes
    <3>2. Newline(p, "blank") \in Frame /\ Is(Newline(p, "blank"), 1)
      BY <1>1, <1>4, <1>5, <2>1, <2>2
    <3>3. QED
      BY <1>3, <2>1, <2>2, <3>1, <3>2
  <2>3. CASE i # 1
    <3>1. Is(z, i - 1)
      BY <2>1, <2>3, Sizes
    <3>2. z.y # Rows
      BY <1>1, <3>1, Sizes
    <3>3. Putc(z, "blank") = Newline(z, "blank")
      BY <1>2, <1>6, <3>2, PutcIs, PutAtIs
    <3>4. Newline(z, "blank") \in Frame /\ Is(Newline(z, "blank"), (i - 1) + 1)
      BY <1>4, <1>6, <2>1, <3>1
    <3>5. QED
      BY <2>1, <3>3, <3>4
  <2>4. QED
    BY <2>2, <2>3
<1>7. s \in S[0]
  BY Sizes
<1>8. S[TabWidth] = {z \in Frame : Is(z, TabWidth)}
  BY Sizes
<1> HIDE DEF S
<1>9. Spaces(s) \in {z \in Frame : Is(z, TabWidth)}
  BY <1>6, <1>7, <1>8, SpacesReach
<1>10. QED
  BY <1>9 DEF p

\* What erasing the last n characters of the row leaves.
ErasedBy(s, z, n) ==
  /\ z \in Frame /\ TidyOn(z)
  /\ z.x = s.x - n /\ z.y = s.y
  /\ \A j \in Memory : z.mem[j] = IF j \in Cell(s) - n .. Cell(s) - 1
                                THEN "blank" ELSE s.mem[j]

LEMMA BackspaceTidy ==
  ASSUME NEW s \in Frame, TidyOn(s), s.y < Rows, s.x > 0
  PROVE  ErasedBy(s, Backspace(s), 1)
<1> DEFINE z == Backspace(s)
<1>1. /\ s.x \in Nat /\ s.x < Cols /\ s.y \in Nat /\ Cell(s) = Cols * s.y + s.x
      /\ Cell(s) \in Nat
      /\ \A i \in Visible : i >= Cell(s) => s.mem[i] = "blank"
  BY TidyIs
<1>2. /\ z \in Frame /\ z.x = Rem(s.x - 1, Cols) /\ z.y = s.y % Rows
      /\ \A j \in Memory : z.mem[j] = IF j = Cell(s) - 1 THEN "blank" ELSE s.mem[j]
  BY <1>1, BackspaceIs
<1> HIDE DEF z
<1>3. s.x - 1 \in 0 .. Cols - 1 /\ s.x - 1 \in Int
  BY <1>1, Sizes
<1>4. Rem(s.x - 1, Cols) = s.x - 1
  BY <1>3, RemIs, Sizes
<1>5. s.y \in 0 .. Rows - 1
  BY <1>1, Sizes
<1>6. s.y % Rows = s.y
  BY <1>5, ModSmall, Sizes
<1>7. z.x = s.x - 1 /\ z.y = s.y
  BY <1>2, <1>4, <1>6
<1>8. \A i \in Visible : i >= Cols * z.y + z.x => z.mem[i] = "blank"
  <2>1. Cols * s.y \in Nat
    BY <1>1, RowCells
  <2>2. \A i \in Visible : i \in Memory /\ i \in Int
    BY Pages
  <2>3. QED
    BY <1>1, <1>2, <1>7, <2>1, <2>2
<1>9. TidyOn(z)
  BY <1>2, <1>3, <1>5, <1>7, <1>8, TidyMade, Sizes
<1>10. \A j \in Memory : j \in Cell(s) - 1 .. Cell(s) - 1 <=> j = Cell(s) - 1
  BY <1>1, Pages
<1>11. QED
  BY <1>2, <1>7, <1>9, <1>10 DEF z, ErasedBy

LEMMA BackspacesTidy ==
  ASSUME NEW s \in Frame, TidyOn(s), s.y < Rows, s.x >= TabWidth
  PROVE  ErasedBy(s, Backspaces(s), TabWidth)
<1> DEFINE S == [i \in 0 .. TabWidth |-> {z \in Frame : ErasedBy(s, z, i)}]
<1>1. s.x \in Nat /\ s.y \in Nat /\ Cell(s) = Cols * s.y + s.x /\ Cell(s) \in Nat
  BY TidyIs
<1>2. ErasedBy(s, s, 0)
  <2>1. \A j \in Memory : j \notin Cell(s) - 0 .. Cell(s) - 1
    BY <1>1, Pages
  <2>2. QED
    BY <1>1, <2>1 DEF ErasedBy
<1>3. ASSUME NEW z \in Frame, NEW i \in 0 .. TabWidth - 1, ErasedBy(s, z, i)
      PROVE  ErasedBy(s, Backspace(z), i + 1)
  <2> DEFINE w == Backspace(z)
  <2>1. TidyOn(z) /\ z.x = s.x - i /\ z.y = s.y
    BY <1>3 DEF ErasedBy
  <2>2. z.y < Rows /\ z.x > 0 /\ i \in Nat
    BY <1>1, <2>1, Sizes
  <2>3. ErasedBy(z, w, 1)
    BY <2>1, <2>2, BackspaceTidy
  <2>4. Cell(z) = Cell(s) - i
    <3>1. Cols * s.y \in Nat
      BY <1>1, RowCells
    <3>2. Cell(z) = Cols * s.y + (s.x - i)
      BY <2>1 DEF Cell
    <3>3. QED
      BY <1>1, <2>2, <3>1, <3>2
  <2>5. /\ w \in Frame /\ TidyOn(w) /\ w.x = z.x - 1 /\ w.y = z.y
        /\ \A j \in Memory :
             w.mem[j] = IF j \in Cell(z) - 1 .. Cell(z) - 1 THEN "blank" ELSE z.mem[j]
    BY <2>3 DEF ErasedBy
  <2>6. \A j \in Memory :
          z.mem[j] = IF j \in Cell(s) - i .. Cell(s) - 1 THEN "blank" ELSE s.mem[j]
    BY <1>3 DEF ErasedBy
  <2> HIDE DEF w
  <2>7. \A j \in Memory : j \in Cell(s) - (i + 1) .. Cell(s) - 1
          <=> j \in Cell(z) - 1 .. Cell(z) - 1 \/ j \in Cell(s) - i .. Cell(s) - 1
    BY <1>1, <2>2, <2>4, Pages
  <2>8. \A j \in Memory : w.mem[j] =
          IF j \in Cell(s) - (i + 1) .. Cell(s) - 1 THEN "blank" ELSE s.mem[j]
    BY <2>5, <2>6, <2>7
  <2>9. w.x = s.x - (i + 1)
    BY <1>1, <2>1, <2>2, <2>5
  <2>10. QED
    BY <2>1, <2>5, <2>8, <2>9 DEF ErasedBy, w
<1>4. s \in S[0]
  BY <1>2, Sizes
<1>5. ASSUME NEW i \in 1 .. TabWidth, NEW z \in S[i - 1], z \in Frame
      PROVE  Backspace(z) \in S[i]
  <2>1. i - 1 \in 0 .. TabWidth - 1 /\ i - 1 \in 0 .. TabWidth
        /\ (i - 1) + 1 = i /\ i \in 0 .. TabWidth
    BY Sizes
  <2>2. ErasedBy(s, z, i - 1)
    BY <1>5, <2>1
  <2>3. ErasedBy(s, Backspace(z), i)
    BY <1>3, <1>5, <2>1, <2>2
  <2>4. QED
    BY <1>5, <2>1, <2>3, BackspaceTyped
<1>6. S[TabWidth] = {z \in Frame : ErasedBy(s, z, TabWidth)}
  BY Sizes
<1> HIDE DEF S
<1>7. Backspaces(s) \in {z \in Frame : ErasedBy(s, z, TabWidth)}
  BY <1>4, <1>5, <1>6, BackspacesReach
<1>8. QED
  BY <1>7

LEMMA NewlineTidy ==
  ASSUME NEW s \in Frame, TidyOn(s), s.y < Rows
  PROVE  Putc(s, "nl") \in Frame /\ TidyOn(Putc(s, "nl"))
<1> DEFINE z == Putc(s, "nl")
<1>1. /\ s.x \in Nat /\ s.x < Cols /\ s.y \in Nat /\ Cell(s) = Cols * s.y + s.x
      /\ \A i \in Visible : i >= Cell(s) => s.mem[i] = "blank"
  BY TidyIs
<1>2. s.y < MaxY
  BY <1>1, Sizes
<1>3. z \in Frame /\ z.x = 0 /\ z.y = s.y + 1 /\ z.mem = s.mem
  BY <1>2, PutcNewline
<1> HIDE DEF z
<1>4. z.x \in 0 .. Cols - 1 /\ z.y \in 0 .. Rows
  BY <1>1, <1>3, Sizes
<1>5. \A i \in Visible : i >= Cols * z.y + z.x => z.mem[i] = "blank"
  <2>1. Cols * z.y = Cols * s.y + Cols /\ Cols * s.y \in Nat
    BY <1>1, <1>3, RowCells
  <2>2. \A i \in Visible : i \in Int
    BY DEF Visible
  <2>3. QED
    BY <1>1, <1>3, <2>1, <2>2, Sizes
<1>6. QED
  BY <1>3, <1>4, <1>5, TidyMade DEF z

LEMMA ScrollTidy ==
  ASSUME NEW s \in Frame, s.y = Rows - 1
  PROVE  TidyOn(Scrolldown(s))
<1> DEFINE z == Scrolldown(s)
<1>1. /\ z \in Frame /\ z.x = 0 /\ z.y = Rows - 1
      /\ \A j \in Memory : z.mem[j] = ScrollRows(s.mem)[j]
  BY ScrolldownIs
<1> HIDE DEF z
<1>2. \A i \in Visible : i >= Cols * z.y + z.x => z.mem[i] = "blank"
  <2>1. Cols * z.y + z.x = Cols * (Rows - 1)
    BY <1>1, Sizes
  <2>2. \A i \in Visible : i \in Memory
    BY Pages
  <2>3. QED
    BY <1>1, <2>1, <2>2, FrameIs, LastRowEmpty
<1>3. z.x \in 0 .. Cols - 1 /\ z.y \in 0 .. Rows /\ z.y # Rows
  BY <1>1, Sizes
<1>4. QED
  BY <1>1, <1>2, <1>3, TidyMade DEF z

LEMMA ClearTidy ==
  ASSUME NEW s \in Frame
  PROVE  TidyOn(Clearscreen(s))
<1>1. \A i \in Visible : Clearscreen(s).mem[i] = "blank"
  BY ClearscreenIs, Pages DEF Blank
<1>2. QED
  BY <1>1, ClearscreenIs, TidyMade, Sizes

\* When the text has not become a mess, it was not one before, and the call had
\* room for what it shows.
LEMMA NoteClean ==
  ASSUME Typed, NEW b, Note(b), mess' = 0
  PROVE  mess = 0 /\ ~b
<1>1. mess \in Nat
  BY Sizes DEF Typed, TypeOK
<1>2. mess' = IF mess > 0 \/ b THEN mess + 1 ELSE 0
  BY DEF Note
<1>3. ~ (mess > 0 \/ b)
  BY <1>1, <1>2
<1>4. QED
  BY <1>1, <1>3

\* Where a character goes that does not fill its row.
LEMMA RoomFor ==
  ASSUME Typed, TidyOn(screen), NEW n \in Nat, ~ Passes(n)
  PROVE  /\ PutAt(screen) \in Frame /\ TidyOn(PutAt(screen))
         /\ PutAt(screen).y < Rows /\ PutAt(screen).x + n < Cols
<1>1. screen \in Frame
  BY DEF Typed
<1>2. PutAt(screen) \in Frame /\ TidyOn(PutAt(screen)) /\ PutAt(screen).y < Rows
  BY <1>1, PutAtTidy, Sizes
<1>3. screen.x \in Nat /\ screen.y \in Nat /\ screen.y <= Rows
  BY <1>1, TidyIs
<1>4. CASE screen.y = Rows
  <2>1. PutAt(screen).x = 0
    BY <1>1, <1>4, PutAtIs
  <2>2. n < Cols
    BY <1>4, Sizes DEF Passes
  <2>3. QED
    BY <1>2, <2>1, <2>2
<1>5. CASE screen.y # Rows
  <2>1. PutAt(screen) = screen
    BY <1>1, <1>5, PutAtIs
  <2>2. ~ (screen.x + n >= Cols)
    BY <1>5 DEF Passes
  <2>3. screen.x + n < Cols
    BY <1>3, <2>2, Sizes
  <2>4. QED
    BY <1>2, <2>1, <2>3
<1>6. QED
  BY <1>4, <1>5

LEMMA EchoClean ==
  ASSUME Typed, TidyOn(screen), screen.y = Rows => Ind = 0, ~ Passes(1),
         NEW c \in Shades, c # "nl"
  PROVE  Echo(c) = Newline(PutAt(screen), c)
<1>1. screen \in Frame
  BY DEF Typed
<1>2. CASE Ind + 1 = Cols
  <2>1. screen.y # Rows
    BY <1>2, Sizes
  <2>2. PutAt(screen) = screen
    BY <1>1, <2>1, PutAtIs
  <2>3. QED
    BY <1>2, <2>2 DEF Echo
<1>3. CASE Ind + 1 # Cols
  BY <1>1, <1>3, PutcIs DEF Echo
<1>4. QED
  BY <1>2, <1>3

\* Tidying is inductive, given Typed and Keeping.
LEMMA TidyingInit == Init => Tidying
<1> SUFFICES ASSUME Init PROVE Tidying
  OBVIOUS
<1>1. /\ screen = [x |-> 0, y |-> 0, mem |-> [i \in Memory |-> "blank"]]
      /\ cursors = [t \in Terms |-> [x |-> 0, y |-> 0]]
      /\ cur_terminal = 0 /\ running = {0}
      /\ inds = [t \in Terms |-> 0]
  BY DEF Init
<1>2. Tidy(screen.x, screen.y, screen.mem)
  BY <1>1, Sizes, Pages DEF Tidy
<1>3. screen.y # Rows
  BY <1>1, Sizes
<1>4. \A t \in Terms \ {0} :
        /\ Tidy(cursors[t].x, cursors[t].y, PageKept(screen.mem, running, t))
        /\ inds[t] = 0
  BY <1>1, Sizes DEF Tidy, PageKept
<1>5. QED
  BY <1>1, <1>2, <1>3, <1>4 DEF Tidying

\* Each call and key leaves the shown terminal tidy, and a switch exchanges a
\* tidy terminal for another.
LEMMA TidyingStep == Typed /\ Keeping /\ Tidying /\ [Next]_vars => Tidying'
<1> SUFFICES ASSUME Typed, Keeping, Tidying, [Next]_vars PROVE Tidying'
  OBVIOUS
<1>1. /\ screen \in Frame /\ cur_terminal \in Terms
      /\ inds \in [Terms -> -1 .. BufLen]
  BY DEF Typed, TypeOK
<1>c. mess = 0 => /\ TidyOn(screen) /\ Low(screen) /\ screen.y <= Rows
                  /\ screen.y \in Nat /\ screen.x \in Nat
                  /\ screen.y = Rows => Ind = 0
  BY <1>1, TidyIs DEF Tidying, TidyOn
<1>t. ASSUME UNCHANGED Hidden,
             \A t \in Terms \ {cur_terminal} : inds'[t] = inds[t],
             mess' = 0 =>
               /\ mess = 0 /\ TidyOn(screen') /\ Ahead(screen.mem, screen'.mem)
               /\ screen'.y = Rows => inds'[cur_terminal] = 0
      PROVE  Tidying'
  <2>1. cur_terminal' = cur_terminal /\ cursors' = cursors /\ running' = running
    BY <1>t DEF Hidden
  <2>2. ASSUME mess' = 0, NEW t \in Terms \ {cur_terminal}
        PROVE  /\ Tidy(cursors[t].x, cursors[t].y, PageKept(screen'.mem, running, t))
               /\ cursors[t].y = Rows => inds'[t] = 0
    <3>1. PageKept(screen'.mem, running, t) = PageKept(screen.mem, running, t)
      BY <1>t, <2>2, KeptAhead
    <3>2. QED
      BY <1>t, <2>2, <3>1 DEF Tidying
  <2>3. QED
    BY <1>t, <2>1, <2>2 DEF Tidying, TidyOn, Ind
<1>a. Ahead(screen.mem, screen.mem)
  BY DEF Ahead
<1>i. ASSUME NEW i, SetInd(i)
      PROVE  /\ inds'[cur_terminal] = i
             /\ \A t \in Terms \ {cur_terminal} : inds'[t] = inds[t]
  BY <1>1, <1>i DEF SetInd
<1>u. ASSUME UNCHANGED Hidden, UNCHANGED <<screen, inds, mess, spilled>>
      PROVE  Tidying'
  BY <1>u DEF Tidying, Hidden, Ind
<1>2. ASSUME NEW c \in Glyphs \cup {"nl"}, Write(c) PROVE Tidying'
  <2>1. c \in Shades /\ (c = "nl" => screen.y < MaxY)
    BY <1>2 DEF Shades, Write
  <2>2. /\ screen' = Putc(screen, c) /\ SetInd(0) /\ UNCHANGED Hidden
        /\ Note(IF c = "nl" THEN screen.y >= Rows ELSE Passes(1))
    BY <1>2 DEF Write
  <2>3. ASSUME mess' = 0
        PROVE  mess = 0 /\ TidyOn(screen') /\ Ahead(screen.mem, screen'.mem)
    <3>1. mess = 0 /\ ~ (IF c = "nl" THEN screen.y >= Rows ELSE Passes(1))
      BY <2>2, <2>3, NoteClean
    <3>2. Ahead(screen.mem, screen'.mem)
      BY <1>1, <1>c, <2>1, <2>2, <3>1, PutcAhead
    <3>3. CASE c = "nl"
      <4>1. screen.y < Rows
        BY <1>c, <3>1, <3>3, Sizes
      <4>2. QED
        BY <1>1, <1>c, <2>2, <3>1, <3>2, <3>3, <4>1, NewlineTidy
    <3>4. CASE c # "nl"
      <4>1. Putc(screen, c) = Newline(PutAt(screen), c)
        BY <1>1, <2>1, <3>4, PutcIs
      <4>2. /\ PutAt(screen) \in Frame /\ TidyOn(PutAt(screen))
            /\ PutAt(screen).y < Rows /\ PutAt(screen).x + 1 < Cols
        BY <1>c, <3>1, <3>4, RoomFor
      <4>3. QED
        BY <2>1, <2>2, <3>1, <3>2, <4>1, <4>2, PutcTidy
    <3>5. QED
      BY <3>3, <3>4
  <2>4. QED
    BY <1>t, <1>i, <2>2, <2>3
<1>3. ASSUME NEW c \in Glyphs, CharKey(c) PROVE Tidying'
  <2>1. CASE Ind >= BufLen - 1
    BY <1>3, <1>u, <2>1 DEF CharKey
  <2>2. CASE ~ (Ind >= BufLen - 1)
    <3>1. c \in Shades /\ c # "nl"
      BY ConstantsAssumption DEF Shades
    <3>2. /\ screen' = Echo(c) /\ Note(Passes(1)) /\ SetInd(Ind + 1)
          /\ UNCHANGED Hidden
      BY <1>3, <2>2 DEF CharKey
    <3>3. ASSUME mess' = 0
          PROVE  /\ mess = 0 /\ TidyOn(screen') /\ screen'.y # Rows
                 /\ Ahead(screen.mem, screen'.mem)
      <4>1. mess = 0 /\ ~ Passes(1)
        BY <3>2, <3>3, NoteClean
      <4>2. Ahead(screen.mem, screen'.mem)
        BY <1>1, <1>c, <3>1, <3>2, <4>1, EchoAhead
      <4>3. Echo(c) = Newline(PutAt(screen), c)
        BY <1>c, <3>1, <4>1, EchoClean
      <4>4. /\ PutAt(screen) \in Frame /\ TidyOn(PutAt(screen))
            /\ PutAt(screen).y < Rows /\ PutAt(screen).x + 1 < Cols
        BY <1>c, <4>1, RoomFor
      <4>5. TidyOn(screen') /\ screen'.y = PutAt(screen).y
        BY <3>1, <3>2, <4>3, <4>4, PutcTidy
      <4>6. screen'.y # Rows
        BY <4>4, <4>5, Sizes, FrameIs
      <4>7. QED
        BY <4>1, <4>2, <4>5, <4>6
    <3>4. QED
      BY <1>t, <1>i, <3>2, <3>3
  <2>3. QED
    BY <2>1, <2>2
<1>4. CASE TabKey
  <2>1. /\ screen' = Spaces(screen) /\ Note(Passes(TabWidth)) /\ UNCHANGED Hidden
        /\ \A t \in Terms \ {cur_terminal} : inds'[t] = inds[t]
    BY <1>4, <1>i DEF TabKey
  <2>2. ASSUME mess' = 0
        PROVE  /\ mess = 0 /\ TidyOn(screen') /\ screen'.y # Rows
               /\ Ahead(screen.mem, screen'.mem)
    <3>1. mess = 0 /\ ~ Passes(TabWidth)
      BY <2>1, <2>2, NoteClean
    <3>2. Ahead(screen.mem, screen'.mem)
      BY <1>1, <1>c, <2>1, <3>1, SpacesAhead
    <3>3. TabWidth \in Nat
      BY Sizes
    <3>4. /\ PutAt(screen) \in Frame /\ PutAt(screen).y < Rows
          /\ PutAt(screen).x + TabWidth < Cols
      BY <1>c, <3>1, <3>3, RoomFor
    <3>5. TidyOn(screen') /\ screen'.y = PutAt(screen).y
      BY <1>1, <1>c, <2>1, <3>1, <3>4, SpacesTidy
    <3>6. screen'.y # Rows
      BY <3>4, <3>5, Sizes, FrameIs
    <3>7. QED
      BY <3>1, <3>2, <3>5, <3>6
  <2>3. QED
    BY <1>t, <2>1, <2>2
<1>5. CASE BackspaceKey
  <2>1. CASE UNCHANGED <<screen, inds, mess, spilled>>
    BY <1>5, <1>u, <2>1 DEF BackspaceKey
  <2>2. CASE \/ /\ screen' = Backspaces(screen) /\ SetInd(Ind - 1)
                /\ Note(Misses(TabWidth))
             \/ /\ screen' = Backspace(screen) /\ SetInd(Ind - 1)
                /\ Note(Misses(1))
    <3>1. /\ UNCHANGED Hidden
          /\ \A t \in Terms \ {cur_terminal} : inds'[t] = inds[t]
      BY <1>5, <1>i, <2>2 DEF BackspaceKey
    <3>2. ASSUME mess' = 0
          PROVE  /\ mess = 0 /\ TidyOn(screen') /\ screen'.y # Rows
                 /\ Ahead(screen.mem, screen'.mem)
      <4>1. mess = 0
        BY <2>2, <3>2, NoteClean
      <4>2. Ahead(screen.mem, screen'.mem)
        BY <1>1, <1>c, <2>2, <4>1, BackspaceAhead, BackspacesAhead
      <4>3. PICK n \in {1, TabWidth} :
              /\ ~ Misses(n)
              /\ \/ n = TabWidth /\ screen' = Backspaces(screen)
                 \/ n = 1 /\ screen' = Backspace(screen)
        BY <2>2, <3>2, NoteClean
      <4>4. screen.x >= n /\ screen.y < Rows /\ n \in Nat /\ n > 0
        BY <1>c, <4>1, <4>3, Sizes DEF Misses
      <4>5. ErasedBy(screen, screen', n)
        <5>1. CASE n = TabWidth /\ screen' = Backspaces(screen)
          BY <1>1, <1>c, <4>1, <4>4, <5>1, BackspacesTidy
        <5>2. CASE n = 1 /\ screen' = Backspace(screen)
          <6>1. screen.x > 0
            BY <1>c, <4>1, <4>4
          <6>2. QED
            BY <1>1, <1>c, <4>1, <4>4, <5>2, <6>1, BackspaceTidy
        <5>3. QED
          BY <4>3, <5>1, <5>2
      <4>6. TidyOn(screen') /\ screen'.y = screen.y
        BY <4>5 DEF ErasedBy
      <4>7. screen'.y # Rows
        BY <1>c, <4>1, <4>4, <4>6, Sizes
      <4>8. QED
        BY <4>1, <4>2, <4>6, <4>7
    <3>3. QED
      BY <1>t, <3>1, <3>2
  <2>3. QED
    BY <1>5, <2>1, <2>2 DEF BackspaceKey
<1>6. CASE EnterKey
  <2>1. CASE screen.y = Rows - 1
    <3>1. /\ screen' = Scrolldown(screen) /\ UNCHANGED <<Hidden, inds, mess>>
      BY <1>6, <2>1 DEF EnterKey
    <3>2. screen'.y = Rows - 1
      BY <1>1, <2>1, <3>1, ScrolldownIs
    <3>3. screen'.y # Rows
      BY <3>2, Sizes
    <3>4. TidyOn(screen') /\ Ahead(screen.mem, screen'.mem)
      BY <1>1, <2>1, <3>1, ScrollTidy, ScrolldownIs
    <3>5. UNCHANGED Hidden
      BY <3>1
    <3>6. QED
      BY <1>t, <3>1, <3>3, <3>4, <3>5
  <2>2. CASE screen.y # Rows - 1
    <3>1. "nl" \in Shades
      BY DEF Shades
    <3>2. /\ screen.y < MaxY /\ screen' = Echo("nl") /\ UNCHANGED Hidden
          /\ SetInd(0) /\ Note(screen.y >= Rows \/ Ind + 1 = Cols)
      BY <1>6, <2>2 DEF EnterKey
    <3>3. ASSUME mess' = 0
          PROVE  mess = 0 /\ TidyOn(screen') /\ Ahead(screen.mem, screen'.mem)
      <4>1. mess = 0 /\ ~ (screen.y >= Rows \/ Ind + 1 = Cols)
        BY <3>2, <3>3, NoteClean
      <4>2. Ahead(screen.mem, screen'.mem)
        BY <1>1, <1>c, <3>1, <3>2, <4>1, EchoAhead
      <4>3. screen' = Putc(screen, "nl")
        BY <3>2, <4>1 DEF Echo
      <4>4. screen.y < Rows
        BY <1>c, <4>1, Sizes
      <4>5. QED
        BY <1>1, <1>c, <4>1, <4>2, <4>3, <4>4, NewlineTidy
    <3>4. QED
      BY <1>t, <1>i, <3>2, <3>3
  <2>3. QED
    BY <2>1, <2>2
<1>7. CASE ClearKey
  <2>1. /\ screen' = Clearscreen(screen) /\ SetInd(0) /\ UNCHANGED Hidden
        /\ mess' = mess
    BY <1>7 DEF ClearKey
  <2>2. TidyOn(screen') /\ Ahead(screen.mem, screen'.mem)
    BY <1>1, <2>1, ClearTidy, ClearscreenIs
  <2>3. QED
    BY <1>t, <1>i, <2>1, <2>2
<1>8. ASSUME NEW t \in Terms, SwitchTerminal(t) PROVE Tidying'
  <2> DEFINE u == cur_terminal
             here == [x |-> Kept(screen.x), y |-> Kept(screen.y)]
             none == [x |-> 0, y |-> 0]
             w == Shown(t)
  <2>1. /\ t # u /\ u \in Terms /\ screen' = w
        /\ cursors' = [cursors EXCEPT ![t] = none, ![u] = here]
        /\ cur_terminal' = t /\ running' = running \cup {t}
        /\ inds' = inds /\ mess' = mess
    BY <1>1, <1>8 DEF SwitchTerminal, Shown
  <2>2. cursors \in [Terms -> [x : Columns \cap Nat, y : 0 .. MaxY]]
    BY DEF Typed, TypeOK
  <2>3. /\ w.x = cursors[t].x /\ w.y = cursors[t].y
        /\ \A i \in Visible : w.mem[i] =
             IF t \in running \/ t = 0 THEN screen.mem[PageOf(t) + i] ELSE "blank"
        /\ \A i \in Page : w.mem[PageOf(u) + i] = screen.mem[i]
        /\ \A v \in Terms \ {t, u} : \A i \in Page :
             w.mem[PageOf(v) + i] = screen.mem[PageOf(v) + i]
    BY <2>1, ShownIs
  <2>4. t = 0 => t \in running
    BY DEF Keeping, Visited
  <2>5. \A i \in Visible : w.mem[i] = PageKept(screen.mem, running, t)[i]
    BY <2>3, <2>4 DEF PageKept
  <2>6. u \in running
    BY DEF Keeping, Visited
  <2>7. mess = 0 =>
          /\ Tidy(screen.x, screen.y, screen.mem)
          /\ screen.y = Rows => inds[u] = 0
          /\ \A v \in Terms \ {u} :
               /\ Tidy(cursors[v].x, cursors[v].y, PageKept(screen.mem, running, v))
               /\ cursors[v].y = Rows => inds[v] = 0
    BY DEF Tidying, Ind
  <2> HIDE DEF w, u
  <2>8. \A v \in Terms : cursors'[v] = IF v = u THEN here ELSE
                                       IF v = t THEN none ELSE cursors[v]
    BY <2>1, <2>2
  <2>9. mess = 0 => Tidy(w.x, w.y, w.mem) /\ (w.y = Rows => inds[t] = 0)
    BY <2>1, <2>3, <2>5, <2>7 DEF Tidy
  <2>10. ASSUME mess = 0, NEW v \in Terms \ {t}
         PROVE  /\ Tidy(cursors'[v].x, cursors'[v].y, PageKept(w.mem, running', v))
                /\ cursors'[v].y = Rows => inds[v] = 0
    <3>1. \A i \in Visible : i \in Page
      BY Pages
    <3>2. CASE v = u
      <4>1. cursors'[v].x = screen.x /\ cursors'[v].y = screen.y
        BY <1>1, <1>c, <2>8, <2>10, <3>2, FrameIs, KeptIs
      <4>2. \A i \in Visible : PageKept(w.mem, running', v)[i] = screen.mem[i]
        BY <2>1, <2>3, <2>6, <3>1, <3>2 DEF PageKept
      <4>3. QED
        BY <2>7, <2>10, <3>2, <4>1, <4>2 DEF Tidy
    <3>3. CASE v # u
      <4>1. cursors'[v] = cursors[v]
        BY <2>8, <2>10, <3>3
      <4>2. v \in running' <=> v \in running
        BY <2>1, <2>10
      <4>3. PageKept(w.mem, running', v) = PageKept(screen.mem, running, v)
        BY <2>3, <2>10, <3>1, <3>3, <4>2 DEF PageKept
      <4>4. QED
        BY <2>7, <2>10, <3>3, <4>1, <4>3
    <3>4. QED
      BY <3>2, <3>3
  <2>11. QED
    BY <2>1, <2>9, <2>10 DEF Tidying, Ind
<1>9. CASE Fault \/ UNCHANGED vars
  <2>1. /\ screen' = screen /\ UNCHANGED Hidden /\ inds' = inds /\ mess' = mess
    BY <1>9 DEF Fault, vars, Hidden
  <2>2. QED
    BY <2>1 DEF Tidying, Ind, Hidden
<1>10. QED
  BY <1>2, <1>3, <1>4, <1>5, <1>6, <1>7, <1>8, <1>9 DEF Next

\* Until text passes the end of a row, the position of lib.c is on the screen
\* or at the start of the row below, and nothing is shown behind it.
THEOREM StaysClean == Spec => []Clean
<1>1. ASSUME Typed, Tidying
      PROVE  Clean
  <2>1. screen \in Frame
    BY <1>1 DEF Typed
  <2>2. ASSUME mess = 0
        PROVE  TidyOn(screen)
    BY <1>1, <2>2 DEF Tidying, TidyOn
  <2>3. mess = 0 =>
          /\ screen.x \in 0 .. Cols - 1 /\ screen.y \in 0 .. Rows
          /\ screen.y = Rows => screen.x = 0
          /\ \A i \in Visible : i >= Cell(screen) => screen.mem[i] = "blank"
    BY <2>2 DEF TidyOn, Tidy, Cell
  <2>4. QED
    BY <2>3 DEF Clean
<1>2. QED
  BY <1>1, TypedInit, TypedStep, KeepingInit, KeepingStep, TidyingInit,
     TidyingStep, PTL DEF Spec

-----------------------------------------------------------------------------
(***************************************************************************)
(* The text of a page, and what typing does to it.                         *)
(***************************************************************************)
\* The first n cells of row r.
Row(p, r, n) == [i \in 1 .. n |-> p[Cols * r + i - 1]]
\* The rows above the cursor, and the text of a page.
Above(y) == IF y < Rows THEN y ELSE Rows
TextOf(x, y, p) ==
  [r \in 1 .. Above(y) + 1 |->
     IF r <= Above(y) THEN Trim(Row(p, r - 1, Cols))
     ELSE IF y < Rows THEN Row(p, y, x) ELSE <<>>]

\* Rows as sequences.
LEMMA SeqMade ==
  ASSUME NEW S, NEW n \in Nat, NEW f \in [1 .. n -> S]
  PROVE  f \in Seq(S) /\ Len(f) = n
OBVIOUS

LEMMA RowIs ==
  ASSUME NEW p, \A i \in Visible : p[i] \in Shades,
         NEW r \in 0 .. Rows - 1, NEW n \in 0 .. Cols
  PROVE  /\ Row(p, r, n) \in Seq(Shades) /\ Len(Row(p, r, n)) = n
         /\ Row(p, r, n) \in [1 .. n -> Shades]
         /\ \A i \in 1 .. n : Row(p, r, n)[i] = p[Cols * r + i - 1]
         /\ \A i \in 1 .. n : Cols * r + i - 1 \in Visible
<1>1. n \in Nat /\ r \in Nat /\ n <= Cols
  BY Sizes
<1>2. Cols * r \in Nat /\ Cols * r + Cols <= Cols * Rows
  BY <1>1, RowCells, Sizes
<1>3. \A i \in 1 .. n : Cols * r + i - 1 \in Visible
  BY <1>1, <1>2, Sizes DEF Visible
<1>4. Row(p, r, n) \in [1 .. n -> Shades]
  BY <1>3 DEF Row
<1>5. \A i \in 1 .. n : Row(p, r, n)[i] = p[Cols * r + i - 1]
  BY DEF Row
<1>6. QED
  BY <1>1, <1>3, <1>4, <1>5, SeqMade

\* Rows that agree cell by cell.
LEMMA RowSame ==
  ASSUME NEW p, NEW q, NEW r \in 0 .. Rows - 1, NEW n \in 0 .. Cols,
         \A i \in Visible :
           i >= Cols * r /\ i < Cols * r + n => q[i] = p[i]
  PROVE  Row(q, r, n) = Row(p, r, n)
<1>1. n \in Nat /\ r \in Nat /\ n <= Cols
  BY Sizes
<1>2. Cols * r \in Nat /\ Cols * r + Cols <= Cols * Rows
  BY <1>1, RowCells, Sizes
<1>3. \A i \in 1 .. n : /\ Cols * r + i - 1 \in Visible
                       /\ Cols * r + i - 1 >= Cols * r
                       /\ Cols * r + i - 1 < Cols * r + n
  BY <1>1, <1>2, Sizes DEF Visible
<1>4. QED
  BY <1>3 DEF Row

\* How much of a line Trim keeps.
TrimAt(l) == {n \in 0 .. Len(l) : /\ n = 0 \/ n \in Nonblank(l)
                                  /\ \A i \in Nonblank(l) : i <= n}

\* Trim keeps all of a line up to its last character.
LEMMA TrimAtIs ==
  ASSUME NEW l \in Seq(Shades)
  PROVE  /\ TrimAt(l) # {}
         /\ \A n, k \in TrimAt(l) : n = k
<1>1. Len(l) \in Nat
  BY LenProperties
<1>2. Nonblank(l) \subseteq 1 .. Len(l)
  BY DEF Nonblank
<1>3. TrimAt(l) # {}
  <2> DEFINE T == {n \in 0 .. Len(l) : \A i \in Nonblank(l) : i <= n}
  <2>1. T \subseteq Nat /\ Len(l) \in T
    BY <1>1, <1>2
  <2>2. PICK n \in T : \A k \in T : n <= k
    BY <2>1, LeastNumber
  <2>3. n = 0 \/ n \in Nonblank(l)
    <3> SUFFICES ASSUME n # 0, n \notin Nonblank(l) PROVE FALSE
      OBVIOUS
    <3>1. n - 1 \in 0 .. Len(l)
      BY <1>1
    <3>2. \A i \in Nonblank(l) : i <= n - 1
      BY <1>1, <1>2
    <3>3. n - 1 \in T
      BY <3>1, <3>2
    <3>4. QED
      BY <1>1, <2>2, <3>3
  <2>4. n \in TrimAt(l)
    BY <2>3 DEF TrimAt
  <2>5. QED
    BY <2>4
<1>4. ASSUME NEW n \in TrimAt(l), NEW k \in TrimAt(l) PROVE n = k
  <2>1. n \in Nat /\ k \in Nat
    BY <1>1 DEF TrimAt
  <2>2. /\ n = 0 \/ n <= k
        /\ k = 0 \/ k <= n
    BY DEF TrimAt
  <2>3. QED
    BY <2>1, <2>2
<1>5. QED
  BY <1>3, <1>4

LEMMA TrimIs ==
  ASSUME NEW l \in Seq(Shades)
  PROVE  /\ \E n \in TrimAt(l) : Trim(l) = SubSeq(l, 1, n)
         /\ Trim(l) \in Seq(Shades)
<1> DEFINE P(n) == /\ n = 0 \/ n \in Nonblank(l)
                   /\ \A i \in Nonblank(l) : i <= n
           m == CHOOSE n \in 0 .. Len(l) : P(n)
<1>1. \E n \in 0 .. Len(l) : P(n)
  BY TrimAtIs DEF TrimAt
<1>2. m \in 0 .. Len(l) /\ P(m)
  BY <1>1
<1>3. m \in TrimAt(l)
  BY <1>2 DEF TrimAt
<1>4. Trim(l) = SubSeq(l, 1, m)
  BY DEF Trim
<1> HIDE DEF m
<1>5. \A i \in 1 .. m : l[i] \in Shades
  BY <1>2, LenProperties, ElementOfSeq
<1>6. 1 \in Int /\ m \in Int
  BY <1>2, LenProperties
<1>7. SubSeq(l, 1, m) \in Seq(Shades)
  BY <1>5, <1>6, SubSeqProperties
<1>8. QED
  BY <1>3, <1>4, <1>7

\* Blanks at the end of a line make no difference.
LEMMA TrimBlanks ==
  ASSUME NEW l \in Seq(Shades), NEW k \in Seq(Shades), Len(l) <= Len(k),
         \A i \in 1 .. Len(l) : k[i] = l[i],
         \A i \in 1 .. Len(k) : i > Len(l) => k[i] = "blank"
  PROVE  Trim(k) = Trim(l)
<1>1. Len(l) \in Nat /\ Len(k) \in Nat
  BY LenProperties
<1>2. Nonblank(k) = Nonblank(l)
  BY <1>1 DEF Nonblank
<1>3. TrimAt(k) = TrimAt(l)
  BY <1>1, <1>2 DEF TrimAt, Nonblank
<1>4. PICK n \in TrimAt(l) : Trim(l) = SubSeq(l, 1, n)
  BY TrimIs
<1>5. PICK h \in TrimAt(k) : Trim(k) = SubSeq(k, 1, h)
  BY TrimIs
<1>6. h = n /\ n \in 0 .. Len(l)
  BY <1>3, <1>4, <1>5, TrimAtIs DEF TrimAt
<1>7. SubSeq(k, 1, n) = SubSeq(l, 1, n)
  <2>1. 1 \in Int /\ n \in Int
    BY <1>1, <1>6
  <2>2. \A i \in 1 .. n : l[i] \in Shades /\ k[i] = l[i]
    BY <1>1, <1>6, ElementOfSeq
  <2>3. \A i \in 1 .. n : k[i] \in Shades
    BY <2>2
  <2>4. \A i \in 1 .. n - 1 + 1 : i \in 1 .. n /\ 1 + i - 1 = i
    BY <2>1
  <2>5. /\ SubSeq(l, 1, n) \in Seq(Shades)
        /\ Len(SubSeq(l, 1, n)) = IF 1 <= n THEN n - 1 + 1 ELSE 0
        /\ \A i \in 1 .. n - 1 + 1 : SubSeq(l, 1, n)[i] = l[1 + i - 1]
    BY <2>1, <2>2, SubSeqProperties
  <2>6. /\ SubSeq(k, 1, n) \in Seq(Shades)
        /\ Len(SubSeq(k, 1, n)) = IF 1 <= n THEN n - 1 + 1 ELSE 0
        /\ \A i \in 1 .. n - 1 + 1 : SubSeq(k, 1, n)[i] = k[1 + i - 1]
    BY <2>1, <2>3, SubSeqProperties
  <2>7. Len(SubSeq(k, 1, n)) = n
    BY <1>1, <1>6, <2>6
  <2>8. \A i \in 1 .. n : SubSeq(k, 1, n)[i] = SubSeq(l, 1, n)[i]
    BY <2>1, <2>2, <2>4, <2>5, <2>6
  <2>9. Len(SubSeq(l, 1, n)) = n
    BY <1>1, <1>6, <2>5
  <2>10. QED
    BY <2>5, <2>6, <2>7, <2>8, <2>9, SeqEqual
<1>8. QED
  BY <1>4, <1>5, <1>6, <1>7

\* The text line by line.
LEMMA AboveIs ==
  ASSUME NEW y \in 0 .. Rows
  PROVE  /\ Above(y) \in Nat /\ Above(y) <= Rows /\ y \in Nat
         /\ Above(y) + 1 \in Nat
         /\ y < Rows => Above(y) = y
         /\ y = Rows => Above(y) = Rows /\ ~ (y < Rows)
         /\ \A r \in 1 .. Above(y) : r - 1 \in 0 .. Rows - 1
BY Sizes DEF Above

LEMMA TextIs ==
  ASSUME NEW x \in 0 .. Cols - 1, NEW y \in 0 .. Rows, NEW p,
         \A i \in Visible : p[i] \in Shades
  PROVE  /\ TextOf(x, y, p) \in Seq(Seq(Shades))
         /\ Len(TextOf(x, y, p)) = Above(y) + 1
         /\ TextOf(x, y, p) # <<>>
         /\ \A r \in 1 .. Above(y) :
              TextOf(x, y, p)[r] = Trim(Row(p, r - 1, Cols))
         /\ y < Rows => TextOf(x, y, p)[y + 1] = Row(p, y, x)
         /\ y = Rows => TextOf(x, y, p)[Rows + 1] = <<>>
<1> DEFINE T == TextOf(x, y, p)
           a == Above(y)
<1>1. /\ a \in Nat /\ y \in Nat /\ a + 1 \in Nat
      /\ y < Rows => a = y
      /\ y = Rows => a = Rows /\ ~ (y < Rows)
      /\ \A r \in 1 .. a : r - 1 \in 0 .. Rows - 1
      /\ y < Rows \/ y = Rows
  BY AboveIs, Sizes
<1>2. T = [r \in 1 .. a + 1 |->
             IF r <= a THEN Trim(Row(p, r - 1, Cols))
             ELSE IF y < Rows THEN Row(p, y, x) ELSE <<>>]
  BY DEF TextOf
<1> HIDE DEF T, a
<1>3. \A r \in 1 .. a : T[r] = Trim(Row(p, r - 1, Cols))
  BY <1>1, <1>2
<1>4. T[a + 1] = IF y < Rows THEN Row(p, y, x) ELSE <<>>
  BY <1>1, <1>2
<1>5. Cols \in 0 .. Cols /\ x \in 0 .. Cols
  BY Sizes
<1>6. \A r \in 1 .. a : Trim(Row(p, r - 1, Cols)) \in Seq(Shades)
  BY <1>1, <1>5, RowIs, TrimIs
<1>7. y < Rows => Row(p, y, x) \in Seq(Shades)
  <2>1. y < Rows => y \in 0 .. Rows - 1
    BY Sizes
  <2>2. QED
    BY <1>5, <2>1, RowIs
<1>8. <<>> \in Seq(Shades)
  BY EmptySeq
<1>9. \A r \in 1 .. a + 1 : T[r] \in Seq(Shades)
  <2>1. \A r \in 1 .. a : T[r] \in Seq(Shades)
    BY <1>3, <1>6
  <2>2. T[a + 1] \in Seq(Shades)
    BY <1>4, <1>7, <1>8
  <2>3. \A r \in 1 .. a + 1 : r \in 1 .. a \/ r = a + 1
    BY <1>1
  <2>4. QED
    BY <2>1, <2>2, <2>3
<1>10. T \in [1 .. a + 1 -> Seq(Shades)]
  BY <1>2, <1>9
<1>11. T \in Seq(Seq(Shades)) /\ Len(T) = a + 1
  BY <1>1, <1>10, SeqMade
<1>12. T # <<>>
  BY <1>1, <1>11, EmptySeq
<1>13. QED
  BY <1>1, <1>3, <1>4, <1>11, <1>12 DEF T, a

\* Only the cells on the screen count.
LEMMA TextSame ==
  ASSUME NEW x \in 0 .. Cols - 1, NEW y \in 0 .. Rows, NEW p, NEW q,
         \A i \in Visible : q[i] = p[i]
  PROVE  TextOf(x, y, q) = TextOf(x, y, p)
<1>1. /\ \A r \in 1 .. Above(y) : r - 1 \in 0 .. Rows - 1
      /\ Cols \in 0 .. Cols /\ x \in 0 .. Cols
      /\ y < Rows => y \in 0 .. Rows - 1
  BY AboveIs, Sizes
<1>2. \A r \in 0 .. Rows - 1 : \A n \in 0 .. Cols :
        Row(q, r, n) = Row(p, r, n)
  BY RowSame
<1>3. \A r \in 1 .. Above(y) + 1 : r <= Above(y) => r \in 1 .. Above(y)
  BY AboveIs
<1>4. \A r \in 1 .. Above(y) + 1 :
        (IF r <= Above(y) THEN Trim(Row(q, r - 1, Cols))
         ELSE IF y < Rows THEN Row(q, y, x) ELSE <<>>)
        = (IF r <= Above(y) THEN Trim(Row(p, r - 1, Cols))
           ELSE IF y < Rows THEN Row(p, y, x) ELSE <<>>)
  BY <1>1, <1>2, <1>3
<1>5. QED
  BY <1>4 DEF TextOf

\* The text of the screen.
TextOn(s) == TextOf(s.x, s.y, s.mem)

\* The text of the screen.
LEMMA TextOnIs ==
  ASSUME NEW s \in Frame, TidyOn(s)
  PROVE  /\ TextOn(s) \in Seq(Seq(Shades))
         /\ Len(TextOn(s)) = Above(s.y) + 1
         /\ TextOn(s) # <<>>
         /\ \A r \in 1 .. Above(s.y) :
              TextOn(s)[r] = Trim(Row(s.mem, r - 1, Cols))
         /\ s.y < Rows => TextOn(s)[s.y + 1] = Row(s.mem, s.y, s.x)
         /\ s.y = Rows => TextOn(s)[Rows + 1] = <<>>
<1>1. s.x \in 0 .. Cols - 1 /\ s.y \in 0 .. Rows
  BY DEF TidyOn, Tidy
<1>2. \A i \in Visible : s.mem[i] \in Shades
  BY FrameIs, Pages
<1>3. QED
  BY <1>1, <1>2, TextIs DEF TextOn

\* A page whose last line alone has changed.
LEMMA LastLine ==
  ASSUME NEW s \in Frame, TidyOn(s), s.y < Rows,
         NEW z \in Frame, TidyOn(z), z.y = s.y,
         \A j \in Visible : j < Cols * s.y => z.mem[j] = s.mem[j]
  PROVE  /\ Len(TextOn(s)) = s.y + 1 /\ s.y + 1 \in 1 .. Len(TextOn(s))
         /\ TextOn(s)[s.y + 1] = Row(s.mem, s.y, s.x)
         /\ TextOn(z) = [TextOn(s) EXCEPT ![s.y + 1] = Row(z.mem, s.y, z.x)]
<1> DEFINE L == TextOn(s)
           M == TextOn(z)
           n == s.y + 1
           l == Row(z.mem, s.y, z.x)
           E == [L EXCEPT ![n] = l]
<1>1. s.y \in 0 .. Rows /\ s.y \in Nat /\ s.y \in 0 .. Rows - 1 /\ z.x \in 0 .. Cols
  BY TidyIs, Sizes
<1>2. Above(s.y) = s.y
  BY <1>1, AboveIs
<1>3. /\ L \in Seq(Seq(Shades)) /\ Len(L) = s.y + 1
      /\ \A r \in 1 .. s.y : L[r] = Trim(Row(s.mem, r - 1, Cols))
      /\ L[s.y + 1] = Row(s.mem, s.y, s.x)
  BY <1>2, TextOnIs
<1>4. /\ M \in Seq(Seq(Shades)) /\ Len(M) = s.y + 1
      /\ \A r \in 1 .. s.y : M[r] = Trim(Row(z.mem, r - 1, Cols))
      /\ M[s.y + 1] = l
  BY <1>2, TextOnIs
<1>5. \A r \in 1 .. s.y : Row(z.mem, r - 1, Cols) = Row(s.mem, r - 1, Cols)
  <2> SUFFICES ASSUME NEW r \in 1 .. s.y
               PROVE  Row(z.mem, r - 1, Cols) = Row(s.mem, r - 1, Cols)
    OBVIOUS
  <2>1. r - 1 \in 0 .. Rows - 1 /\ r - 1 \in Nat /\ r - 1 <= s.y - 1 /\ Cols \in 0 .. Cols
    BY <1>1, Sizes
  <2>2. Cols * (r - 1) + Cols <= Cols * s.y
    <3>1. Cols * (r - 1) + Cols = Cols * r /\ r \in Nat
      BY <2>1, RowCells
    <3>2. Cols * r <= Cols * s.y
      BY <1>1, Sizes
    <3>3. QED
      BY <3>1, <3>2
  <2>3. \A i \in Visible : i < Cols * (r - 1) + Cols => z.mem[i] = s.mem[i]
    <3>1. Cols * (r - 1) \in Nat /\ Cols * s.y \in Nat
      BY <1>1, <2>1, RowCells
    <3>2. QED
      BY <2>2, <3>1, Sizes DEF Visible
  <2>4. QED
    BY <2>1, <2>3, RowSame
<1>6. l \in Seq(Shades)
  BY <1>1, FrameIs, Pages, RowIs
<1>7. n \in 1 .. Len(L)
  BY <1>1, <1>3
<1> HIDE DEF L, M, l, n
<1>8. /\ E \in Seq(Seq(Shades)) /\ Len(E) = Len(L)
      /\ \A j \in 1 .. Len(L) : E[j] = IF j = n THEN l ELSE L[j]
  BY <1>3, <1>6, <1>7, ExceptSeq
<1> HIDE DEF E
<1>9. \A j \in 1 .. Len(M) : M[j] = E[j]
  <2>1. \A j \in 1 .. s.y : M[j] = L[j]
    BY <1>3, <1>4, <1>5
  <2>2. \A j \in 1 .. Len(M) : (j \in 1 .. s.y /\ j # n) \/ j = n
    BY <1>1, <1>4 DEF n
  <2>3. M[n] = l
    BY <1>4 DEF n
  <2>4. QED
    BY <1>3, <1>4, <1>8, <2>1, <2>2, <2>3
<1>10. M = E
  BY <1>3, <1>4, <1>8, <1>9, SeqEqual
<1>11. QED
  BY <1>3, <1>7, <1>10 DEF E, L, M, l, n

\* Characters at the end of the last line.
LEMMA AddedText ==
  ASSUME NEW s \in Frame, TidyOn(s), s.y < Rows,
         NEW z \in Frame, TidyOn(z), z.y = s.y,
         NEW k \in Seq(Shades), z.x = s.x + Len(k),
         \A j \in Visible : j < Cell(s) => z.mem[j] = s.mem[j],
         \A i \in 1 .. Len(k) : z.mem[Cell(s) + i - 1] = k[i]
  PROVE  TextOn(z) = Promise!With(TextOn(s), k)
<1> DEFINE l == Row(s.mem, s.y, s.x)
           q == Row(z.mem, s.y, z.x)
           c == Cols * s.y
<1>1. /\ s.y \in Nat /\ s.y \in 0 .. Rows - 1 /\ s.x \in Nat /\ c \in Nat
      /\ Cell(s) = c + s.x /\ z.x \in 0 .. Cols /\ s.x \in 0 .. Cols
      /\ Len(k) \in Nat
  <2>1. Len(k) \in Nat
    BY LenProperties
  <2>2. /\ s.y \in Nat /\ s.x \in Nat /\ s.x < Cols /\ z.x \in Nat /\ z.x < Cols
        /\ Cell(s) = Cols * s.y + s.x
    BY TidyIs
  <2>3. c \in Nat
    BY <2>2, RowCells
  <2>4. s.y \in 0 .. Rows - 1
    BY <2>2, Sizes
  <2>5. z.x \in 0 .. Cols /\ s.x \in 0 .. Cols
    BY <2>2, Sizes
  <2>6. QED
    BY <2>1, <2>2, <2>3, <2>4, <2>5
<1>2. /\ l \in Seq(Shades) /\ Len(l) = s.x
      /\ \A i \in 1 .. s.x : l[i] = s.mem[c + i - 1] /\ c + i - 1 \in Visible
  BY <1>1, FrameIs, Pages, RowIs
<1>3. /\ q \in Seq(Shades) /\ Len(q) = z.x
      /\ \A i \in 1 .. z.x : q[i] = z.mem[c + i - 1]
  <2>1. \A i \in Visible : z.mem[i] \in Shades
    BY FrameIs, Pages
  <2>2. QED
    BY ONLY <1>1, <2>1, RowIs
<1>4. \A j \in Visible : j < c => z.mem[j] = s.mem[j]
  BY <1>1 DEF Visible
<1>5. /\ Len(TextOn(s)) = s.y + 1 /\ TextOn(s)[s.y + 1] = l
      /\ TextOn(z) = [TextOn(s) EXCEPT ![s.y + 1] = q]
  BY <1>4, LastLine
<1> HIDE DEF l, q, c
<1>6. /\ l \o k \in Seq(Shades) /\ Len(l \o k) = Len(l) + Len(k)
      /\ \A i \in 1 .. Len(l) + Len(k) : (l \o k)[i] =
           IF i <= Len(l) THEN l[i] ELSE k[i - Len(l)]
  BY <1>2, ConcatProperties
<1>7. \A i \in 1 .. Len(q) : q[i] = (l \o k)[i]
  <2> SUFFICES ASSUME NEW i \in 1 .. Len(q) PROVE q[i] = (l \o k)[i]
    OBVIOUS
  <2>1. i \in 1 .. z.x /\ i \in 1 .. Len(l) + Len(k)
    BY <1>1, <1>2, <1>3
  <2>2. CASE i <= s.x
    <3>1. i \in 1 .. s.x /\ c + i - 1 < Cell(s)
      BY <1>1, <2>1, <2>2
    <3>2. q[i] = s.mem[c + i - 1]
      BY <1>2, <1>3, <2>1, <3>1
    <3>3. QED
      BY <1>2, <1>6, <2>1, <2>2, <3>1, <3>2
  <2>3. CASE ~ (i <= s.x)
    <3>1. i - s.x \in 1 .. Len(k) /\ Cell(s) + (i - s.x) - 1 = c + i - 1
      BY <1>1, <2>1, <2>3
    <3>2. z.mem[Cell(s) + (i - s.x) - 1] = k[i - s.x]
      BY <3>1
    <3>3. QED
      BY <1>2, <1>3, <1>6, <2>1, <2>3, <3>1, <3>2
  <2>4. QED
    BY <2>2, <2>3
<1>8. Len(q) = Len(l \o k)
  BY <1>1, <1>2, <1>3, <1>6
<1>9. q = l \o k
  BY <1>3, <1>6, <1>7, <1>8, SeqEqual
<1>10. QED
  BY <1>5, <1>9 DEF Promise!With

\* The last n characters erased.
LEMMA ErasedText ==
  ASSUME NEW s \in Frame, TidyOn(s), s.y < Rows, NEW n \in Nat, n <= s.x,
         NEW z, ErasedBy(s, z, n)
  PROVE  /\ Len(Promise!Last(TextOn(s))) >= n
         /\ TextOn(z) = [TextOn(s) EXCEPT ![Len(TextOn(s))] =
                           SubSeq(@, 1, Len(@) - n)]
<1> DEFINE l == Row(s.mem, s.y, s.x)
           q == Row(z.mem, s.y, z.x)
           c == Cols * s.y
           e == SubSeq(l, 1, s.x - n)
<1>0. /\ z \in Frame /\ TidyOn(z) /\ z.x = s.x - n /\ z.y = s.y
      /\ \A j \in Memory : z.mem[j] = IF j \in Cell(s) - n .. Cell(s) - 1
                                    THEN "blank" ELSE s.mem[j]
  BY DEF ErasedBy
<1>1. /\ s.y \in Nat /\ s.y \in 0 .. Rows - 1 /\ s.x \in Nat /\ c \in Nat
      /\ Cell(s) = c + s.x /\ z.x \in 0 .. Cols /\ s.x \in 0 .. Cols
  BY <1>0, TidyIs, RowCells, Sizes
<1>2. /\ l \in Seq(Shades) /\ Len(l) = s.x
      /\ \A i \in 1 .. s.x : l[i] = s.mem[c + i - 1] /\ c + i - 1 \in Visible
  BY <1>1, FrameIs, Pages, RowIs
<1>3. /\ q \in Seq(Shades) /\ Len(q) = z.x
      /\ \A i \in 1 .. z.x : q[i] = z.mem[c + i - 1]
  <2>1. \A i \in Visible : z.mem[i] \in Shades
    BY <1>0, FrameIs, Pages
  <2>2. QED
    BY <1>1, <2>1, RowIs
<1>4. \A j \in Visible : j < c => z.mem[j] = s.mem[j]
  <2>1. \A j \in Visible : j \in Memory /\ j \in Int
    BY Pages
  <2>2. \A j \in Visible : j < c => j \notin Cell(s) - n .. Cell(s) - 1
    BY <1>1, <2>1
  <2>3. QED
    BY <1>0, <2>1, <2>2
<1>5. /\ Len(TextOn(s)) = s.y + 1 /\ TextOn(s)[s.y + 1] = l
      /\ TextOn(z) = [TextOn(s) EXCEPT ![s.y + 1] = q]
  BY <1>0, <1>4, LastLine
<1> HIDE DEF l, q, c
<1>6. q = e
  <2>1. \A i \in 1 .. s.x - n : l[i] \in Shades
    BY <1>1, <1>2, ElementOfSeq
  <2>2. 1 \in Int /\ s.x - n \in Int
    BY <1>1
  <2>3. /\ e \in Seq(Shades)
        /\ Len(e) = IF 1 <= s.x - n THEN (s.x - n) - 1 + 1 ELSE 0
        /\ \A i \in 1 .. (s.x - n) - 1 + 1 : e[i] = l[1 + i - 1]
    BY <2>1, <2>2, SubSeqProperties
  <2> HIDE DEF e
  <2>4. Len(e) = Len(q)
    BY <1>0, <1>1, <1>3, <2>3
  <2>5. \A i \in 1 .. Len(q) : q[i] = e[i]
    <3> SUFFICES ASSUME NEW i \in 1 .. Len(q) PROVE q[i] = e[i]
      OBVIOUS
    <3>1. /\ i \in 1 .. z.x /\ i \in 1 .. s.x /\ 1 + i - 1 = i
          /\ i \in 1 .. (s.x - n) - 1 + 1
      BY <1>0, <1>1, <1>3
    <3>2. c + i - 1 \in Memory /\ c + i - 1 \notin Cell(s) - n .. Cell(s) - 1
      BY <1>0, <1>1, <1>2, <3>1, Pages
    <3>3. q[i] = s.mem[c + i - 1]
      BY <1>0, <1>3, <3>1, <3>2
    <3>4. QED
      BY <1>2, <2>3, <3>1, <3>3
  <2>6. QED
    BY <1>3, <2>3, <2>4, <2>5, SeqEqual
<1>7. Promise!Last(TextOn(s)) = l
  BY <1>5 DEF Promise!Last
<1>8. QED
  BY <1>1, <1>2, <1>5, <1>6, <1>7

\* A page whose last line is still empty.
LEMMA FreshLine ==
  ASSUME NEW m \in [Memory -> Shades], NEW w \in 1 .. Rows
  PROVE  /\ TextOf(0, w, m) \in Seq(Seq(Shades)) /\ Len(TextOf(0, w, m)) = w + 1
         /\ \A r \in 1 .. w : TextOf(0, w, m)[r] = Trim(Row(m, r - 1, Cols))
         /\ TextOf(0, w, m)[w + 1] = <<>>
<1>1. 0 \in 0 .. Cols - 1 /\ w \in 0 .. Rows
  BY Sizes
<1>2. \A i \in Visible : m[i] \in Shades
  BY Pages
<1>3. Above(w) = w
  BY Sizes DEF Above
<1>4. Row(m, w, 0) = <<>>
  BY DEF Row
<1>5. w < Rows \/ w = Rows
  BY Sizes
<1> DEFINE o == 0
<1>6. o \in 0 .. Cols - 1 /\ Row(m, w, o) = <<>>
  BY <1>1, <1>4
<1> HIDE DEF o
<1>7. /\ TextOf(o, w, m) \in Seq(Seq(Shades)) /\ Len(TextOf(o, w, m)) = Above(w) + 1
      /\ \A r \in 1 .. Above(w) : TextOf(o, w, m)[r] = Trim(Row(m, r - 1, Cols))
      /\ w < Rows => TextOf(o, w, m)[w + 1] = Row(m, w, o)
      /\ w = Rows => TextOf(o, w, m)[Rows + 1] = <<>>
  BY <1>1, <1>2, <1>6, TextIs
<1>8. TextOf(o, w, m)[w + 1] = <<>>
  BY <1>5, <1>6, <1>7
<1>9. QED
  BY <1>3, <1>7, <1>8 DEF o

\* A line that is ended.
LEMMA EndedText ==
  ASSUME NEW s \in Frame, TidyOn(s), s.y < Rows
  PROVE  TextOf(0, s.y + 1, s.mem) = Promise!Ended(TextOn(s))
<1> DEFINE L == TextOn(s)
           y == s.y
           N == TextOf(0, y + 1, s.mem)
           l == Row(s.mem, y, s.x)
           t == Trim(l)
           E == [L EXCEPT ![y + 1] = t]
           A == Append(E, <<>>)
<1>1. /\ y \in Nat /\ y \in 0 .. Rows /\ y \in 0 .. Rows - 1
      /\ y + 1 \in 0 .. Rows /\ 0 \in 0 .. Cols - 1
      /\ s.x \in 0 .. Cols /\ s.x \in Nat /\ Cols \in 0 .. Cols
  BY TidyIs, Sizes
<1>2. Above(y) = y /\ Above(y + 1) = y + 1
  BY <1>1, Sizes DEF Above
<1>3. /\ L \in Seq(Seq(Shades)) /\ Len(L) = y + 1
      /\ \A r \in 1 .. y : L[r] = Trim(Row(s.mem, r - 1, Cols))
      /\ L[y + 1] = l
  BY <1>2, TextOnIs
<1>4. \A i \in Visible : s.mem[i] \in Shades
  BY FrameIs, Pages
<1>5. /\ N \in Seq(Seq(Shades)) /\ Len(N) = (y + 1) + 1
      /\ \A r \in 1 .. y + 1 : N[r] = Trim(Row(s.mem, r - 1, Cols))
      /\ N[(y + 1) + 1] = <<>>
  <2> DEFINE w == y + 1
             m == s.mem
  <2>1. w \in 1 .. Rows /\ m \in [Memory -> Shades] /\ w \in Nat
    BY <1>1, FrameIs
  <2>2. N = TextOf(0, w, m)
    OBVIOUS
  <2> HIDE DEF w, N, m
  <2>3. /\ N \in Seq(Seq(Shades)) /\ Len(N) = w + 1
        /\ \A r \in 1 .. w : N[r] = Trim(Row(m, r - 1, Cols))
        /\ N[w + 1] = <<>>
    BY <2>1, <2>2, FreshLine
  <2>4. QED
    BY <2>3 DEF w, m
<1>6. l \in Seq(Shades) /\ Len(l) = s.x
  BY <1>1, <1>4, RowIs
<1>7. Trim(Row(s.mem, y, Cols)) = t
  <2> DEFINE k == Row(s.mem, y, Cols)
             c == Cols * y
  <2>1. /\ k \in Seq(Shades) /\ Len(k) = Cols
        /\ \A i \in 1 .. Cols : k[i] = s.mem[c + i - 1] /\ c + i - 1 \in Visible
    BY <1>1, <1>4, RowIs
  <2>2. \A i \in 1 .. s.x : l[i] = s.mem[c + i - 1]
    BY <1>1, <1>4, RowIs
  <2>3. /\ Cell(s) = c + s.x /\ c \in Nat
        /\ \A i \in Visible : i >= Cell(s) => s.mem[i] = "blank"
    BY <1>1, TidyIs, RowCells
  <2> HIDE DEF k, c, l
  <2>4. Len(l) <= Len(k) /\ \A i \in 1 .. Len(l) : k[i] = l[i]
    <3>1. Len(l) = s.x /\ Len(k) = Cols /\ s.x <= Cols /\ Cols \in Nat
      BY <1>1, <1>6, <2>1, Sizes
    <3>2. \A i \in 1 .. s.x : i \in 1 .. Cols
      BY <1>1, <3>1
    <3>3. QED
      BY <1>1, <2>1, <2>2, <3>1, <3>2
  <2>5. \A i \in 1 .. Len(k) : i > Len(l) => k[i] = "blank"
    <3> SUFFICES ASSUME NEW i \in 1 .. Cols, i > s.x PROVE k[i] = "blank"
      BY <1>6, <2>1
    <3>1. c + i - 1 \in Visible /\ k[i] = s.mem[c + i - 1]
      BY <2>1
    <3>2. c + i - 1 >= Cell(s)
      BY <1>1, <2>3, Sizes
    <3>3. QED
      BY <2>3, <3>1, <3>2
  <2>6. Trim(k) = Trim(l)
    BY <1>6, <2>1, <2>4, <2>5, TrimBlanks
  <2>7. QED
    BY <2>6 DEF k
<1>8. t \in Seq(Shades) /\ <<>> \in Seq(Shades) /\ y + 1 \in 1 .. Len(L)
  BY <1>1, <1>3, <1>6, TrimIs, EmptySeq
<1>9. Promise!Ended(L) = A
  <2>1. Promise!Trim(l) = t
    BY DEF Promise!Trim, Promise!Nonblank, Trim, Nonblank
  <2>2. Promise!Ended(L) = Append([L EXCEPT ![y + 1] = Promise!Trim(l)], <<>>)
    BY <1>3 DEF Promise!Ended
  <2>3. QED
    BY <2>1, <2>2
<1> HIDE DEF L, N, t, y
<1>10. /\ E \in Seq(Seq(Shades)) /\ Len(E) = Len(L)
       /\ \A j \in 1 .. Len(L) : E[j] = IF j = y + 1 THEN t ELSE L[j]
  BY <1>3, <1>8, ExceptSeq
<1> HIDE DEF E
<1>11. /\ A \in Seq(Seq(Shades)) /\ Len(A) = Len(E) + 1
       /\ \A i \in 1 .. Len(E) : A[i] = E[i]
       /\ A[Len(E) + 1] = <<>>
  <2> DEFINE o == <<>>
  <2>1. o \in Seq(Shades) /\ A = Append(E, o)
    BY <1>8
  <2> HIDE DEF o, A
  <2>2. /\ A \in Seq(Seq(Shades)) /\ Len(A) = Len(E) + 1
        /\ \A i \in 1 .. Len(E) : A[i] = E[i]
        /\ A[Len(E) + 1] = o
    BY <1>10, <2>1, AppendProperties
  <2>3. QED
    BY <2>2 DEF o
<1> HIDE DEF A
<1>12. Len(N) = Len(A)
  BY <1>1, <1>3, <1>5, <1>10, <1>11
<1>13. \A j \in 1 .. Len(N) : N[j] = A[j]
  <2>1. \A j \in 1 .. y : N[j] = A[j]
    <3> SUFFICES ASSUME NEW j \in 1 .. y PROVE N[j] = A[j]
      OBVIOUS
    <3>1. j \in 1 .. y + 1 /\ j \in 1 .. Len(L) /\ j \in 1 .. Len(E) /\ j # y + 1
      BY <1>1, <1>3, <1>10
    <3>2. QED
      BY <1>3, <1>5, <1>10, <1>11, <3>1
  <2>2. N[y + 1] = A[y + 1]
    <3>a. y \in Nat
      BY <1>1
    <3>b. Len(E) = y + 1
      BY <1>3, <1>10
    <3>1. y + 1 \in 1 .. y + 1 /\ y + 1 \in 1 .. Len(E) /\ (y + 1) - 1 = y
      BY <3>a, <3>b
    <3>2. N[y + 1] = t
      BY <1>5, <1>7, <3>1
    <3>3. A[y + 1] = t
      BY <1>8, <1>10, <1>11, <3>1
    <3>4. QED
      BY <3>2, <3>3
  <2>3. N[(y + 1) + 1] = A[(y + 1) + 1]
    BY <1>3, <1>5, <1>10, <1>11
  <2>4. \A j \in 1 .. Len(N) : j \in 1 .. y \/ j = y + 1 \/ j = (y + 1) + 1
    BY <1>1, <1>5
  <2>5. QED
    BY <2>1, <2>2, <2>3, <2>4
<1>14. N = A
  BY <1>5, <1>11, <1>12, <1>13, SeqEqual
<1>15. QED
  BY <1>9, <1>14 DEF N, L, y

\* The oldest line leaves when the rows move up.
LEMMA ScrolledText ==
  ASSUME NEW m \in [Memory -> Shades]
  PROVE  TextOf(0, Rows - 1, ScrollRows(m)) = Tail(TextOf(0, Rows, m))
<1> DEFINE q == ScrollRows(m)
           w == Rows - 1
           N == TextOf(0, w, q)
           L == TextOf(0, Rows, m)
           T == Tail(L)
<1>1. q \in [Memory -> Shades]
  BY Pages DEF ScrollRows, Visible, Page, Shades
<1>2. w \in 1 .. Rows /\ w \in Nat /\ Rows \in 1 .. Rows /\ Rows \in Nat /\ Rows = w + 1
  BY Sizes
<1>3. ASSUME NEW r \in 1 .. w
      PROVE  Row(q, r - 1, Cols) = Row(m, r, Cols)
  <2>1. r - 1 \in Nat /\ r \in Nat /\ r <= Rows - 1 /\ (r - 1) + 1 = r
    BY <1>2
  <2>2. /\ Cols * (r - 1) \in Nat /\ Cols * r = Cols * (r - 1) + Cols
        /\ Cols * r + Cols <= Cols * Rows /\ Cols * r \in Nat
    BY <2>1, RowCells
  <2>3. \A i \in 1 .. Cols : q[Cols * (r - 1) + i - 1] = m[Cols * r + i - 1]
    <3> SUFFICES ASSUME NEW i \in 1 .. Cols
                 PROVE  q[Cols * (r - 1) + i - 1] = m[Cols * r + i - 1]
      OBVIOUS
    <3> DEFINE k == Cols * (r - 1) + i - 1
    <3>1. k \in Visible /\ k + Cols \in Visible /\ k + Cols = Cols * r + i - 1
      BY <2>2, Sizes DEF Visible
    <3> HIDE DEF k
    <3>2. k \in Memory
      BY <3>1, Pages
    <3>3. q[k] = m[k + Cols]
      BY <3>1, <3>2 DEF ScrollRows
    <3>4. q[k] = m[Cols * r + i - 1]
      BY <3>1, <3>3
    <3>5. QED
      BY <3>4 DEF k
  <2>4. QED
    BY <2>3 DEF Row
<1> HIDE DEF q, w
<1>4. /\ N \in Seq(Seq(Shades)) /\ Len(N) = w + 1
      /\ \A r \in 1 .. w : N[r] = Trim(Row(q, r - 1, Cols))
      /\ N[w + 1] = <<>>
  BY <1>1, <1>2, FreshLine
<1>5. /\ L \in Seq(Seq(Shades)) /\ Len(L) = Rows + 1
      /\ \A r \in 1 .. Rows : L[r] = Trim(Row(m, r - 1, Cols))
      /\ L[Rows + 1] = <<>>
  BY <1>2, FreshLine
<1> HIDE DEF N, L
<1>6. L # <<>>
  BY <1>2, <1>5, EmptySeq
<1>7. /\ T \in Seq(Seq(Shades)) /\ Len(T) = Len(L) - 1
      /\ \A i \in 1 .. Len(T) : T[i] = L[i + 1]
  BY <1>5, <1>6, HeadTailProperties
<1> HIDE DEF T
<1>8. Len(N) = Len(T)
  BY <1>2, <1>4, <1>5, <1>7
<1>9. \A r \in 1 .. Len(N) : N[r] = T[r]
  <2>1. ASSUME NEW r \in 1 .. w PROVE N[r] = T[r]
    <3>1. r + 1 \in 1 .. Rows /\ (r + 1) - 1 = r /\ r \in 1 .. Len(T)
      BY <1>2, <1>5, <1>7
    <3>2. T[r] = Trim(Row(m, r, Cols))
      BY <1>5, <1>7, <3>1
    <3>3. QED
      BY <1>3, <1>4, <3>2
  <2>2. N[w + 1] = T[w + 1]
    BY <1>2, <1>4, <1>5, <1>7
  <2>3. \A r \in 1 .. Len(N) : r \in 1 .. w \/ r = w + 1
    BY <1>2, <1>4
  <2>4. QED
    BY <2>1, <2>2, <2>3
<1>10. N = T
  BY <1>4, <1>7, <1>8, <1>9, SeqEqual
<1>11. QED
  BY <1>10 DEF N, T, L, q, w

\* Room of TextScreen is the row that putc scrolls up.
LEMMA RoomText ==
  ASSUME NEW s \in Frame, TidyOn(s)
  PROVE  TextOn(PutAt(s)) = Promise!Room(TextOn(s))
<1>1. s.y \in 0 .. Rows /\ s.y \in Nat
  BY TidyIs, Sizes
<1>2. Len(TextOn(s)) = Above(s.y) + 1
  BY TextOnIs
<1>3. CASE s.y = Rows
  <2> DEFINE z == PutAt(s)
  <2>1. s.x = 0 /\ s.mem \in [Memory -> Shades]
    BY <1>3, TidyIs, FrameIs
  <2>2. TextOn(s) = TextOf(0, Rows, s.mem)
    BY <1>3, <2>1 DEF TextOn
  <2>3. z.x = 0 /\ z.y = Rows - 1 /\ \A j \in Memory : z.mem[j] = ScrollRows(s.mem)[j]
    BY <1>3, PutAtIs
  <2>4. TextOn(z) = TextOf(0, Rows - 1, z.mem)
    BY <2>3 DEF TextOn
  <2> HIDE DEF z
  <2>5. TextOf(0, Rows - 1, z.mem) = TextOf(0, Rows - 1, ScrollRows(s.mem))
    <3> DEFINE o == 0
               w == Rows - 1
    <3>1. o \in 0 .. Cols - 1 /\ w \in 0 .. Rows
      BY Sizes
    <3>2. \A i \in Visible : z.mem[i] = ScrollRows(s.mem)[i]
      BY <2>3, Pages
    <3> HIDE DEF o, w
    <3>3. TextOf(o, w, z.mem) = TextOf(o, w, ScrollRows(s.mem))
      BY <3>1, <3>2, TextSame
    <3>4. QED
      BY <3>3 DEF o, w
  <2>6. TextOn(z) = Tail(TextOn(s))
    BY <2>1, <2>2, <2>4, <2>5, ScrolledText
  <2>7. Len(TextOn(s)) > Rows
    BY <1>1, <1>2, <1>3, AboveIs, Sizes
  <2>8. QED
    BY <2>6, <2>7 DEF Promise!Room, z
<1>4. CASE s.y # Rows
  <2>1. s.y < Rows
    BY <1>1, <1>4, Sizes
  <2>2. ~ (Len(TextOn(s)) > Rows)
    BY <1>1, <1>2, <2>1, AboveIs, Sizes
  <2>3. PutAt(s) = s
    BY <1>4, PutAtIs
  <2>4. QED
    BY <2>2, <2>3 DEF Promise!Room
<1>5. QED
  BY <1>3, <1>4

\* A cleared page is one empty line.
LEMMA EmptyText ==
  ASSUME NEW p
  PROVE  TextOf(0, 0, p) = <<<<>>>>
<1>1. Above(0) = 0 /\ 0 < Rows
  BY Sizes DEF Above
<1>2. Row(p, 0, 0) = <<>>
  BY DEF Row
<1>3. TextOf(0, 0, p) = [r \in 1 .. 1 |-> <<>>]
  BY <1>1, <1>2 DEF TextOf
<1>4. QED
  BY <1>3

\* The text of a terminal, as TextAt finds it in memory.
PlainText(m, base, x, y) ==
  [r \in 1 .. Above(y) + 1 |->
     IF r <= Above(y)
     THEN Trim([i \in 1 .. Cols |-> m[base + Cols * (r - 1) + i - 1]])
     ELSE IF y < Rows THEN [i \in 1 .. x |-> m[base + Cols * y + i - 1]]
     ELSE <<>>]
\* Text of Screen, with the state as parameters.
Plain(s, at, c) ==
  [t \in Terms |-> IF t = at THEN PlainText(s.mem, 0, s.x, s.y)
                   ELSE PlainText(s.mem, PageOf(t), c[t].x, c[t].y)]

LEMMA TextIsPlain ==
  /\ Text = Plain(screen, cur_terminal, cursors)
  /\ Text' = Plain(screen', cur_terminal', cursors')
BY DEF Text, TextAt, Plain, PlainText, Above

LEMMA PlainTextIs ==
  ASSUME NEW m, NEW base \in Int, NEW x \in 0 .. Cols - 1, NEW y \in 0 .. Rows,
         NEW p, \A i \in Visible : p[i] = m[base + i]
  PROVE  PlainText(m, base, x, y) = TextOf(x, y, p)
<1>1. ASSUME NEW r \in 0 .. Rows - 1, NEW n \in 0 .. Cols
      PROVE  [i \in 1 .. n |-> m[base + Cols * r + i - 1]] = Row(p, r, n)
  <2>1. n \in Nat /\ r \in Nat /\ n <= Cols
    BY Sizes
  <2>2. Cols * r \in Nat /\ Cols * r + Cols <= Cols * Rows
    BY <2>1, RowCells, Sizes
  <2>3. \A i \in 1 .. n : /\ Cols * r + i - 1 \in Visible
                         /\ base + (Cols * r + i - 1) = base + Cols * r + i - 1
    BY <2>1, <2>2, Sizes DEF Visible
  <2>4. \A i \in 1 .. n : m[base + Cols * r + i - 1] = p[Cols * r + i - 1]
    BY <2>3
  <2>5. QED
    BY <2>4 DEF Row
<1>2. /\ \A r \in 1 .. Above(y) : r - 1 \in 0 .. Rows - 1
      /\ Cols \in 0 .. Cols /\ x \in 0 .. Cols
      /\ y < Rows => y \in 0 .. Rows - 1
      /\ \A r \in 1 .. Above(y) + 1 : r <= Above(y) => r \in 1 .. Above(y)
  BY AboveIs, Sizes
<1>3. \A r \in 1 .. Above(y) + 1 : r <= Above(y) =>
        [i \in 1 .. Cols |-> m[base + Cols * (r - 1) + i - 1]] = Row(p, r - 1, Cols)
  BY <1>1, <1>2
<1>4. y < Rows => [i \in 1 .. x |-> m[base + Cols * y + i - 1]] = Row(p, y, x)
  BY <1>1, <1>2
<1>5. QED
  BY <1>3, <1>4 DEF PlainText, TextOf

\* The text of each terminal.
Texts(s, at, c, r) ==
  [t \in Terms |-> IF t = at THEN TextOn(s)
                   ELSE TextOf(c[t].x, c[t].y, PageKept(s.mem, r, t))]

\* It is the same as Texts when pages of hidden terminals are kept.
LEMMA PlainIs ==
  ASSUME NEW s \in Frame, NEW at \in Terms, NEW c, NEW r, TidyOn(s),
         Visited(at, r, c),
         \A t \in Terms \ {at} : Tidy(c[t].x, c[t].y, PageKept(s.mem, r, t))
  PROVE  Plain(s, at, c) = Texts(s, at, c, r)
<1>1. PlainText(s.mem, 0, s.x, s.y) = TextOn(s)
  <2> DEFINE m == s.mem
             b == 0
  <2>1. s.x \in 0 .. Cols - 1 /\ s.y \in 0 .. Rows /\ b \in Int
    BY DEF TidyOn, Tidy
  <2>2. \A i \in Visible : m[i] = m[b + i]
    BY DEF Visible
  <2> HIDE DEF b
  <2>3. PlainText(m, b, s.x, s.y) = TextOf(s.x, s.y, m)
    BY <2>1, <2>2, PlainTextIs
  <2>4. QED
    BY <2>3 DEF b, TextOn
<1>2. ASSUME NEW t \in Terms \ {at}
      PROVE  PlainText(s.mem, PageOf(t), c[t].x, c[t].y)
               = TextOf(c[t].x, c[t].y, PageKept(s.mem, r, t))
  <2> DEFINE m == s.mem
             x == c[t].x
             y == c[t].y
             b == PageOf(t)
             q == PageKept(m, r, t)
             p == [i \in Visible |-> m[b + i]]
  <2>1. x \in 0 .. Cols - 1 /\ y \in 0 .. Rows
    BY DEF Tidy
  <2>2. b \in Int
    BY Pages
  <2>3. \A i \in Visible : p[i] = m[b + i]
    OBVIOUS
  <2>4. t \in r => \A i \in Visible : q[i] = p[i]
    BY DEF PageKept
  <2>5. t \notin r => x = 0 /\ y = 0
    BY DEF Visited
  <2> HIDE DEF m, x, y, b, q, p
  <2>6. PlainText(m, b, x, y) = TextOf(x, y, p)
    <3>1. PICK h : h = p
      OBVIOUS
    <3>2. \A i \in Visible : h[i] = m[b + i]
      BY <2>3, <3>1
    <3>3. PICK k \in Int, u \in 0 .. Cols - 1, v \in 0 .. Rows : k = b /\ u = x /\ v = y
      BY <2>1, <2>2
    <3>4. \A i \in Visible : h[i] = m[k + i]
      BY <3>2, <3>3
    <3>5. PlainText(m, k, u, v) = TextOf(u, v, h)
      BY ONLY <3>4, u \in 0 .. Cols - 1, v \in 0 .. Rows, k \in Int, PlainTextIs
    <3>6. QED
      BY <3>1, <3>3, <3>5
  <2>7. TextOf(x, y, q) = TextOf(x, y, p)
    <3>1. CASE t \in r
      BY <2>1, <2>4, <3>1, TextSame
    <3>2. CASE t \notin r
      BY <2>5, <3>2, EmptyText
    <3>3. QED
      BY <3>1, <3>2
  <2>8. QED
    BY <2>6, <2>7 DEF m, x, y, b, q
<1>3. QED
  BY <1>1, <1>2 DEF Plain, Texts

\* What each key does to the text.
LEMMA TypedText ==
  ASSUME NEW s \in Frame, TidyOn(s), PutAt(s).x + 1 < Cols, NEW c \in Shades
  PROVE  TextOn(Newline(PutAt(s), c)) = Promise!With(Promise!Room(TextOn(s)), <<c>>)
<1> DEFINE p == PutAt(s)
           z == Newline(p, c)
           k == <<c>>
<1>1. p \in Frame /\ TidyOn(p) /\ p.y < Rows
  BY PutAtTidy, Sizes
<1>2. p.x + 1 < Cols
  OBVIOUS
<1>3. TextOn(p) = Promise!Room(TextOn(s))
  BY RoomText
<1> HIDE DEF p
<1>4. /\ z \in Frame /\ TidyOn(z) /\ z.x = p.x + 1 /\ z.y = p.y
      /\ \A j \in Memory : z.mem[j] = IF j = Cell(p) THEN c ELSE p.mem[j]
  BY <1>1, <1>2, PutcTidy
<1>5. Cell(p) \in Visible /\ Cell(p) \in Nat /\ Cell(p) \in Memory
  BY <1>1, TidyIs, Pages
<1> HIDE DEF z
<1>6. k \in Seq(Shades) /\ Len(k) = 1 /\ k[1] = c
  OBVIOUS
<1> HIDE DEF k
<1>7. \A j \in Visible : j < Cell(p) => z.mem[j] = p.mem[j]
  BY <1>4, <1>5, Pages
<1>8. \A i \in 1 .. Len(k) : z.mem[Cell(p) + i - 1] = k[i]
  <2>1. z.mem[Cell(p)] = c
    BY <1>4, <1>5
  <2>2. \A i \in 1 .. Len(k) : i = 1 /\ Cell(p) + i - 1 = Cell(p)
    BY <1>5, <1>6
  <2>3. QED
    BY <1>6, <2>1, <2>2
<1>9. z.x = p.x + Len(k)
  BY <1>4, <1>6
<1>10. TextOn(z) = Promise!With(TextOn(p), k)
  BY <1>1, <1>4, <1>6, <1>7, <1>8, <1>9, AddedText
<1>11. QED
  BY <1>3, <1>10 DEF p, z, k

LEMMA TabbedText ==
  ASSUME NEW s \in Frame, TidyOn(s), PutAt(s).x + TabWidth < Cols
  PROVE  TextOn(Spaces(s)) = Promise!With(Promise!Room(TextOn(s)),
                                          [i \in 1 .. TabWidth |-> "blank"])
<1> DEFINE p == PutAt(s)
           z == Spaces(s)
           k == [i \in 1 .. TabWidth |-> "blank"]
<1>1. p \in Frame /\ TidyOn(p) /\ p.y < Rows
  BY PutAtTidy, Sizes
<1>2. TextOn(p) = Promise!Room(TextOn(s))
  BY RoomText
<1>3. /\ z \in Frame /\ TidyOn(z) /\ z.x = p.x + TabWidth /\ z.y = p.y
      /\ \A j \in Memory : z.mem[j] = p.mem[j]
      /\ p.x + TabWidth < Cols
  BY SpacesTidy
<1> HIDE DEF p, z
<1>4. /\ Cell(p) \in Nat /\ Cell(p) = Cols * p.y + p.x /\ p.x \in Nat /\ p.y \in Nat
      /\ \A i \in Visible : i >= Cell(p) => p.mem[i] = "blank"
  BY <1>1, TidyIs
<1>5. k \in [1 .. TabWidth -> Shades]
  BY DEF Shades
<1>6. k \in Seq(Shades) /\ Len(k) = TabWidth
  BY <1>5, Sizes, SeqMade
<1>7. \A i \in 1 .. TabWidth : k[i] = "blank"
  OBVIOUS
<1> HIDE DEF k
<1>8. \A j \in Visible : j < Cell(p) => z.mem[j] = p.mem[j]
  BY <1>3, Pages
<1>9. \A i \in 1 .. Len(k) : z.mem[Cell(p) + i - 1] = k[i]
  <2> SUFFICES ASSUME NEW i \in 1 .. TabWidth
               PROVE  z.mem[Cell(p) + i - 1] = k[i]
    BY <1>6
  <2>1. Cols * p.y + Cols <= Cols * Rows /\ Cols * p.y \in Nat
    BY <1>1, <1>4, RowCells, Sizes
  <2>2. Cell(p) + i - 1 \in Visible /\ Cell(p) + i - 1 >= Cell(p)
    BY <1>3, <1>4, <2>1, Sizes DEF Visible
  <2>3. QED
    BY <1>3, <1>4, <1>7, <2>2, Pages
<1>10. z.x = p.x + Len(k)
  BY <1>3, <1>6
<1>11. TextOn(z) = Promise!With(TextOn(p), k)
  BY <1>1, <1>3, <1>6, <1>8, <1>9, <1>10, AddedText
<1>12. QED
  BY <1>2, <1>11 DEF p, z, k

LEMMA LineText ==
  ASSUME NEW s \in Frame, TidyOn(s), s.y < Rows
  PROVE  /\ TextOn(Putc(s, "nl")) = Promise!Ended(TextOn(s))
         /\ Len(TextOn(s)) <= Rows
<1>1. s.y \in Nat /\ s.y \in 0 .. Rows /\ s.y < MaxY
  BY TidyIs, Sizes
<1>2. Putc(s, "nl") = [x |-> 0, y |-> s.y + 1, mem |-> s.mem]
  BY <1>1, PutcNewline
<1>3. TextOn(Putc(s, "nl")) = TextOf(0, s.y + 1, s.mem)
  BY <1>2 DEF TextOn
<1>4. Len(TextOn(s)) = s.y + 1
  BY <1>1, AboveIs, TextOnIs
<1>5. QED
  BY <1>1, <1>3, <1>4, EndedText, Sizes

LEMMA ScrollText ==
  ASSUME NEW s \in Frame, TidyOn(s), s.y = Rows - 1
  PROVE  /\ TextOn(Scrolldown(s)) = Tail(Promise!Ended(TextOn(s)))
         /\ Len(TextOn(s)) = Rows
<1> DEFINE z == Scrolldown(s)
           o == 0
           w == Rows - 1
<1>1. s.y \in Nat /\ s.y \in 0 .. Rows /\ s.y < Rows /\ s.y + 1 = Rows
  BY TidyIs, Sizes
<1>2. Promise!Ended(TextOn(s)) = TextOf(0, Rows, s.mem)
  BY <1>1, EndedText
<1>3. s.mem \in [Memory -> Shades]
  BY FrameIs
<1>4. Tail(TextOf(0, Rows, s.mem)) = TextOf(o, w, ScrollRows(s.mem))
  BY <1>3, ScrolledText
<1>5. z.x = o /\ z.y = w /\ \A j \in Memory : z.mem[j] = ScrollRows(s.mem)[j]
  BY ScrolldownIs
<1>6. o \in 0 .. Cols - 1 /\ w \in 0 .. Rows
  BY Sizes
<1> HIDE DEF z, o, w
<1>7. \A i \in Visible : z.mem[i] = ScrollRows(s.mem)[i]
  BY <1>5, Pages
<1>8. TextOf(o, w, z.mem) = TextOf(o, w, ScrollRows(s.mem))
  BY <1>6, <1>7, TextSame
<1>9. TextOn(z) = TextOf(o, w, z.mem)
  BY <1>5 DEF TextOn
<1>10. Len(TextOn(s)) = s.y + 1
  BY <1>1, AboveIs, TextOnIs
<1>11. QED
  BY <1>1, <1>2, <1>4, <1>8, <1>9, <1>10 DEF z

LEMMA ShownText ==
  ASSUME NEW s, NEW z, NEW at \in Terms, NEW c, NEW r, Ahead(s.mem, z.mem)
  PROVE  /\ Texts(z, at, c, r) = [Texts(s, at, c, r) EXCEPT ![at] = TextOn(z)]
         /\ Texts(s, at, c, r)[at] = TextOn(s)
<1>1. \A t \in Terms : PageKept(z.mem, r, t) = PageKept(s.mem, r, t)
  BY KeptAhead
<1>2. QED
  BY <1>1 DEF Texts

\* The text of a state and of the next one.
LEMMA TextNow ==
  ASSUME Typed, Keeping, Tidying, mess = 0
  PROVE  /\ Text = Texts(screen, cur_terminal, cursors, running)
         /\ TidyOn(screen)
         /\ screen.y = Rows => Ind = 0
BY TextIsPlain, PlainIs DEF Typed, TypeOK, Keeping, Tidying, TidyOn

LEMMA TextNext ==
  ASSUME Typed', Keeping', Tidying', mess' = 0
  PROVE  /\ Text' = Texts(screen', cur_terminal', cursors', running')
         /\ TidyOn(screen')
BY TextIsPlain, PlainIs DEF Typed, TypeOK, Keeping, Tidying, TidyOn

\* The first screen maps to the first text.
LEMMA PromiseInit == Init => Promise!Init
<1> SUFFICES ASSUME Init PROVE Promise!Init
  OBVIOUS
<1>1. /\ screen = [x |-> 0, y |-> 0, mem |-> [i \in Memory |-> "blank"]]
      /\ cursors = [t \in Terms |-> [x |-> 0, y |-> 0]]
      /\ cur_terminal = 0 /\ mess = 0
  BY DEF Init
<1>2. Text = Texts(screen, cur_terminal, cursors, running)
  BY <1>1, TextNow, TypedInit, KeepingInit, TidyingInit
<1>3. TextOn(screen) = <<<<>>>>
  BY <1>1, EmptyText DEF TextOn
<1>4. \A t \in Terms :
        TextOf(cursors[t].x, cursors[t].y, PageKept(screen.mem, running, t)) = <<<<>>>>
  BY <1>1, EmptyText
<1>5. Text = [t \in Terms |-> <<<<>>>>]
  BY <1>2, <1>3, <1>4 DEF Texts
<1>6. QED
  BY <1>1, <1>5 DEF Promise!Init

\* While no row is filled and nothing is erased that is not there, a step of
\* the screen is a step of the text, or changes none of it.
LEMMA PromiseStep ==
  ASSUME Typed, Keeping, Tidying, Typed', Keeping', Tidying', Next, mess' = 0
  PROVE  Promise!Next \/ UNCHANGED Promise!vars
<1> DEFINE L == TextOn(screen)
<1>1. /\ screen \in Frame /\ cur_terminal \in Terms
      /\ Text' = Texts(screen', cur_terminal', cursors', running')
      /\ TidyOn(screen')
  BY TextNext DEF Typed, TypeOK
<1>c. mess = 0 => /\ TidyOn(screen) /\ Low(screen) /\ screen.y <= Rows
                  /\ screen.y \in Nat /\ screen.x \in Nat
                  /\ screen.y = Rows => Ind = 0
                  /\ Text = Texts(screen, cur_terminal, cursors, running)
  <2> SUFFICES ASSUME mess = 0
               PROVE  /\ TidyOn(screen) /\ Low(screen) /\ screen.y <= Rows
                      /\ screen.y \in Nat /\ screen.x \in Nat
                      /\ screen.y = Rows => Ind = 0
                      /\ Text = Texts(screen, cur_terminal, cursors, running)
    OBVIOUS
  <2>1. /\ TidyOn(screen)
        /\ screen.y = Rows => Ind = 0
        /\ Text = Texts(screen, cur_terminal, cursors, running)
    BY TextNow
  <2>2. /\ Low(screen) /\ screen.y <= Rows
        /\ screen.y \in Nat /\ screen.x \in Nat
    BY <1>1, <2>1, TidyIs
  <2>3. QED
    BY <2>1, <2>2
<1>s. ASSUME UNCHANGED Hidden, mess = 0, Ahead(screen.mem, screen'.mem)
      PROVE  /\ Promise!Show(TextOn(screen'))
             /\ Promise!Lines = L
  <2>1. cur_terminal' = cur_terminal /\ cursors' = cursors /\ running' = running
    BY <1>s DEF Hidden
  <2>2. PICK z : z = screen'
    OBVIOUS
  <2>3. PICK s : s = screen
    OBVIOUS
  <2>4. PICK c : c = cursors
    OBVIOUS
  <2>5. PICK r : r = running
    OBVIOUS
  <2>6. PICK at : at = cur_terminal
    OBVIOUS
  <2>7. /\ Texts(z, at, c, r) = [Texts(s, at, c, r) EXCEPT ![at] = TextOn(z)]
        /\ Texts(s, at, c, r)[at] = TextOn(s)
    BY <1>1, <1>s, <2>2, <2>3, <2>6, ShownText
  <2>8. /\ Text' = Texts(z, at, c, r) /\ Text = Texts(s, at, c, r)
    BY <1>1, <1>c, <1>s, <2>1, <2>2, <2>3, <2>4, <2>5, <2>6
  <2>9. Text' = [Text EXCEPT ![cur_terminal] = TextOn(screen')]
    BY <2>2, <2>6, <2>7, <2>8
  <2>10. Text[cur_terminal] = TextOn(screen)
    BY <2>3, <2>6, <2>7, <2>8
  <2>11. QED
    BY <2>1, <2>9, <2>10 DEF Promise!Show, Promise!Lines
<1>g. ASSUME NEW c \in Glyphs, mess = 0, ~ Passes(1), UNCHANGED Hidden,
             Ahead(screen.mem, screen'.mem),
             screen' = Newline(PutAt(screen), c)
      PROVE  Promise!Next
  <2>1. c \in Shades
    BY DEF Shades
  <2>2. PutAt(screen).x + 1 < Cols
    BY <1>c, <1>g, RoomFor
  <2>3. TextOn(screen') = Promise!With(Promise!Room(L), <<c>>)
    BY <1>1, <1>c, <1>g, <2>1, <2>2, TypedText
  <2>4. Promise!Show(Promise!With(Promise!Room(Promise!Lines), <<c>>))
    BY <1>s, <1>g, <2>3
  <2>5. QED
    BY <2>4 DEF Promise!Next, Promise!Type
<1>l. ASSUME mess = 0, screen.y < Rows, UNCHANGED Hidden,
             Ahead(screen.mem, screen'.mem), screen' = Putc(screen, "nl")
      PROVE  Promise!Next
  <2>1. TextOn(screen') = Promise!Ended(L) /\ Len(L) <= Rows
    BY <1>1, <1>c, <1>l, LineText
  <2>2. Promise!Show(Promise!Ended(Promise!Lines)) /\ Len(Promise!Lines) <= Rows
    BY <1>s, <1>l, <2>1
  <2>3. QED
    BY <2>2 DEF Promise!Next, Promise!NewLine
<1>u. ASSUME UNCHANGED Hidden, UNCHANGED <<screen, inds, mess, spilled>>
      PROVE  UNCHANGED Promise!vars
  <2>1. cur_terminal' = cur_terminal /\ cursors' = cursors /\ screen' = screen
    BY <1>u DEF Hidden
  <2>2. Text' = Text
    BY <2>1, TextIsPlain
  <2>3. QED
    BY <2>1, <2>2 DEF Promise!vars
<1>2. ASSUME NEW c \in Glyphs \cup {"nl"}, Write(c) PROVE Promise!Next
  <2>1. c \in Shades /\ (c = "nl" => screen.y < MaxY)
    BY <1>2 DEF Shades, Write
  <2>2. /\ screen' = Putc(screen, c) /\ UNCHANGED Hidden
        /\ Note(IF c = "nl" THEN screen.y >= Rows ELSE Passes(1))
    BY <1>2 DEF Write
  <2>3. mess = 0 /\ ~ (IF c = "nl" THEN screen.y >= Rows ELSE Passes(1))
    BY <2>2, NoteClean
  <2>4. Ahead(screen.mem, screen'.mem)
    BY <1>1, <1>c, <2>1, <2>2, <2>3, PutcAhead
  <2>5. CASE c = "nl"
    <3>1. screen.y < Rows
      BY <1>c, <2>3, <2>5, Sizes
    <3>2. QED
      BY <1>l, <2>2, <2>3, <2>4, <2>5, <3>1
  <2>6. CASE c # "nl"
    <3>1. Putc(screen, c) = Newline(PutAt(screen), c)
      BY <1>1, <2>1, <2>6, PutcIs
    <3>2. c \in Glyphs
      BY <2>6
    <3>3. QED
      BY <1>g, <2>2, <2>3, <2>4, <2>6, <3>1, <3>2
  <2>7. QED
    BY <2>5, <2>6
<1>3. ASSUME NEW c \in Glyphs, CharKey(c) PROVE Promise!Next \/ UNCHANGED Promise!vars
  <2>1. CASE Ind >= BufLen - 1
    BY <1>3, <1>u, <2>1 DEF CharKey
  <2>2. CASE ~ (Ind >= BufLen - 1)
    <3>1. c \in Shades /\ c # "nl"
      BY ConstantsAssumption DEF Shades
    <3>2. screen' = Echo(c) /\ Note(Passes(1)) /\ UNCHANGED Hidden
      BY <1>3, <2>2 DEF CharKey
    <3>3. mess = 0 /\ ~ Passes(1)
      BY <3>2, NoteClean
    <3>4. Ahead(screen.mem, screen'.mem)
      BY <1>1, <1>c, <3>1, <3>2, <3>3, EchoAhead
    <3>5. Echo(c) = Newline(PutAt(screen), c)
      BY <1>c, <3>1, <3>3, EchoClean
    <3>6. QED
      BY <1>g, <3>2, <3>3, <3>4, <3>5
  <2>3. QED
    BY <2>1, <2>2
<1>4. CASE TabKey
  <2>1. screen' = Spaces(screen) /\ Note(Passes(TabWidth)) /\ UNCHANGED Hidden
    BY <1>4 DEF TabKey
  <2>2. mess = 0 /\ ~ Passes(TabWidth)
    BY <2>1, NoteClean
  <2>3. Ahead(screen.mem, screen'.mem)
    BY <1>1, <1>c, <2>1, <2>2, SpacesAhead
  <2>4. TabWidth \in Nat
    BY Sizes
  <2>5. PutAt(screen).x + TabWidth < Cols
    BY <1>c, <2>2, <2>4, RoomFor
  <2>6. TextOn(screen') = Promise!With(Promise!Room(L), [i \in 1 .. TabWidth |-> "blank"])
    BY <1>1, <1>c, <2>1, <2>2, <2>5, TabbedText
  <2>7. Promise!Show(Promise!With(Promise!Room(Promise!Lines),
                                  [i \in 1 .. TabWidth |-> "blank"]))
    BY <1>s, <2>1, <2>2, <2>3, <2>6
  <2>8. QED
    BY <2>7 DEF Promise!Next, Promise!Type
<1>5. CASE BackspaceKey
  <2>1. CASE UNCHANGED <<screen, inds, mess, spilled>>
    BY <1>5, <1>u, <2>1 DEF BackspaceKey
  <2>2. CASE \/ screen' = Backspaces(screen) /\ Note(Misses(TabWidth))
             \/ screen' = Backspace(screen) /\ Note(Misses(1))
    <3>1. mess = 0
      BY <2>2, NoteClean
    <3>2. Ahead(screen.mem, screen'.mem)
      BY <1>1, <1>c, <2>2, <3>1, BackspaceAhead, BackspacesAhead
    <3>3. PICK n \in {1, TabWidth} :
            /\ ~ Misses(n)
            /\ \/ n = TabWidth /\ screen' = Backspaces(screen)
               \/ n = 1 /\ screen' = Backspace(screen)
      BY <2>2, NoteClean
    <3>4. screen.x >= n /\ n <= screen.x /\ screen.y < Rows /\ n \in Nat /\ n > 0
      BY <1>c, <3>1, <3>3, Sizes DEF Misses
    <3>5. ErasedBy(screen, screen', n)
      <4>1. CASE n = TabWidth /\ screen' = Backspaces(screen)
        BY <1>1, <1>c, <3>1, <3>4, <4>1, BackspacesTidy
      <4>2. CASE n = 1 /\ screen' = Backspace(screen)
        <5>1. screen.x > 0
          BY <1>c, <3>1, <3>4
        <5>2. QED
          BY <1>1, <1>c, <3>1, <3>4, <4>2, <5>1, BackspaceTidy
      <4>3. QED
        BY <3>3, <4>1, <4>2
    <3>6. /\ Len(Promise!Last(L)) >= n
          /\ TextOn(screen') = [L EXCEPT ![Len(L)] = SubSeq(@, 1, Len(@) - n)]
      BY <1>1, <1>c, <3>1, <3>4, <3>5, ErasedText
    <3>7. UNCHANGED Hidden
      BY <1>5 DEF BackspaceKey
    <3>8. Promise!Show(TextOn(screen')) /\ Promise!Lines = L
      BY <1>s, <3>1, <3>2, <3>7
    <3> HIDE DEF L
    <3>9. /\ Len(Promise!Last(Promise!Lines)) >= n
          /\ Promise!Show([Promise!Lines EXCEPT ![Len(Promise!Lines)] =
                              SubSeq(@, 1, Len(@) - n)])
      BY <3>6, <3>8
    <3>10. QED
      BY <3>9 DEF Promise!Next, Promise!Erase
  <2>3. QED
    BY <1>5, <2>1, <2>2 DEF BackspaceKey
<1>6. CASE EnterKey
  <2>1. CASE screen.y = Rows - 1
    <3>1. /\ screen' = Scrolldown(screen) /\ UNCHANGED Hidden /\ mess' = mess
      BY <1>6, <2>1 DEF EnterKey
    <3>2. Ahead(screen.mem, screen'.mem)
      BY <1>1, <3>1, ScrolldownIs
    <3>3. TextOn(screen') = Tail(Promise!Ended(L)) /\ Len(L) = Rows
      BY <1>1, <1>c, <2>1, <3>1, ScrollText
    <3>4. Promise!Show(Tail(Promise!Ended(Promise!Lines))) /\ Len(Promise!Lines) = Rows
      BY <1>s, <3>1, <3>2, <3>3
    <3>5. QED
      BY <3>4 DEF Promise!Next, Promise!NewLine
  <2>2. CASE screen.y # Rows - 1
    <3>1. "nl" \in Shades
      BY DEF Shades
    <3>2. /\ screen.y < MaxY /\ screen' = Echo("nl") /\ UNCHANGED Hidden
          /\ Note(screen.y >= Rows \/ Ind + 1 = Cols)
      BY <1>6, <2>2 DEF EnterKey
    <3>3. mess = 0 /\ ~ (screen.y >= Rows \/ Ind + 1 = Cols)
      BY <3>2, NoteClean
    <3>4. Ahead(screen.mem, screen'.mem)
      BY <1>1, <1>c, <3>1, <3>2, <3>3, EchoAhead
    <3>5. screen' = Putc(screen, "nl") /\ screen.y < Rows
      BY <1>c, <3>2, <3>3, Sizes DEF Echo
    <3>6. QED
      BY <1>l, <3>2, <3>3, <3>4, <3>5
  <2>3. QED
    BY <2>1, <2>2
<1>7. CASE ClearKey
  <2>1. screen' = Clearscreen(screen) /\ UNCHANGED Hidden /\ mess' = mess
    BY <1>7 DEF ClearKey
  <2>2. /\ Ahead(screen.mem, screen'.mem)
        /\ screen' = [x |-> 0, y |-> 0, mem |-> Blank(screen.mem)]
    BY <1>1, <2>1, ClearscreenIs
  <2>3. TextOn(screen') = <<<<>>>>
    BY <2>2, EmptyText DEF TextOn
  <2>4. Promise!Show(<<<<>>>>)
    BY <1>s, <2>1, <2>2, <2>3
  <2>5. QED
    BY <2>4 DEF Promise!Next, Promise!Clear
<1>8. ASSUME NEW t \in Terms, SwitchTerminal(t) PROVE Promise!Next
  <2> DEFINE u == cur_terminal
             here == [x |-> Kept(screen.x), y |-> Kept(screen.y)]
             none == [x |-> 0, y |-> 0]
             w == Shown(t)
  <2>1. /\ t # u /\ u \in Terms /\ screen' = w
        /\ cursors' = [cursors EXCEPT ![t] = none, ![u] = here]
        /\ cur_terminal' = t /\ running' = running \cup {t} /\ mess' = mess
    BY <1>1, <1>8 DEF SwitchTerminal, Shown
  <2>2. cursors \in [Terms -> [x : Columns \cap Nat, y : 0 .. MaxY]]
    BY DEF Typed, TypeOK
  <2>3. /\ w.x = cursors[t].x /\ w.y = cursors[t].y
        /\ \A i \in Visible : w.mem[i] =
             IF t \in running \/ t = 0 THEN screen.mem[PageOf(t) + i] ELSE "blank"
        /\ \A i \in Page : w.mem[PageOf(u) + i] = screen.mem[i]
        /\ \A v \in Terms \ {t, u} : \A i \in Page :
             w.mem[PageOf(v) + i] = screen.mem[PageOf(v) + i]
    BY <2>1, ShownIs
  <2>4. (t = 0 => t \in running) /\ u \in running
    BY DEF Keeping, Visited
  <2>5. \A i \in Visible : i \in Page
    BY Pages
  <2>6. \A i \in Visible : w.mem[i] = PageKept(screen.mem, running, t)[i]
    BY <2>3, <2>4 DEF PageKept
  <2>7. TidyOn(screen) /\ TidyOn(w)
    BY <1>1, <1>c, <2>1
  <2> HIDE DEF w, u
  <2>8. \A v \in Terms : cursors'[v] = IF v = u THEN here ELSE
                                       IF v = t THEN none ELSE cursors[v]
    BY <2>1, <2>2
  <2>9. TextOn(w) = TextOf(cursors[t].x, cursors[t].y, PageKept(screen.mem, running, t))
    <3>1. w.x \in 0 .. Cols - 1 /\ w.y \in 0 .. Rows
      BY <2>7 DEF TidyOn, Tidy
    <3>2. TextOf(w.x, w.y, w.mem) = TextOf(w.x, w.y, PageKept(screen.mem, running, t))
      BY <2>6, <3>1, TextSame
    <3>3. QED
      BY <2>3, <3>2 DEF TextOn
  <2>10. TextOf(cursors'[u].x, cursors'[u].y, PageKept(w.mem, running', u)) = TextOn(screen)
    <3>a. u \in Terms
      BY <2>1
    <3>b. cursors'[u] = here
      BY <2>8, <3>a
    <3>0. cursors'[u].x = screen.x /\ cursors'[u].y = screen.y
      BY <1>1, <1>c, <2>1, <3>b, FrameIs, KeptIs
    <3> DEFINE q == PageKept(w.mem, running', u)
               m == screen.mem
               x == screen.x
               y == screen.y
    <3>1. x \in 0 .. Cols - 1 /\ y \in 0 .. Rows
      BY <2>7 DEF TidyOn, Tidy
    <3>2. \A i \in Visible : q[i] = m[i]
      BY <2>1, <2>3, <2>4, <2>5 DEF PageKept
    <3>3. cursors'[u].x = x /\ cursors'[u].y = y
      BY <3>0
    <3> HIDE DEF q, m, x, y
    <3>4. TextOf(x, y, q) = TextOf(x, y, m)
      BY <3>1, <3>2, TextSame
    <3>5. QED
      BY <3>3, <3>4 DEF q, m, x, y, TextOn
  <2>11. ASSUME NEW v \in Terms \ {t, u}
         PROVE  /\ cursors'[v] = cursors[v]
                /\ PageKept(w.mem, running', v) = PageKept(screen.mem, running, v)
    <3>1. v \in running' <=> v \in running
      BY <2>1, <2>11
    <3>2. \A i \in Visible : w.mem[PageOf(v) + i] = screen.mem[PageOf(v) + i]
      BY <2>3, <2>5, <2>11
    <3>3. PageKept(w.mem, running', v) = PageKept(screen.mem, running, v)
      BY <3>1, <3>2 DEF PageKept
    <3>4. QED
      BY <2>8, <2>11, <3>3
  <2>12. Texts(w, t, cursors', running') = Texts(screen, u, cursors, running)
    <3>1. \A v \in Terms :
            (IF v = t THEN TextOn(w)
             ELSE TextOf(cursors'[v].x, cursors'[v].y, PageKept(w.mem, running', v)))
            = (IF v = u THEN TextOn(screen)
               ELSE TextOf(cursors[v].x, cursors[v].y, PageKept(screen.mem, running, v)))
      <4> SUFFICES ASSUME NEW v \in Terms
                   PROVE  (IF v = t THEN TextOn(w)
                           ELSE TextOf(cursors'[v].x, cursors'[v].y, PageKept(w.mem, running', v)))
                          = (IF v = u THEN TextOn(screen)
                             ELSE TextOf(cursors[v].x, cursors[v].y, PageKept(screen.mem, running, v)))
        OBVIOUS
      <4>1. CASE v = t
        BY <2>1, <2>9, <4>1
      <4>2. CASE v = u
        BY <2>1, <2>10, <4>2
      <4>3. CASE v \in Terms \ {t, u}
        BY <2>11, <4>3
      <4>4. QED
        BY <4>1, <4>2, <4>3
    <3>2. QED
      BY <3>1 DEF Texts
  <2>13. Text' = Text
    BY <1>1, <1>c, <2>1, <2>12 DEF u
  <2>14. cur_terminal' \in Terms \ {cur_terminal}
    BY <2>1 DEF u
  <2>15. QED
    BY <2>13, <2>14 DEF Promise!Next, Promise!Visit
<1>9. CASE Fault
  <2>1. cur_terminal' = cur_terminal /\ cursors' = cursors /\ screen' = screen
    BY <1>9 DEF Fault, Hidden
  <2>2. Text' = Text
    BY <2>1, TextIsPlain
  <2>3. QED
    BY <2>1, <2>2 DEF Promise!vars
<1>10. QED
  BY <1>2, <1>3, <1>4, <1>5, <1>6, <1>7, <1>8, <1>9 DEF Next

\* The screen implements TextScreen: until text passes the end of a row, what
\* lib.c, the keyboard handler and switch_terminal show is the text of each
\* terminal, added to, erased, ended and scrolled as TextScreen says.
THEOREM ShowsText == Spec => TextShown
<1>1. ASSUME Typed, Keeping, Tidying, Typed', Keeping', Tidying', [Next]_vars
      PROVE  [mess' > 0 \/ Promise!Next]_(Promise!vars)
  <2>1. CASE Next
    <3>1. mess' \in Nat
      BY <1>1, Sizes DEF Typed, TypeOK
    <3>2. mess' = 0 \/ mess' > 0
      BY <3>1
    <3>3. QED
      BY <1>1, <2>1, <3>2, PromiseStep
  <2>2. CASE UNCHANGED vars
    <3>1. cur_terminal' = cur_terminal /\ cursors' = cursors /\ screen' = screen
      BY <2>2 DEF vars
    <3>2. Text' = Text
      BY <3>1, TextIsPlain
    <3>3. QED
      BY <3>1, <3>2 DEF Promise!vars
  <2>3. QED
    BY <1>1, <2>1, <2>2
<1>2. QED
  BY <1>1, TypedInit, TypedStep, KeepingInit, KeepingStep, TidyingInit,
     TidyingStep, PromiseInit, PTL DEF Spec, TextShown

=============================================================================
