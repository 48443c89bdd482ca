--------------------------- MODULE Terminal_proofs ---------------------------
(***************************************************************************)
(* Theorems about Terminal, for every length of the line buffer, any       *)
(* terminals and any keys.                                                 *)
(***************************************************************************)
EXTENDS Terminal, TLAPS

-----------------------------------------------------------------------------
IndexTypes ==
  /\ cur_terminal \in Terms
  /\ inds \in [Terms -> Int]
  /\ kb_ind \in Int /\ read_ind \in Int

Above == IndexTypes /\ NotAbove

\* A handler that stores an index, or leaves it, within the buffer.
LEMMA Stored ==
  ASSUME Above, NEW i \in Int, i <= BufLen - 1, Store(i), Begin,
         read_ind' \in Int, read_ind' <= BufLen
  PROVE  Above'
  BY ConstantsAssumption DEF Above, IndexTypes, NotAbove, Store, Begin

LEMMA Left ==
  ASSUME Above, NEW i \in Int, i <= BufLen, Leave(i), Begin,
         read_ind' \in Int, read_ind' <= BufLen
  PROVE  Above'
  BY ConstantsAssumption DEF Above, IndexTypes, NotAbove, Leave, Begin

LEMMA AboveKey ==
  ASSUME Above, NEW k \in Keys, Key(k)
  PROVE  Above'
<1> USE ConstantsAssumption
<1>0. /\ Line \in Int /\ Line <= BufLen - 1 /\ Begin
      /\ read_ind \in Int /\ read_ind <= BufLen
  BY DEF Above, IndexTypes, NotAbove, Line, Key
<1>1. CASE CharKey(k)
  <2>1. CASE Full
    BY <1>0, <1>1, <2>1, Left DEF CharKey
  <2>2. CASE ~Full
    BY <1>0, <1>1, <2>2, Stored DEF CharKey, Full
  <2>3. QED
    BY <2>1, <2>2
<1>2. CASE ClearKey
  BY <1>0, <1>2, Stored DEF ClearKey
<1>3. CASE TabKey
  BY <1>0, <1>3, Stored, Left DEF TabKey
<1>4. CASE BackspaceKey
  <2>1. Erased \in Int /\ Erased <= BufLen - 1
    BY <1>0 DEF Erased
  <2>2. QED
    BY <1>0, <1>4, <2>1, Stored, Left DEF BackspaceKey
<1>5. CASE EnterKey
  <2>1. CASE EnterScrolls
    BY <1>0, <2>1, Left DEF EnterScrolls
  <2>2. CASE EnterStores
    BY <1>0, <2>2, Stored DEF EnterStores
  <2>3. QED
    BY <1>5, <2>1, <2>2 DEF EnterKey
<1>6. ASSUME kb_ind' = Line, UNCHANGED <<inds, read_ind>>
      PROVE  Above'
  BY <1>0, <1>6, Left DEF Leave
<1>7. CASE Toggle(k)
  BY <1>6, <1>7 DEF Toggle
<1>8. CASE CapsKey
  BY <1>6, <1>8 DEF CapsKey
<1>9. QED
  BY <1>1, <1>2, <1>3, <1>4, <1>5, <1>7, <1>8 DEF Key

LEMMA AboveStep == Above /\ [Next]_vars => Above'
<1> SUFFICES ASSUME Above, [Next]_vars PROVE Above'
  OBVIOUS
<1> USE ConstantsAssumption
<1>1. ASSUME NEW k \in Keys, Key(k) PROVE Above'
  BY <1>1, AboveKey
<1>2. ASSUME NEW t \in Terms, AltFn(t) PROVE Above'
  BY <1>2 DEF AltFn, Above, IndexTypes, NotAbove, Line
<1>3. CASE Write
  BY <1>3 DEF Write, Above, IndexTypes, NotAbove
<1>4. CASE ReadCall
  BY <1>4 DEF ReadCall, Above, IndexTypes, NotAbove
<1>5. CASE Reading
  BY <1>5 DEF Reading, ReadPass, ReadClear, ReadCopy, ReadReturn, keyboard,
              Above, IndexTypes, NotAbove
<1>6. CASE UNCHANGED vars
  BY <1>6 DEF vars, keyboard, Above, IndexTypes, NotAbove
<1>7. QED
  BY <1>1, <1>2, <1>3, <1>4, <1>5, <1>6 DEF Next

LEMMA AboveInit == Init => Above
  BY ConstantsAssumption DEF Init, Above, IndexTypes, NotAbove

\* The indexes never pass the end of the line buffer, however the user types
\* and whatever the programs do: the handler's test for a full buffer leaves
\* room for Enter (keyboard.c:215).
THEOREM NoOverrun == Spec => []NotAbove
<1>1. Above => NotAbove
  BY DEF Above
<1>2. QED
  BY <1>1, AboveInit, AboveStep, PTL DEF Spec

-----------------------------------------------------------------------------
\* Below the start they get by Backspace alone, which tests the Tab flag
\* instead of the index.  While the user waits for the prompt, the flag says
\* that a Tab is the last character of the line.
TabLast == tab => Line > 0 /\ Top.pc = "wait" /\ ~kb_flag

IInv == Above /\ InBuffer /\ TabLast

LEMMA InBufferInit == Init => IInv
  BY AboveInit, ConstantsAssumption DEF Init, IInv, InBuffer, Above, TabLast

LEMMA InBufferKey ==
  ASSUME Patient, IInv, NEW k \in Keys, Key(k)
  PROVE  InBuffer' /\ TabLast'
<1> USE ConstantsAssumption
<1>0. /\ Line \in Int /\ Line >= 0 /\ Line <= BufLen - 1 /\ Begin /\ Above'
      /\ inds \in [Terms -> Int] /\ cur_terminal \in Terms
      /\ Top.pc = "wait" /\ ~kb_flag /\ Top' = Top
  BY AboveKey DEF IInv, Above, IndexTypes, NotAbove, InBuffer, Line, Key,
                  Typing, Begin, Top
<1>s. ASSUME NEW i \in Int, i >= 0, Store(i) \/ Leave(i),
             read_ind' \in Int, read_ind' >= 0
      PROVE  InBuffer' /\ (Store(i) => Line' = i) /\ (Leave(i) => Line' = Line)
  BY <1>0, <1>s DEF IInv, Above, IndexTypes, InBuffer, Store, Leave, Begin, Line
<1>r. read_ind \in Int /\ read_ind >= 0
  BY DEF IInv, Above, IndexTypes, InBuffer
<1>1. CASE CharKey(k)
  BY <1>0, <1>r, <1>s, <1>1 DEF CharKey, TabLast
<1>2. CASE ClearKey
  BY <1>0, <1>r, <1>s, <1>2 DEF ClearKey, TabLast
<1>3. CASE TabKey
  <2>1. CASE Line + 1 >= BufLen - 1
    <3>1. Leave(Line + 1) /\ UNCHANGED <<read_ind, kb_flag>>
      BY <1>3, <2>1 DEF TabKey
    <3>2. InBuffer' /\ Line' = Line
      BY <1>0, <1>r, <1>s, <3>1
    <3>3. QED
      BY <1>0, <2>1, <3>1, <3>2 DEF TabLast
  <2>2. CASE ~(Line + 1 >= BufLen - 1)
    <3>1. Store(Line + 1) /\ UNCHANGED <<read_ind, kb_flag>>
      BY <1>3, <2>2 DEF TabKey
    <3>2. InBuffer' /\ Line' = Line + 1
      BY <1>0, <1>r, <1>s, <3>1
    <3>3. QED
      BY <1>0, <3>1, <3>2 DEF TabLast
  <2>3. QED
    BY <2>1, <2>2
<1>4. CASE BackspaceKey
  <2>1. Erased \in Int /\ Erased >= 0
    BY <1>0 DEF Erased, IInv, TabLast
  <2>2. (Store(Erased) \/ Leave(Erased)) /\ read_ind' = read_ind /\ ~tab'
    BY <1>4 DEF BackspaceKey
  <2>3. QED
    BY <1>r, <1>s, <2>1, <2>2 DEF TabLast
<1>5. CASE EnterKey
  <2>1. /\ Store(0) \/ Leave(0)
        /\ read_ind' \in {Line, Line + 1}
        /\ ~tab'
    BY <1>5 DEF EnterKey, EnterStores, EnterScrolls
  <2>2. read_ind' \in Int /\ read_ind' >= 0
    BY <1>0, <2>1
  <2>3. QED
    BY <1>s, <2>1, <2>2 DEF TabLast
<1>6. CASE Toggle(k)
  <2>1. Leave(Line) /\ UNCHANGED <<read_ind, kb_flag>>
    BY <1>6 DEF Toggle, Leave
  <2>2. InBuffer' /\ Line' = Line
    BY <1>0, <1>r, <1>s, <2>1
  <2>3. tab' => tab
    BY <1>6, Zenon DEF Toggle
  <2>4. QED
    BY <1>0, <2>1, <2>2, <2>3 DEF TabLast, IInv
<1>7. CASE CapsKey
  <2>1. Leave(Line) /\ UNCHANGED read_ind /\ ~tab'
    BY <1>7 DEF CapsKey, Leave
  <2>2. QED
    BY <1>0, <1>r, <1>s, <2>1 DEF TabLast
<1>8. QED
  BY <1>1, <1>2, <1>3, <1>4, <1>5, <1>6, <1>7 DEF Key

LEMMA InBufferStep ==
  ASSUME Patient
  PROVE  IInv /\ [Next]_vars => IInv'
<1> SUFFICES ASSUME IInv, [Next]_vars PROVE InBuffer' /\ TabLast'
  BY AboveStep DEF IInv
<1> USE ConstantsAssumption
<1>0. Above' /\ IndexTypes /\ InBuffer /\ TabLast
  BY AboveStep DEF IInv, Above
<1>1. ASSUME NEW k \in Keys, Key(k) PROVE InBuffer' /\ TabLast'
  BY <1>1, InBufferKey
<1>2. ASSUME NEW t \in Terms, AltFn(t) PROVE InBuffer' /\ TabLast'
  BY <1>0, <1>2 DEF AltFn, IndexTypes, InBuffer, NotAbove, TabLast, Line, Above
<1>3. CASE Write
  <2>1. ~tab
    BY <1>0, <1>3 DEF Write, TabLast
  <2>2. QED
    BY <1>0, <1>3, <2>1 DEF Write, IndexTypes, InBuffer, TabLast, Above
<1>4. CASE ReadCall
  <2>1. ~tab
    BY <1>0, <1>4 DEF ReadCall, TabLast
  <2>2. QED
    BY <1>0, <1>4, <2>1 DEF ReadCall, IndexTypes, InBuffer, TabLast, Above
<1>5. CASE Reading
  <2>1. ~tab
    BY <1>0, <1>5 DEF Reading, ReadPass, ReadClear, ReadCopy, ReadReturn, TabLast
  <2>2. QED
    BY <1>0, <1>5, <2>1 DEF Reading, ReadPass, ReadClear, ReadCopy, ReadReturn,
                            keyboard, InBuffer, NotAbove, TabLast
<1>6. CASE UNCHANGED vars
  BY <1>0, <1>6 DEF vars, keyboard, InBuffer, NotAbove, TabLast, Line, Top
<1>7. QED
  BY <1>1, <1>2, <1>3, <1>4, <1>5, <1>6 DEF Next

\* While the user types only when a program reads, the handler and the reader
\* stay in the buffer, on any number of terminals, although Backspace after a
\* Tab does not look at the index (keyboard.c:175).
THEOREM Indexed ==
  ASSUME Patient
  PROVE  Spec => []InBuffer
<1>1. IInv => InBuffer
  BY DEF IInv
<1>2. IInv /\ [Next]_vars => IInv'
  BY InBufferStep
<1>3. QED
  BY <1>1, <1>2, InBufferInit, PTL DEF Spec

-----------------------------------------------------------------------------
\* Types.
Lines == Seq(Chars \cup {"tab"})
Cells == Chars \cup {"tab", "enter", "nul"}

LEMMA PutType ==
  ASSUME TypeOK, NEW i \in Int, NEW c \in Chars \cup {"tab", "enter"}, Put(i, c)
  PROVE  buffers' \in [Terms -> [0 .. BufLen - 1 -> Cells]]
<1>1. /\ buffers \in [Terms -> [0 .. BufLen - 1 -> Cells]]
      /\ cur_terminal \in Terms /\ c \in Cells
  BY DEF TypeOK, Cells
<1>2. CASE i \in 0 .. BufLen - 1
  <2>1. buffers' = [buffers EXCEPT ![cur_terminal][i] = c]
    BY <1>2 DEF Put
  <2>2. [buffers[cur_terminal] EXCEPT ![i] = c] \in [0 .. BufLen - 1 -> Cells]
    BY <1>1
  <2>3. QED
    BY <1>1, <2>1, <2>2
<1>3. CASE i \notin 0 .. BufLen - 1
  BY <1>1, <1>3 DEF Put
<1>4. QED
  BY <1>2, <1>3

\* The characters of a key.
LEMMA CharType ==
  ASSUME NEW k \in {"a", "l", "1"}
  PROVE  Char(k) \in Chars
  BY DEF Char, Upper, Chars

LEMMA ShowType ==
  ASSUME TypeOK, NEW l \in Lines, Show(l)
  PROVE  typed' \in [Terms -> Lines] /\ entered' \in [Terms -> Seq(Lines)]
  BY DEF TypeOK, Show, Lines

\* What every key leaves alone, and what it does to the indexes.
LEMMA KeyTypes ==
  ASSUME TypeOK, NEW k \in Keys, Key(k)
  PROVE  TypeOK'
<1> USE ConstantsAssumption
<1>0. /\ Line \in Int /\ Seen \in Lines /\ cur_terminal \in Terms
      /\ cur_terminal' \in Terms /\ kb_buf' \in Terms
      /\ programs' \in Seq(Program) /\ programs' # <<>>
  BY DEF TypeOK, Key, Begin, Line, Seen, Lines
<1>s. ASSUME NEW i \in Int, Store(i) \/ Leave(i)
      PROVE  inds' \in [Terms -> Int] /\ kb_ind' \in Int
  BY <1>0, <1>s DEF TypeOK, Store, Leave
<1>k. ASSUME buffers' \in [Terms -> [0 .. BufLen - 1 -> Cells]],
             inds' \in [Terms -> Int], kb_ind' \in Int, read_ind' \in Int,
             kb_flag' \in BOOLEAN, caps' \in BOOLEAN, ctrl' \in BOOLEAN,
             tab' \in BOOLEAN, typed' \in [Terms -> Lines],
             entered' \in [Terms -> Seq(Lines)]
      PROVE  TypeOK'
  BY <1>0, <1>k DEF TypeOK, Lines, Cells
<1>t. /\ buffers \in [Terms -> [0 .. BufLen - 1 -> Cells]]
      /\ inds \in [Terms -> Int] /\ read_ind \in Int
      /\ kb_flag \in BOOLEAN /\ caps \in BOOLEAN /\ ctrl \in BOOLEAN
      /\ tab \in BOOLEAN /\ typed \in [Terms -> Lines]
      /\ entered \in [Terms -> Seq(Lines)]
  BY DEF TypeOK, Lines, Cells
<1>1. ASSUME k \in {"a", "l", "1"}, CharKey(k) PROVE TypeOK'
  <2>0. UNCHANGED <<read_ind, kb_flag, caps, ctrl>> /\ tab' = FALSE
    BY <1>1 DEF CharKey
  <2>1. CASE Full
    <3>1. Leave(Line) /\ UNCHANGED <<buffers, typed, entered>>
      BY <1>1, <2>1 DEF CharKey
    <3>2. QED
      BY <1>0, <1>s, <1>k, <1>t, <2>0, <3>1
  <2>2. CASE ~Full
    <3>1. Put(Line, Char(k)) /\ Store(Line + 1) /\ Show(Append(Seen, Char(k)))
      BY <1>1, <2>2 DEF CharKey
    <3>2. Char(k) \in Chars
      BY <1>1, CharType
    <3>3. Append(Seen, Char(k)) \in Lines /\ Line + 1 \in Int
      BY <1>0, <3>2 DEF Lines
    <3>4. buffers' \in [Terms -> [0 .. BufLen - 1 -> Cells]]
      BY <1>0, <3>1, <3>2, PutType
    <3>5. typed' \in [Terms -> Lines] /\ entered' \in [Terms -> Seq(Lines)]
      BY <3>1, <3>3, ShowType
    <3>6. QED
      BY <1>s, <1>k, <1>t, <2>0, <3>1, <3>3, <3>4, <3>5
  <2>3. QED
    BY <2>1, <2>2
<1>2. CASE ClearKey
  <2>1. /\ Put(0, Char("l")) /\ Store(0) /\ Show(<<>>)
        /\ kb_flag' = FALSE /\ tab' = FALSE /\ UNCHANGED <<read_ind, caps, ctrl>>
    BY <1>2 DEF ClearKey
  <2>2. Char("l") \in Chars /\ <<>> \in Lines /\ 0 \in Int
    BY CharType DEF Lines
  <2>3. buffers' \in [Terms -> [0 .. BufLen - 1 -> Cells]]
    BY <2>1, <2>2, PutType
  <2>4. typed' \in [Terms -> Lines] /\ entered' \in [Terms -> Seq(Lines)]
    BY <2>1, <2>2, ShowType
  <2>5. QED
    BY <1>s, <1>k, <1>t, <2>1, <2>2, <2>3, <2>4
<1>3. CASE TabKey
  <2>1. /\ Put(Line, "tab") /\ Show(Append(Seen, "tab")) /\ tab' = TRUE
        /\ Leave(Line + 1) \/ Store(Line + 1)
        /\ UNCHANGED <<read_ind, kb_flag, caps, ctrl>>
    BY <1>3 DEF TabKey
  <2>2. Append(Seen, "tab") \in Lines /\ Line + 1 \in Int
    BY <1>0 DEF Lines
  <2>3. buffers' \in [Terms -> [0 .. BufLen - 1 -> Cells]]
    BY <1>0, <2>1, PutType
  <2>4. typed' \in [Terms -> Lines] /\ entered' \in [Terms -> Seq(Lines)]
    BY <2>1, <2>2, ShowType
  <2>5. QED
    BY <1>s, <1>k, <1>t, <2>1, <2>2, <2>3, <2>4
<1>4. CASE BackspaceKey
  <2>1. /\ Leave(Erased) \/ Store(Erased)
        /\ Show(IF Seen = <<>> THEN <<>> ELSE SubSeq(Seen, 1, Len(Seen) - 1))
        /\ tab' = FALSE /\ UNCHANGED <<buffers, read_ind, kb_flag, caps, ctrl>>
    BY <1>4 DEF BackspaceKey
  <2>2. Erased \in Int
    BY <1>0 DEF Erased
  <2>3. (IF Seen = <<>> THEN <<>> ELSE SubSeq(Seen, 1, Len(Seen) - 1)) \in Lines
    BY <1>0 DEF Lines
  <2>4. typed' \in [Terms -> Lines] /\ entered' \in [Terms -> Seq(Lines)]
    BY <2>1, <2>3, ShowType
  <2>5. QED
    BY <1>s, <1>k, <1>t, <2>1, <2>2, <2>4
<1>5. CASE EnterKey
  <2>1. /\ kb_flag' = TRUE /\ tab' = FALSE /\ UNCHANGED <<caps, ctrl>>
        /\ entered' = [entered EXCEPT ![cur_terminal] = <<Seen>>]
        /\ typed' = [typed EXCEPT ![cur_terminal] = <<>>]
        /\ EnterScrolls \/ EnterStores
    BY <1>5 DEF EnterKey
  <2>2. <<Seen>> \in Seq(Lines) /\ <<>> \in Lines
    BY <1>0 DEF Lines
  <2>3. typed' \in [Terms -> Lines] /\ entered' \in [Terms -> Seq(Lines)]
    BY <1>t, <2>1, <2>2
  <2>f. /\ kb_flag' \in BOOLEAN /\ tab' \in BOOLEAN
        /\ caps' \in BOOLEAN /\ ctrl' \in BOOLEAN
    BY <1>t, <2>1
  <2>4. CASE EnterScrolls
    <3>1. Leave(0) /\ read_ind' = Line /\ UNCHANGED buffers
      BY <2>4 DEF EnterScrolls
    <3>2. inds' \in [Terms -> Int] /\ kb_ind' \in Int /\ read_ind' \in Int
      BY <1>0, <1>s, <3>1
    <3>3. buffers' \in [Terms -> [0 .. BufLen - 1 -> Cells]]
      BY <1>t, <3>1
    <3>4. QED
      BY <1>k, <2>3, <2>f, <3>2, <3>3
  <2>5. CASE EnterStores
    <3>1. Put(Line, "enter") /\ Store(0) /\ read_ind' = Line + 1
      BY <2>5 DEF EnterStores
    <3>2. buffers' \in [Terms -> [0 .. BufLen - 1 -> Cells]]
      BY <1>0, <3>1, PutType
    <3>3. inds' \in [Terms -> Int] /\ kb_ind' \in Int /\ read_ind' \in Int
      BY <1>0, <1>s, <3>1
    <3>4. QED
      BY <1>k, <2>3, <2>f, <3>2, <3>3
  <2>6. QED
    BY <2>1, <2>4, <2>5
<1>6. CASE Toggle(k)
  <2>1. caps' \in BOOLEAN /\ ctrl' \in BOOLEAN /\ tab' \in BOOLEAN
    BY <1>t, <1>6, Zenon DEF Toggle
  <2>2. QED
    BY <1>0, <1>k, <1>t, <1>6, <2>1 DEF Toggle
<1>7. CASE CapsKey
  <2>1. caps' \in BOOLEAN /\ tab' \in BOOLEAN
    BY <1>t, <1>7, Zenon DEF CapsKey
  <2>2. QED
    BY <1>0, <1>k, <1>t, <1>7, <2>1 DEF CapsKey
<1>8. QED
  BY <1>1, <1>2, <1>3, <1>4, <1>5, <1>6, <1>7 DEF Key

LEMMA TypeInit == Init => TypeOK
<1> SUFFICES ASSUME Init PROVE TypeOK
  OBVIOUS
<1>1. <<>> \in Lines /\ <<>> \in Seq(Lines) /\ 0 \in Terms
      /\ <<>> \in Seq(Chars \cup {"tab", "enter", "nul"})
  BY ConstantsAssumption DEF Lines
<1>2. Fresh(0) \in Program
  BY <1>1 DEF Fresh, Program
<1>3. programs \in Seq(Program) /\ programs # <<>>
  BY <1>2 DEF Init
<1>4. /\ typed \in [Terms -> Seq(Chars \cup {"tab"})]
      /\ entered \in [Terms -> Seq(Seq(Chars \cup {"tab"}))]
  BY <1>1 DEF Init, Lines
<1>5. /\ buffers \in [Terms -> [0 .. BufLen - 1 -> Cells]]
      /\ inds \in [Terms -> Int] /\ kb_ind \in Int /\ read_ind \in Int
  BY DEF Init, Cells
<1>6. /\ kb_flag \in BOOLEAN /\ caps \in BOOLEAN /\ ctrl \in BOOLEAN
      /\ tab \in BOOLEAN /\ cur_terminal \in Terms /\ kb_buf \in Terms
  BY <1>1 DEF Init
<1>7. QED
  BY <1>3, <1>4, <1>5, <1>6 DEF TypeOK, Cells

LEMMA TypeStep == TypeOK /\ [Next]_vars => TypeOK'
<1> SUFFICES ASSUME TypeOK, [Next]_vars PROVE TypeOK'
  OBVIOUS
<1> USE ConstantsAssumption
<1>0. /\ Top \in Program /\ Len(programs) \in 1 .. Len(programs)
      /\ programs \in Seq(Program)
  BY DEF TypeOK, Top
<1>p. ASSUME NEW p \in Program, SetTop(p)
      PROVE  programs' \in Seq(Program) /\ programs' # <<>>
  BY <1>0, <1>p DEF SetTop
<1>g. ASSUME NEW pc \in {"user", "prompted", "wait", "clear", "copy"}, GoOn(pc)
      PROVE  programs' \in Seq(Program) /\ programs' # <<>>
  <2>1. [Top EXCEPT !.pc = pc] \in Program
    BY <1>0 DEF Program
  <2>2. QED
    BY <1>g, <1>p, <2>1 DEF GoOn
<1>1. ASSUME NEW k \in Keys, Key(k) PROVE TypeOK'
  BY <1>1, KeyTypes
<1>2. ASSUME NEW t \in Terms, AltFn(t) PROVE TypeOK'
  <2>1. Fresh(t) \in Program
    <3>1. <<>> \in Seq(Chars \cup {"tab", "enter", "nul"})
      OBVIOUS
    <3>2. QED
      BY <3>1 DEF Fresh, Program
  <2>2. programs' \in Seq(Program) /\ programs' # <<>>
    <3>1. programs' \in {programs, Append(programs, Fresh(t))}
      BY <1>2 DEF AltFn
    <3>2. Append(programs, Fresh(t)) \in Seq(Program) \ {<<>>}
      BY <1>0, <2>1
    <3>3. QED
      BY <3>1, <3>2 DEF TypeOK
  <2>3. kb_ind' \in Int
    BY <1>2 DEF AltFn, TypeOK, Line
  <2>4. QED
    BY <1>2, <2>2, <2>3 DEF AltFn, TypeOK
<1>3. CASE Write
  <2>1. programs' \in Seq(Program) /\ programs' # <<>>
    BY <1>3, <1>g DEF Write
  <2>2. inds' \in [Terms -> Int] /\ kb_ind' \in Int
    BY <1>3 DEF Write, TypeOK
  <2>3. QED
    BY <1>3, <2>1, <2>2 DEF Write, TypeOK
<1>4. CASE ReadCall
  <2>1. [Top EXCEPT !.pc = "wait", !.got = <<>>] \in Program
    <3>1. <<>> \in Seq(Chars \cup {"tab", "enter", "nul"})
      OBVIOUS
    <3>2. QED
      BY <1>0, <3>1 DEF Program
  <2>2. programs' \in Seq(Program) /\ programs' # <<>>
    BY <1>4, <1>p, <2>1 DEF ReadCall
  <2>3. QED
    BY <1>4, <2>2 DEF ReadCall, TypeOK
<1>5. CASE ReadPass
  BY <1>5, <1>g DEF ReadPass, TypeOK, keyboard
<1>6. CASE ReadClear
  BY <1>6, <1>g DEF ReadClear, TypeOK, keyboard
<1>7. CASE ReadCopy
  <2>1. Len(Top.got) \in 0 .. BufLen - 1
    BY <1>0, <1>7 DEF ReadCopy, More, Program
  <2>2. buffers[kb_buf][Len(Top.got)] \in Cells
    BY <2>1 DEF TypeOK, Cells
  <2>3. Append(Top.got, buffers[kb_buf][Len(Top.got)])
          \in Seq(Chars \cup {"tab", "enter", "nul"})
    BY <1>0, <2>2 DEF Program, Cells
  <2>4. [Top EXCEPT !.got = Append(@, buffers[kb_buf][Len(@)])] \in Program
    BY <1>0, <2>3 DEF Program
  <2>5. programs' \in Seq(Program) /\ programs' # <<>>
    BY <1>7, <1>p, <2>4 DEF ReadCopy
  <2>6. QED
    BY <1>7, <2>5 DEF ReadCopy, TypeOK, keyboard
<1>8. CASE ReadReturn
  <2>1. entered' \in [Terms -> Seq(Seq(Chars \cup {"tab"}))]
    <3>1. <<>> \in Seq(Seq(Chars \cup {"tab"}))
      OBVIOUS
    <3>2. entered' = [entered EXCEPT ![cur_terminal] = <<>>]
      BY <1>8 DEF ReadReturn
    <3>3. entered \in [Terms -> Seq(Seq(Chars \cup {"tab"}))]
      BY DEF TypeOK
    <3>4. QED
      BY <3>1, <3>2, <3>3
  <2>2. programs' \in Seq(Program) /\ programs' # <<>>
    BY <1>8, <1>g DEF ReadReturn
  <2>3. QED
    BY <1>8, <2>1, <2>2 DEF ReadReturn, TypeOK, keyboard
<1>9. CASE UNCHANGED vars
  BY <1>9 DEF vars, keyboard, TypeOK
<1>10. QED
  BY <1>1, <1>2, <1>3, <1>4, <1>5, <1>6, <1>7, <1>8, <1>9 DEF Next, Reading

\* TypeOK is invariant, whatever the user types and when: what is in a line
\* buffer, a line or a read is a character, even when an index is not one of
\* the buffer.
THEOREM Typed == Spec => []TypeOK
  BY TypeInit, TypeStep, PTL DEF Spec

-----------------------------------------------------------------------------
(***************************************************************************)
(* What is read is what was typed: a user who types while a program reads  *)
(* and has room for a Tab, and programs that write before they read.  The  *)
(* line of every terminal that is not displayed, and of the displayed one  *)
(* while its program waits, is the line the user has typed there.  Once    *)
(* Enter is pressed nothing moves until the program has copied it.         *)
(***************************************************************************)
Careful == Patient /\ Roomy /\ Prompts

\* The buffer of terminal t begins with s.
Holds(t, s) == \A i \in 1 .. Len(s) : buffers[t][i - 1] = s[i]
Match(t) == inds[t] = Len(typed[t]) /\ Holds(t, typed[t])

Visited(t) == \E n \in 1 .. Len(programs) : programs[n].home = t
Awaits == Top.pc = "wait" /\ ~kb_flag
Ended == Top.pc \in {"clear", "copy"} \/ (Top.pc = "wait" /\ kb_flag)

\* The line s has been entered, and read_ind may count a newline after it.
EnteredLine(s) ==
  /\ entered[cur_terminal] = <<s>>
  /\ kb_buf = cur_terminal
  /\ Holds(cur_terminal, s)
  /\ \/ read_ind = Len(s)
     \/ read_ind = Len(s) + 1 /\ buffers[cur_terminal][Len(s)] = "enter"

\* The program that runs, and the terminals.
Phased ==
  /\ kb_flag => Top.pc \in {"wait", "clear"}
  /\ Top.pc \in {"wait", "clear"} => Top.got = <<>>
  /\ Visited(cur_terminal)
  /\ \A t \in Terms : ~Visited(t) => typed[t] = <<>>

\* The lines, before Enter ...
Matched ==
  /\ \A t \in Terms \ {cur_terminal} : Match(t)
  /\ Awaits => Match(cur_terminal)
  /\ ~Awaits => Seen = <<>>
  /\ Top.pc = "prompted" => Line = 0

\* ... and after it.
Copied ==
  /\ Ended => \E s \in Lines : EnteredLine(s)
  /\ Top.pc = "copy" =>
       Len(Top.got) <= read_ind /\ Holds(kb_buf, Top.got)

Discipline == TypeOK /\ IInv /\ Phased /\ Matched /\ Copied

\* A step of the running program changes no program's terminal.
LEMMA TopSet ==
  ASSUME TypeOK, NEW p \in Program, p.home = Top.home, SetTop(p)
  PROVE  Top' = p /\ \A t : Visited(t)' <=> Visited(t)
<1>1. /\ programs \in Seq(Program) /\ Len(programs) \in Nat
      /\ Len(programs) \in 1 .. Len(programs)
  BY DEF TypeOK
<1>2. /\ Len(programs') = Len(programs)
      /\ programs'[Len(programs)] = p
      /\ \A n \in 1 .. Len(programs) :
           n # Len(programs) => programs'[n] = programs[n]
  BY <1>1 DEF SetTop
<1>3. \A n \in 1 .. Len(programs) : programs'[n].home = programs[n].home
  BY <1>1, <1>2 DEF Top
<1>4. \A t : Visited(t)' <=> Visited(t)
  BY <1>2, <1>3 DEF Visited
<1>5. QED
  BY <1>2, <1>4 DEF Top

LEMMA TopTyped ==
  ASSUME TypeOK
  PROVE  /\ Top \in Program /\ Top.home \in Terms
         /\ Top.got \in Seq(Cells) /\ Len(Top.got) \in Nat
<1>1. Top \in Program
  BY DEF TypeOK, Top
<1>2. Top.home \in Terms /\ Top.got \in Seq(Cells)
  BY <1>1 DEF Program, Cells
<1>3. QED
  BY <1>1, <1>2

LEMMA WentOn ==
  ASSUME TypeOK, NEW pc \in {"user", "prompted", "wait", "clear", "copy"},
         GoOn(pc)
  PROVE  /\ Top'.pc = pc /\ Top'.got = Top.got /\ Top'.home = Top.home
         /\ \A t : Visited(t)' <=> Visited(t)
<1> DEFINE p == [Top EXCEPT !.pc = pc]
<1>1. /\ p \in Program /\ p.home = Top.home /\ p.pc = pc /\ p.got = Top.got
  BY TopTyped DEF Program
<1>2. SetTop(p)
  BY DEF GoOn
<1> HIDE DEF p
<1>3. QED
  BY <1>1, <1>2, TopSet

\* A key changes one cell of the buffer of the displayed terminal.
LEMMA PutCell ==
  ASSUME TypeOK, NEW i \in 0 .. BufLen - 1, NEW c, Put(i, c)
  PROVE  /\ buffers'[cur_terminal][i] = c
         /\ \A j \in 0 .. BufLen - 1 :
              j # i => buffers'[cur_terminal][j] = buffers[cur_terminal][j]
         /\ \A t \in Terms \ {cur_terminal} : buffers'[t] = buffers[t]
<1>1. buffers' = [buffers EXCEPT ![cur_terminal][i] = c]
  BY DEF Put
<1>2. /\ buffers \in [Terms -> [0 .. BufLen - 1 -> Cells]]
      /\ cur_terminal \in Terms
  BY DEF TypeOK, Cells
<1>3. buffers'[cur_terminal] = [buffers[cur_terminal] EXCEPT ![i] = c]
  BY <1>1, <1>2
<1>4. QED
  BY <1>1, <1>2, <1>3

\* What a key finds.
LEMMA KeyFinds ==
  ASSUME Patient, Discipline, Typing
  PROVE  /\ Awaits /\ Match(cur_terminal)
         /\ Line \in Nat /\ Line <= BufLen - 1 /\ BufLen \in Nat
         /\ Seen \in Lines /\ Len(Seen) = Line
         /\ cur_terminal \in Terms
<1>1. Awaits /\ Match(cur_terminal) /\ cur_terminal \in Terms
  BY DEF Discipline, Typing, Awaits, Matched, TypeOK
<1>2. Line \in Nat /\ Line <= BufLen - 1
  BY <1>1 DEF Discipline, TypeOK, IInv, InBuffer, NotAbove, Line
<1>3. QED
  BY <1>1, <1>2, ConstantsAssumption
  DEF Discipline, TypeOK, Lines, Seen, Match, Line

\* A key that edits the line of the displayed terminal, which becomes s.
Edits(s) ==
  /\ Begin
  /\ kb_flag' = FALSE
  /\ inds'[cur_terminal] = Len(s)
  /\ typed'[cur_terminal] = s
  /\ \A i \in 1 .. Len(s) : buffers'[cur_terminal][i - 1] = s[i]
  /\ \A t \in Terms \ {cur_terminal} :
       /\ inds'[t] = inds[t]
       /\ typed'[t] = typed[t]
       /\ buffers'[t] = buffers[t]

LEMMA Edited ==
  ASSUME Patient, Discipline, Typing, NEW s, Edits(s)
  PROVE  Phased' /\ Matched' /\ Copied'
<1>1. /\ Awaits /\ cur_terminal' = cur_terminal /\ programs' = programs
      /\ Top' = Top /\ ~kb_flag' /\ Top.pc = "wait" /\ Awaits'
  BY KeyFinds DEF Edits, Begin, Top, Awaits
<1>2. \A t : Visited(t)' <=> Visited(t)
  BY <1>1 DEF Visited
<1>3. Match(cur_terminal)'
  BY <1>1 DEF Match, Holds, Edits
<1>4. \A t \in Terms \ {cur_terminal} : Match(t)'
  BY <1>1 DEF Match, Holds, Edits, Discipline, Matched
<1>5. Phased'
  <2>1. Visited(cur_terminal)'
    BY <1>1, <1>2 DEF Discipline, Phased
  <2>2. ASSUME NEW t \in Terms, ~Visited(t)' PROVE typed'[t] = <<>>
    <3>1. ~Visited(t) /\ t # cur_terminal
      BY <1>2, <2>2 DEF Discipline, Phased
    <3>2. QED
      BY <3>1 DEF Edits, Discipline, Phased
  <2>3. QED
    BY <1>1, <2>1, <2>2 DEF Discipline, Phased
<1>6. Matched'
  BY <1>1, <1>3, <1>4 DEF Matched
<1>7. QED
  BY <1>1, <1>5, <1>6 DEF Copied, Ended

\* The line stays as it is.
LEMMA Untouched ==
  ASSUME Patient, Discipline, Typing, Begin, inds' = inds, typed' = typed,
         buffers' = buffers, kb_flag' = kb_flag
  PROVE  Phased' /\ Matched' /\ Copied'
<1>1. Edits(Seen)
  BY KeyFinds DEF Edits, Match, Holds, Seen, Awaits
<1>2. QED
  BY <1>1, Edited

\* One character more.
LEMMA Appended ==
  ASSUME Patient, Discipline, Typing, Begin, Line < BufLen - 1,
         NEW c, Put(Line, c), Store(Line + 1), Show(Append(Seen, c)),
         kb_flag' = kb_flag
  PROVE  Phased' /\ Matched' /\ Copied'
<1>0. /\ Line \in Nat /\ Line \in 0 .. BufLen - 1 /\ BufLen \in Nat
      /\ Len(Seen) = Line /\ Holds(cur_terminal, Seen) /\ ~kb_flag
      /\ TypeOK /\ cur_terminal \in Terms /\ Seen \in Lines
  <2>1. /\ Line \in Nat /\ BufLen \in Nat /\ Len(Seen) = Line
        /\ cur_terminal \in Terms /\ Seen \in Lines
        /\ Awaits /\ Match(cur_terminal)
    BY KeyFinds
  <2>2. Line \in 0 .. BufLen - 1
    BY <2>1
  <2>3. QED
    BY <2>1, <2>2 DEF Match, Awaits, Discipline, Seen
<1> DEFINE s == Append(Seen, c)
<1>1. /\ Len(s) = Line + 1
      /\ \A i \in 1 .. Line : s[i] = Seen[i]
      /\ s[Line + 1] = c
  BY <1>0 DEF Lines
<1> HIDE DEF s
<1>2. /\ inds' = [inds EXCEPT ![cur_terminal] = Line + 1]
      /\ typed' = [typed EXCEPT ![cur_terminal] = s]
  BY DEF Store, Show, s
<1>3. /\ inds'[cur_terminal] = Line + 1 /\ typed'[cur_terminal] = s
      /\ \A t \in Terms \ {cur_terminal} :
           inds'[t] = inds[t] /\ typed'[t] = typed[t]
  BY <1>0, <1>2 DEF TypeOK
<1>4. /\ buffers'[cur_terminal][Line] = c
      /\ \A j \in 0 .. BufLen - 1 :
           j # Line => buffers'[cur_terminal][j] = buffers[cur_terminal][j]
      /\ \A t \in Terms \ {cur_terminal} : buffers'[t] = buffers[t]
  BY <1>0, PutCell
<1>5. ASSUME NEW i \in 1 .. Len(s)
      PROVE  buffers'[cur_terminal][i - 1] = s[i]
  <2>1. CASE i = Line + 1
    BY <1>0, <1>1, <1>4, <2>1
  <2>2. CASE i \in 1 .. Line
    <3>1. i - 1 \in 0 .. BufLen - 1 /\ i - 1 # Line
      BY <1>0, <2>2
    <3>2. buffers[cur_terminal][i - 1] = Seen[i]
      BY <1>0, <2>2 DEF Holds
    <3>3. QED
      BY <1>1, <1>4, <2>2, <3>1, <3>2
  <2>3. QED
    BY <1>0, <1>1, <2>1, <2>2
<1>6. Edits(s)
  BY <1>0, <1>1, <1>3, <1>4, <1>5 DEF Edits
<1>7. QED
  BY <1>6, Edited

\* Enter ends the line of the displayed terminal, and nothing is typed before
\* the program has read it.
LEMMA EnterKept ==
  ASSUME Patient, Discipline, Typing, Begin, EnterKey
  PROVE  Phased' /\ Matched' /\ Copied'
<1>0. PICK s \in Lines : s = Seen
  BY KeyFinds
<1>1. /\ Line \in Nat /\ Line \in 0 .. BufLen - 1 /\ BufLen \in Nat
      /\ Len(s) = Line /\ Holds(cur_terminal, s)
      /\ TypeOK /\ cur_terminal \in Terms
      /\ Top.pc = "wait" /\ Top.got = <<>>
  <2>1. /\ Line \in Nat /\ BufLen \in Nat /\ Len(Seen) = Line
        /\ Line <= BufLen - 1
        /\ cur_terminal \in Terms
        /\ Awaits /\ Match(cur_terminal)
    BY KeyFinds
  <2>2. Line \in 0 .. BufLen - 1
    BY <2>1
  <2>3. QED
    BY <1>0, <2>1, <2>2 DEF Match, Awaits, Discipline, Seen, Phased
<1>2. /\ cur_terminal' = cur_terminal /\ programs' = programs /\ Top' = Top
      /\ kb_buf' = cur_terminal /\ kb_flag' = TRUE
      /\ \A t : Visited(t)' <=> Visited(t)
  BY DEF Begin, EnterKey, Top, Visited
<1>3. /\ entered'[cur_terminal] = <<s>>
      /\ typed'[cur_terminal] = <<>>
      /\ \A t \in Terms \ {cur_terminal} : typed'[t] = typed[t]
  BY <1>0, <1>1 DEF EnterKey, TypeOK
<1>4. \A t \in Terms \ {cur_terminal} :
        inds'[t] = inds[t] /\ buffers'[t] = buffers[t]
  <2>1. CASE EnterScrolls
    BY <2>1 DEF EnterScrolls, Leave
  <2>2. CASE EnterStores
    BY <1>1, <2>2, PutCell DEF EnterStores, Store, TypeOK
  <2>3. QED
    BY <2>1, <2>2 DEF EnterKey
<1>5. EnteredLine(s)'
  <2>1. CASE EnterScrolls
    BY <1>1, <1>2, <1>3, <2>1 DEF EnterScrolls, EnteredLine, Holds
  <2>2. CASE EnterStores
    <3>1. /\ read_ind' = Line + 1
          /\ buffers'[cur_terminal][Line] = "enter"
          /\ \A j \in 0 .. BufLen - 1 :
               j # Line =>
                 buffers'[cur_terminal][j] = buffers[cur_terminal][j]
      BY <1>1, <2>2, PutCell DEF EnterStores
    <3>2. ASSUME NEW i \in 1 .. Len(s)
          PROVE  buffers'[cur_terminal][i - 1] = s[i]
      <4>1. i - 1 \in 0 .. BufLen - 1 /\ i - 1 # Line
        BY <1>1
      <4>2. QED
        BY <3>1, <4>1, <1>1 DEF Holds
    <3>3. QED
      BY <1>1, <1>2, <1>3, <3>1, <3>2 DEF EnteredLine, Holds
  <2>3. QED
    BY <2>1, <2>2 DEF EnterKey
<1>6. Phased'
  <2>1. Visited(cur_terminal)'
    BY <1>2 DEF Discipline, Phased
  <2>2. ASSUME NEW t \in Terms, ~Visited(t)' PROVE typed'[t] = <<>>
    BY <1>2, <1>3, <2>2 DEF Discipline, Phased
  <2>3. QED
    BY <1>1, <1>2, <2>1, <2>2 DEF Phased
<1>7. Matched'
  <2>1. \A t \in Terms \ {cur_terminal} : Match(t)'
    BY <1>3, <1>4 DEF Match, Holds, Discipline, Matched
  <2>2. ~Awaits'
    BY <1>2 DEF Awaits
  <2>3. QED
    BY <1>1, <1>2, <1>3, <2>1, <2>2 DEF Matched, Seen
<1>8. Copied'
  BY <1>1, <1>2, <1>5 DEF Copied
<1>9. QED
  BY <1>6, <1>7, <1>8

LEMMA KeyKept ==
  ASSUME Careful, Discipline, NEW k \in Keys, Key(k)
  PROVE  Phased' /\ Matched' /\ Copied'
<1>0. /\ Patient /\ Roomy /\ Typing /\ Begin
      /\ Line \in Nat /\ Line <= BufLen - 1 /\ BufLen \in Nat /\ BufLen > 2
      /\ Len(Seen) = Line /\ Seen \in Lines /\ ~kb_flag
      /\ cur_terminal \in Terms /\ TypeOK
  BY KeyFinds, ConstantsAssumption DEF Careful, Key, Awaits, Discipline
<1>1. CASE CharKey(k)
  <2>1. CASE Full
    BY <1>0, <1>1, <2>1, Untouched DEF CharKey, Leave
  <2>2. CASE ~Full
    <3>1. Line < BufLen - 1
      BY <1>0, <2>2 DEF Full
    <3>2. /\ Put(Line, Char(k)) /\ Store(Line + 1)
          /\ Show(Append(Seen, Char(k))) /\ kb_flag' = kb_flag
      BY <1>1, <2>2 DEF CharKey
    <3>3. QED
      BY <1>0, <3>1, <3>2, Appended
  <2>3. QED
    BY <2>1, <2>2
<1>2. CASE ClearKey
  <2>1. 0 \in 0 .. BufLen - 1
    BY <1>0
  <2>2. \A t \in Terms \ {cur_terminal} : buffers'[t] = buffers[t]
    BY <1>0, <1>2, <2>1, PutCell DEF ClearKey
  <2>3. /\ inds'[cur_terminal] = 0 /\ typed'[cur_terminal] = <<>>
        /\ \A t \in Terms \ {cur_terminal} :
             inds'[t] = inds[t] /\ typed'[t] = typed[t]
    BY <1>0, <1>2 DEF ClearKey, Store, Show, TypeOK
  <2>4. Edits(<<>>)
    BY <1>0, <1>2, <2>2, <2>3 DEF ClearKey, Edits
  <2>5. QED
    BY <1>0, <2>4, Edited
<1>3. CASE TabKey
  <2>1. Line < BufLen - 1 /\ ~(Line + 1 >= BufLen - 1)
    BY <1>0, <1>3 DEF TabKey
  <2>2. /\ Put(Line, "tab") /\ Store(Line + 1) /\ Show(Append(Seen, "tab"))
        /\ kb_flag' = kb_flag
    BY <1>3, <2>1 DEF TabKey
  <2>3. QED
    BY <1>0, <2>1, <2>2, Appended
<1>4. CASE BackspaceKey
  <2>1. CASE Line = 0
    <3>1. Seen = <<>> /\ Erased = 0
      BY <1>0, <2>1 DEF Erased, Discipline, IInv, TabLast, Lines
    <3>2. Store(0) /\ Show(<<>>) /\ buffers' = buffers /\ kb_flag' = kb_flag
      BY <1>0, <1>4, <3>1 DEF BackspaceKey
    <3>3. /\ inds'[cur_terminal] = 0 /\ typed'[cur_terminal] = <<>>
          /\ \A t \in Terms \ {cur_terminal} :
               inds'[t] = inds[t] /\ typed'[t] = typed[t]
      BY <1>0, <3>2 DEF Store, Show, TypeOK
    <3>4. Edits(<<>>)
      BY <1>0, <3>2, <3>3 DEF Edits
    <3>5. QED
      BY <1>0, <3>4, Edited
  <2>2. CASE Line # 0
    <3> DEFINE s == SubSeq(Seen, 1, Len(Seen) - 1)
    <3>1. Seen # <<>> /\ Erased = Line - 1 /\ ~(Erased >= BufLen - 1)
      BY <1>0, <2>2 DEF Erased
    <3>2. /\ Store(Line - 1) /\ Show(s) /\ buffers' = buffers
          /\ kb_flag' = kb_flag
      BY <1>4, <3>1 DEF BackspaceKey
    <3>3. /\ Len(s) = Line - 1
          /\ \A i \in 1 .. Len(s) : s[i] = Seen[i] /\ i \in 1 .. Len(Seen)
      BY <1>0, <2>2 DEF Lines
    <3> HIDE DEF s
    <3>4. /\ inds'[cur_terminal] = Len(s) /\ typed'[cur_terminal] = s
          /\ \A t \in Terms \ {cur_terminal} :
               inds'[t] = inds[t] /\ typed'[t] = typed[t]
      BY <1>0, <3>2, <3>3 DEF Store, Show, TypeOK
    <3>5. \A i \in 1 .. Len(s) : buffers'[cur_terminal][i - 1] = s[i]
      BY <1>0, <3>2, <3>3, KeyFinds DEF Match, Holds, Seen
    <3>6. Edits(s)
      BY <1>0, <3>2, <3>4, <3>5 DEF Edits
    <3>7. QED
      BY <1>0, <3>6, Edited
  <2>3. QED
    BY <2>1, <2>2
<1>5. CASE EnterKey
  BY <1>0, <1>5, EnterKept
<1>6. CASE Toggle(k)
  BY <1>0, <1>6, Untouched DEF Toggle
<1>7. CASE CapsKey
  BY <1>0, <1>7, Untouched DEF CapsKey
<1>8. QED
  BY <1>1, <1>2, <1>3, <1>4, <1>5, <1>6, <1>7 DEF Key

\* The line of the terminal that is left waits there; the terminal that comes
\* has one that waits, or nobody has typed there.
LEMMA AltFnKept ==
  ASSUME Careful, Discipline, NEW t \in Terms, AltFn(t)
  PROVE  Phased' /\ Matched' /\ Copied'
<1>0. /\ Patient /\ Typing /\ TypeOK /\ t # cur_terminal
      /\ cur_terminal' = t /\ kb_flag' = kb_flag
      /\ typed' = typed /\ inds' = inds /\ buffers' = buffers
  BY DEF Careful, AltFn, Discipline
<1>1. Awaits /\ \A u \in Terms : Match(u)
  BY <1>0, KeyFinds DEF Discipline, Matched
<1>2. \A u \in Terms : Match(u)'
  BY <1>0, <1>1 DEF Match, Holds
<1>3. CASE Visited(t)
  <2>1. programs' = programs /\ Top' = Top
    BY <1>3 DEF AltFn, Visited, Top
  <2>2. \A u : Visited(u)' <=> Visited(u)
    BY <2>1 DEF Visited
  <2>3. Phased'
    <3>1. Visited(cur_terminal)'
      BY <1>0, <1>3, <2>2
    <3>2. QED
      BY <1>0, <2>1, <2>2, <3>1 DEF Discipline, Phased
  <2>4. Awaits' /\ ~Ended'
    BY <1>0, <1>1, <2>1 DEF Awaits, Ended
  <2>5. QED
    BY <1>0, <1>1, <1>2, <2>1, <2>3, <2>4 DEF Matched, Copied, Awaits
<1>4. CASE ~Visited(t)
  <2>1. programs' = Append(programs, Fresh(t))
    BY <1>4 DEF AltFn, Visited
  <2>2. /\ Len(programs') = Len(programs) + 1 /\ Len(programs) \in Nat
        /\ \A n \in 1 .. Len(programs) : programs'[n] = programs[n]
        /\ programs'[Len(programs) + 1] = Fresh(t)
    <3>1. programs \in Seq(Program)
      BY <1>0 DEF TypeOK
    <3> DEFINE f == Fresh(t)
    <3>2. programs' = Append(programs, f)
      BY <2>1
    <3> HIDE DEF f
    <3>3. /\ Len(programs') = Len(programs) + 1 /\ Len(programs) \in Nat
          /\ \A n \in 1 .. Len(programs) : programs'[n] = programs[n]
          /\ programs'[Len(programs) + 1] = f
      BY <3>1, <3>2
    <3>4. QED
      BY <3>3 DEF f
  <2>3. Top'.pc = "user"
    BY <2>2 DEF Top, Fresh
  <2>4. Visited(t)' /\ \A u : Visited(u) => Visited(u)'
    <3>1. Len(programs) + 1 \in 1 .. Len(programs')
      BY <2>2
    <3>2. Visited(t)'
      BY <2>2, <3>1 DEF Visited, Fresh
    <3>3. \A n \in 1 .. Len(programs) : n \in 1 .. Len(programs')
      BY <2>2
    <3>4. \A u : Visited(u) => Visited(u)'
      BY <2>2, <3>3 DEF Visited
    <3>5. QED
      BY <3>2, <3>4
  <2>5. typed[t] = <<>>
    BY <1>4 DEF Discipline, Phased
  <2>6. Phased'
    <3>1. Visited(cur_terminal)'
      BY <1>0, <2>4
    <3>2. QED
      BY <1>0, <1>1, <2>3, <2>4, <3>1 DEF Discipline, Phased, Awaits
  <2>7. ~Awaits' /\ ~Ended'
    BY <2>3 DEF Awaits, Ended
  <2>8. Seen' = <<>>
    BY <1>0, <2>5 DEF Seen
  <2>9. QED
    BY <1>0, <1>2, <2>3, <2>6, <2>7, <2>8 DEF Matched, Copied
<1>5. QED
  BY <1>3, <1>4

LEMMA WriteKept ==
  ASSUME Careful, Discipline, Write
  PROVE  Phased' /\ Matched' /\ Copied'
<1>0. TypeOK /\ cur_terminal \in Terms /\ Top.pc \in {"user", "prompted"}
  BY DEF Discipline, TypeOK, Write
<1>1. /\ Top'.pc = "prompted" /\ \A t : Visited(t)' <=> Visited(t)
      /\ cur_terminal' = cur_terminal /\ typed' = typed /\ buffers' = buffers
      /\ kb_flag' = kb_flag
  BY <1>0, WentOn DEF Write
<1>2. ~kb_flag /\ Seen = <<>>
  BY <1>0 DEF Discipline, Phased, Matched, Awaits
<1>3. /\ inds'[cur_terminal] = 0
      /\ \A t \in Terms \ {cur_terminal} : inds'[t] = inds[t]
  BY <1>0 DEF Write, TypeOK
<1>4. ~Awaits' /\ ~Ended' /\ Seen' = <<>> /\ Line' = 0
  BY <1>1, <1>2, <1>3 DEF Awaits, Ended, Seen, Line
<1>5. \A t \in Terms \ {cur_terminal} : Match(t)'
  BY <1>1, <1>3 DEF Discipline, Matched, Match, Holds
<1>6. Phased'
  <2>1. Visited(cur_terminal)'
    BY <1>1 DEF Discipline, Phased
  <2>2. QED
    BY <1>1, <1>2, <2>1 DEF Discipline, Phased
<1>7. QED
  BY <1>1, <1>4, <1>5, <1>6 DEF Matched, Copied

LEMMA ReadCallKept ==
  ASSUME Careful, Discipline, ReadCall
  PROVE  Phased' /\ Matched' /\ Copied'
<1>0. TypeOK /\ cur_terminal \in Terms /\ Top.pc = "prompted"
  BY DEF Discipline, TypeOK, ReadCall, Careful
<1> DEFINE p == [Top EXCEPT !.pc = "wait", !.got = <<>>]
<1>1. p \in Program /\ p.home = Top.home /\ p.pc = "wait" /\ p.got = <<>>
  <2>1. <<>> \in Seq(Chars \cup {"tab", "enter", "nul"})
    OBVIOUS
  <2>2. QED
    BY <1>0, <2>1, TopTyped DEF Program
<1>2. SetTop(p)
  BY DEF ReadCall
<1> HIDE DEF p
<1>3. /\ Top'.pc = "wait" /\ Top'.got = <<>>
      /\ \A t : Visited(t)' <=> Visited(t)
  BY <1>0, <1>1, <1>2, TopSet
<1>4. /\ cur_terminal' = cur_terminal /\ typed' = typed /\ buffers' = buffers
      /\ kb_flag' = kb_flag /\ inds' = inds
  BY DEF ReadCall
<1>5. ~kb_flag /\ Seen = <<>> /\ Line = 0
  BY <1>0 DEF Discipline, Phased, Matched, Awaits
<1>6. Match(cur_terminal)'
  BY <1>4, <1>5 DEF Match, Holds, Seen, Line
<1>7. \A t \in Terms \ {cur_terminal} : Match(t)'
  BY <1>4 DEF Discipline, Matched, Match, Holds
<1>8. Phased'
  <2>1. Visited(cur_terminal)'
    BY <1>3, <1>4 DEF Discipline, Phased
  <2>2. QED
    BY <1>3, <1>4, <1>5, <2>1 DEF Discipline, Phased
<1>9. Awaits' /\ ~Ended'
  BY <1>3, <1>4, <1>5 DEF Awaits, Ended
<1>10. QED
  BY <1>3, <1>4, <1>6, <1>7, <1>8, <1>9 DEF Matched, Copied

\* terminal_read after Enter.
LEMMA ReadingKept ==
  ASSUME Careful, Discipline, Reading
  PROVE  Phased' /\ Matched' /\ Copied'
<1>0. TypeOK /\ Top.got \in Seq(Cells) /\ Top \in Program
  BY TopTyped DEF Discipline
<1>1. /\ Ended /\ ~Awaits /\ Seen = <<>>
      /\ cur_terminal' = cur_terminal /\ typed' = typed /\ inds' = inds
      /\ buffers' = buffers /\ kb_buf' = kb_buf /\ read_ind' = read_ind
      /\ kb_flag' \in {kb_flag, FALSE}
  BY DEF Reading, ReadPass, ReadClear, ReadCopy, ReadReturn, keyboard, Ended,
         Awaits, Discipline, Matched
<1>2. PICK s \in Lines : EnteredLine(s)
  BY <1>1 DEF Discipline, Copied
<1>3. ASSUME entered' = entered PROVE EnteredLine(s)'
  BY <1>1, <1>2, <1>3 DEF EnteredLine, Holds
<1>4. \A t \in Terms \ {cur_terminal} : Match(t)'
  BY <1>1 DEF Discipline, Matched, Match, Holds
<1>5. Seen' = <<>>
  BY <1>1 DEF Seen
<1>6. ASSUME \A t : Visited(t)' <=> Visited(t)
      PROVE  /\ Visited(cur_terminal)'
             /\ \A t \in Terms : ~Visited(t)' => typed'[t] = <<>>
  BY <1>1, <1>6 DEF Discipline, Phased
<1>7. Len(s) \in Nat
  BY DEF Lines
<1>8. CASE ReadPass
  <2>1. /\ Top'.pc = "clear" /\ Top'.got = Top.got
        /\ \A t : Visited(t)' <=> Visited(t)
        /\ entered' = entered /\ Top.pc = "wait"
    BY <1>0, <1>8, WentOn DEF ReadPass
  <2>2. Phased'
    BY <1>6, <2>1 DEF Phased, Discipline
  <2>3. Matched'
    BY <1>1, <1>4, <1>5, <2>1 DEF Matched, Awaits
  <2>4. QED
    BY <1>3, <2>1, <2>2, <2>3 DEF Copied
<1>9. CASE ReadClear
  <2>1. /\ Top'.pc = "copy" /\ Top'.got = <<>>
        /\ \A t : Visited(t)' <=> Visited(t)
        /\ entered' = entered /\ Top.pc = "clear" /\ ~kb_flag'
    BY <1>0, <1>9, WentOn DEF ReadClear, Discipline, Phased
  <2>2. Phased'
    BY <1>6, <2>1 DEF Phased
  <2>3. Matched'
    BY <1>1, <1>4, <1>5, <2>1 DEF Matched, Awaits
  <2>4. Len(Top'.got) <= read_ind'
    BY <1>1, <1>2, <1>7, <2>1 DEF EnteredLine
  <2>5. Holds(kb_buf, Top.got)'
    BY <2>1 DEF Holds
  <2>6. QED
    BY <1>3, <2>1, <2>2, <2>3, <2>4, <2>5 DEF Copied
<1>10. CASE ReadCopy
  <2> DEFINE c == buffers[kb_buf][Len(Top.got)]
             g == Append(Top.got, c)
             p == [Top EXCEPT !.got = Append(@, buffers[kb_buf][Len(@)])]
  <2>1. Top.pc = "copy" /\ More /\ ~kb_flag' /\ entered' = entered
    BY <1>10 DEF ReadCopy, Discipline, Phased
  <2>2. c \in Cells
    <3>1. Len(Top.got) \in 0 .. BufLen - 1
      BY <1>0, <2>1, ConstantsAssumption DEF More
    <3>2. QED
      BY <1>0, <3>1 DEF TypeOK, Cells
  <2>3. /\ g \in Seq(Cells) /\ Len(g) = Len(Top.got) + 1
        /\ \A i \in 1 .. Len(Top.got) : g[i] = Top.got[i]
        /\ g[Len(Top.got) + 1] = c
    BY <1>0, <2>2
  <2>4. p \in Program /\ p.home = Top.home /\ p.pc = "copy" /\ p.got = g
    BY <1>0, <2>1, <2>3 DEF Program, Cells
  <2>5. SetTop(p)
    BY <1>10 DEF ReadCopy
  <2> HIDE DEF p
  <2>6. Top' = p /\ \A t : Visited(t)' <=> Visited(t)
    BY <1>0, <2>4, <2>5, TopSet
  <2> HIDE DEF g
  <2>7. Phased'
    BY <1>1, <1>6, <2>1, <2>4, <2>6 DEF Phased
  <2>8. Matched'
    BY <1>1, <1>4, <1>5, <2>4, <2>6 DEF Matched, Awaits
  <2>9. Len(g) <= read_ind
    BY <1>0, <2>1, <2>3 DEF More, TypeOK
  <2>10. ASSUME NEW i \in 1 .. Len(g) PROVE buffers[kb_buf][i - 1] = g[i]
    <3>1. CASE i \in 1 .. Len(Top.got)
      BY <2>1, <2>3, <3>1 DEF Discipline, Copied, Holds
    <3>2. CASE i = Len(Top.got) + 1
      <4>1. i - 1 = Len(Top.got)
        BY <1>0, <3>2
      <4>2. QED
        BY <2>3, <3>2, <4>1
    <3>3. QED
      BY <1>0, <2>3, <3>1, <3>2
  <2>11. Holds(kb_buf, Top.got)'
    BY <1>1, <2>4, <2>6, <2>10 DEF Holds
  <2>12. QED
    BY <1>1, <1>3, <2>1, <2>4, <2>6, <2>7, <2>8, <2>9, <2>11 DEF Copied
<1>11. CASE ReadReturn
  <2>1. /\ Top'.pc = "user" /\ \A t : Visited(t)' <=> Visited(t)
        /\ Top.pc = "copy" /\ kb_flag' = kb_flag
    BY <1>0, <1>11, WentOn DEF ReadReturn
  <2>2. ~kb_flag
    BY <2>1 DEF Discipline, Phased
  <2>3. Phased'
    BY <1>6, <2>1, <2>2 DEF Phased
  <2>4. Matched'
    BY <1>1, <1>4, <1>5, <2>1 DEF Matched, Awaits
  <2>5. QED
    BY <2>1, <2>3, <2>4 DEF Copied, Ended
<1>12. QED
  BY <1>8, <1>9, <1>10, <1>11 DEF Reading

LEMMA DisciplineStep ==
  ASSUME Careful, Discipline, [Next]_vars
  PROVE  Discipline'
<1>1. TypeOK' /\ IInv'
  BY TypeStep, InBufferStep DEF Discipline, Careful
<1>2. CASE UNCHANGED vars
  <2>1. \A t : /\ Visited(t)' <=> Visited(t)
               /\ Match(t)' <=> Match(t)
    BY <1>2 DEF vars, keyboard, Visited, Match, Holds
  <2>2. Phased'
    BY <1>2, <2>1 DEF vars, keyboard, Discipline, Phased, Top
  <2>3. Matched'
    BY <1>2, <2>1 DEF vars, keyboard, Discipline, Matched, Awaits, Top, Line,
                      Seen
  <2>4. Copied'
    BY <1>2 DEF vars, keyboard, Discipline, Copied, Ended, Top, Holds,
                EnteredLine
  <2>5. QED
    BY <1>1, <2>2, <2>3, <2>4 DEF Discipline
<1>3. CASE Next
  BY <1>1, <1>3, KeyKept, AltFnKept, WriteKept, ReadCallKept, ReadingKept
  DEF Next, Discipline
<1>4. QED
  BY <1>2, <1>3

LEMMA DisciplineInit == Init => Discipline
<1> SUFFICES ASSUME Init PROVE Discipline
  OBVIOUS
<1>1. TypeOK /\ IInv
  BY TypeInit, InBufferInit
<1>2. /\ Len(programs) = 1 /\ programs[1].home = 0 /\ programs[1].pc = "user"
      /\ programs[1].got = <<>>
  BY DEF Init, Fresh
<1>3. Visited(0) /\ Top.pc = "user"
  BY <1>2 DEF Visited, Top
<1>4. \A t \in Terms : typed[t] = <<>> /\ inds[t] = 0
  BY DEF Init
<1>5. \A t \in Terms : Match(t)
  <2>1. Len(<<>>) = 0 /\ 1 .. 0 = {}
    OBVIOUS
  <2>2. QED
    BY <1>4, <2>1, Zenon DEF Match, Holds
<1>6. cur_terminal = 0 /\ ~kb_flag /\ 0 \in Terms
  BY ConstantsAssumption DEF Init
<1>7. Phased
  BY <1>3, <1>4, <1>6 DEF Phased
<1>8. Matched
  BY <1>3, <1>4, <1>5, <1>6 DEF Matched, Awaits, Seen
<1>9. Copied
  BY <1>3 DEF Copied, Ended
<1>10. QED
  BY <1>1, <1>7, <1>8, <1>9 DEF Discipline

THEOREM Disciplined == ASSUME Careful PROVE Spec => []Discipline
<1>1. Discipline /\ [Next]_vars => Discipline'
  BY DisciplineStep
<1>2. QED
  BY <1>1, DisciplineInit, PTL DEF Spec

\* On any number of terminals, with a line buffer of any length, the buffer of
\* the displayed terminal holds the line the user has typed there, whatever
\* was typed on the other terminals meanwhile (keyboard.c:89-263).
THEOREM LineFaithful == ASSUME Careful PROVE Spec => []Faithful
<1>1. Discipline => Faithful
  BY DEF Discipline, Matched, Faithful, Awaits, Match, Holds, Line, Seen
<1>2. QED
  BY <1>1, Disciplined, PTL

\* And a read returns the line entered on the displayed terminal, whether
\* Enter left a newline in the buffer or scrolled (keyboard.c:311-343).
THEOREM ReadsLine == ASSUME Careful PROVE Spec => DeliversShown
<1>1. ASSUME Discipline, ReadReturn
      PROVE  entered[cur_terminal] = <<Text(Top.got)>>
  <2>1. /\ Top.pc = "copy" /\ ~More /\ Top.got \in Seq(Cells)
        /\ read_ind \in Int /\ read_ind <= BufLen /\ BufLen \in Nat
    BY <1>1, TopTyped, ConstantsAssumption
    DEF ReadReturn, Discipline, TypeOK, IInv, InBuffer, NotAbove
  <2>2. PICK s \in Lines : EnteredLine(s)
    BY <2>1, <1>1 DEF Discipline, Copied, Ended
  <2>3. Len(Top.got) <= read_ind /\ Holds(cur_terminal, Top.got)
    BY <1>1, <2>1, <2>2 DEF Discipline, Copied, EnteredLine
  <2>4. PICK g \in Seq(Cells) : g = Top.got
    BY <2>1
  <2>5. Len(g) = read_ind /\ Len(g) \in Nat /\ Len(s) \in Nat
    BY <2>1, <2>3, <2>4 DEF More, Lines
  <2>6. Len(g) \in {Len(s), Len(s) + 1}
    BY <2>2, <2>5 DEF EnteredLine
  <2>7. \A i \in 1 .. Len(s) : g[i] = s[i]
    BY <2>2, <2>3, <2>4, <2>5, <2>6 DEF Holds, EnteredLine
  <2>8. CASE Len(g) = Len(s)
    <3>1. g = s
      BY <2>7, <2>8 DEF Lines
    <3>2. s # <<>> => s[Len(s)] # "enter"
      <4>1. s # <<>> => s[Len(s)] \in Chars \cup {"tab"}
        BY DEF Lines
      <4>2. QED
        BY <4>1 DEF Chars
    <3>3. Text(g) = s
      BY <3>1, <3>2 DEF Text
    <3>4. QED
      BY <2>2, <2>4, <3>3 DEF EnteredLine
  <2>9. CASE Len(g) = Len(s) + 1
    <3>1. buffers[cur_terminal][Len(s)] = "enter"
      BY <2>2, <2>5, <2>9 DEF EnteredLine
    <3>2. Len(s) + 1 \in 1 .. Len(g) /\ (Len(s) + 1) - 1 = Len(s)
      BY <2>5, <2>9
    <3>3. g[Len(g)] = "enter"
      BY <2>3, <2>4, <2>9, <3>1, <3>2 DEF Holds
    <3>4. g # <<>> /\ SubSeq(g, 1, Len(g) - 1) = s
      <4>1. Len(g) - 1 = Len(s)
        BY <2>5, <2>9
      <4>2. SubSeq(g, 1, Len(s)) = s
        BY <2>5, <2>7, <2>9 DEF Lines
      <4>3. QED
        BY <2>5, <2>9, <4>1, <4>2
    <3>5. Text(g) = s
      BY <3>3, <3>4 DEF Text
    <3>6. QED
      BY <2>2, <2>4, <3>5 DEF EnteredLine
  <2>10. QED
    BY <2>6, <2>8, <2>9
<1>2. Discipline /\ [Next]_vars =>
        [ReadReturn => entered[cur_terminal] = <<Text(Top.got)>>]_vars
  BY <1>1
<1>3. QED
  BY <1>2, Disciplined, PTL DEF DeliversShown, Spec
=============================================================================
